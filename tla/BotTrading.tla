----------------------------- MODULE BotTrading -----------------------------
(***************************************************************************)
(* The manager loop of run.py that steps every StandaloneAIBot in turn,    *)
(* the entry protocol of _send_order with its resends, and the dashboard   *)
(* thread whose emergency stop, pause and resume act on the same bots, all *)
(* through one MetaTrader terminal that may answer late or not at all.     *)
(*                                                                         *)
(* One order request is named by its bot, the entry decision it serves and *)
(* its place among that decision's requests. Sizing, prices and signals    *)
(* are folded into the choice to enter or not; a close names the position  *)
(* it closes, so its resends cannot close anything else and one call of    *)
(* _close_position is one step here.                                       *)
(***************************************************************************)
EXTENDS Integers, FiniteSets

CONSTANTS Bots,          \* one bot per symbol
          SymbolCap,     \* max_pos_per_symbol (or max_open_pos if smaller: both count the same positions)
          Attempts,      \* max_slippage_retries
          Alternatives,  \* filling modes tried after an unsupported or lost request
          MaxDecisions   \* bound: entry decisions per bot

ASSUME BotTradingAssumption ==
    /\ SymbolCap \in Nat \ {0} /\ Attempts \in Nat \ {0}
    /\ Alternatives \in Nat \ {0} /\ MaxDecisions \in Nat

VARIABLES
    loop,      \* the manager thread: where it is and the locals of _send_order
    dash,      \* the dashboard thread serving emergency_stop
    paused,    \* bot -> b.paused
    decisions, \* bot -> entry decisions taken so far
    wire,      \* requests the broker has not decided
    open,      \* requests the broker filled whose position is open
    gone,      \* requests the broker filled whose position is closed
    unclear,   \* history: decisions with a request neither filled nor refused in answer
    blind,     \* history: bots that took a decision on a failed read of their positions
    admitted   \* history: bot -> decisions taken since an emergency stop paused it

vars == <<loop, dash, paused, decisions, wire, open, gone, unclear, blind, admitted>>
market == <<wire, open, gone, unclear>>

Order == [bot : Bots, decision : 1..MaxDecisions, send : 1..Attempts + Alternatives]
Decision == [bot : Bots, decision : 1..MaxDecisions]
DecisionOf(o) == [bot |-> o.bot, decision |-> o.decision]
OrdersOf(S, b) == {o \in S : o.bot = b}

IdleLoop == [pc |-> "idle"]
IdleDash == [pc |-> "idle"]

\* What an answered request can come back with: filled, a price that moved
\* (REQUOTE, PRICE_CHANGED, PRICE_OFF), a filling mode the broker lacks
\* (INVALID_FILL), any other refusal; "limbo", a code that settles nothing
\* (TIMEOUT, CONNECTION, PLACED, DONE_PARTIAL); "none", order_send's None.
Unsettled == {"limbo", "none"}
Answer == {"done", "requote", "fill_mode", "refused"} \union Unsettled

Init ==
    /\ loop = IdleLoop /\ dash = IdleDash
    /\ paused = [b \in Bots |-> FALSE] /\ decisions = [b \in Bots |-> 0]
    /\ wire = {} /\ open = {} /\ gone = {} /\ unclear = {} /\ blind = {}
    /\ admitted = [b \in Bots |-> 0]

---------------------------------------------------------------------------
(* The terminal and the broker *)

\* What _open_positions may return: the open positions of b, or none of them,
\* because `or []` also stands for a call that failed.
ReadPositions(b) == {OrdersOf(open, b), {}}

\* A request on the wire is filled, whoever still waits for it.
BrokerFills ==
    \E o \in wire : /\ wire' = wire \ {o} /\ open' = open \union {o}
                    /\ UNCHANGED <<loop, dash, paused, decisions, gone, unclear, blind, admitted>>

\* The stop or the target closes a position at the broker.
BrokerCloses ==
    \E o \in open : /\ open' = open \ {o} /\ gone' = gone \union {o}
                    /\ UNCHANGED <<loop, dash, paused, decisions, wire, unclear, blind, admitted>>

\* order_send's return value for o. A fill or a refusal is final; an unsettled
\* answer is not: the request may have been filled, now or later, or be lost.
Answers(o, a) ==
    \/ a = "done" /\ o \in open \union gone /\ UNCHANGED <<wire, unclear>>
    \/ /\ a \in {"requote", "fill_mode", "refused"} /\ o \in wire
       /\ wire' = wire \ {o} /\ UNCHANGED unclear
    \/ a \in Unsettled /\ unclear' = unclear \union {DecisionOf(o)} /\ UNCHANGED wire

\* _close_position(o): the position is closed, or every attempt fails.
CloseCall(o) ==
    \/ o \in open /\ open' = open \ {o} /\ gone' = gone \union {o}
    \/ UNCHANGED <<open, gone>>

---------------------------------------------------------------------------
(* The manager loop *)

\* The loop goes through its bots; which one is next does not matter here.
\* step(): a paused bot does nothing; otherwise the tick runs, its positions are
\* managed (any of them may be closed) and a new bar may bring a direction.
BeginStepBlind(b) ==
    /\ loop.pc = "idle"
    /\ loop' = [pc |-> "manage", bot |-> b]
    /\ UNCHANGED <<dash, paused, decisions, market, blind, admitted>>
BeginStep(b) ==
    /\ loop.pc = "idle" /\ ~paused[b]
    /\ loop' = [pc |-> "manage", bot |-> b]
    /\ UNCHANGED <<dash, paused, decisions, market, blind, admitted>>

ManageClose ==
    /\ loop.pc = "manage"
    /\ \E o \in OrdersOf(open, loop.bot) : CloseCall(o)
    /\ UNCHANGED <<loop, dash, paused, decisions, wire, unclear, blind, admitted>>

EndStep ==
    /\ loop.pc = "manage"
    /\ loop' = IdleLoop
    /\ UNCHANGED <<dash, paused, decisions, market, blind, admitted>>

\* _entry_slots_ok, read just before the order: a decision if there is room.
RoomForOneTooMany(seen) == Cardinality(seen) <= SymbolCap
RoomFor(seen) == Cardinality(seen) < SymbolCap

Decide ==
    /\ loop.pc = "manage" /\ decisions[loop.bot] < MaxDecisions
    /\ \E seen \in ReadPositions(loop.bot) :
         /\ RoomFor(seen)
         /\ blind' = IF seen = OrdersOf(open, loop.bot) THEN blind ELSE blind \union {loop.bot}
    /\ decisions' = [decisions EXCEPT ![loop.bot] = @ + 1]
    /\ admitted' = IF paused[loop.bot] THEN [admitted EXCEPT ![loop.bot] = @ + 1] ELSE admitted
    /\ loop' = [pc |-> "send", bot |-> loop.bot, decision |-> decisions[loop.bot] + 1,
                attempt |-> 1, alternative |-> 0]
    /\ UNCHANGED <<dash, paused, market>>

Current == [bot |-> loop.bot, decision |-> loop.decision,
            send |-> loop.attempt + loop.alternative]

\* mt5.order_send(req) goes out ...
SendOrder ==
    /\ loop.pc = "send"
    /\ wire' = wire \union {Current}
    /\ loop' = [loop EXCEPT !.pc = "wait"]
    /\ UNCHANGED <<dash, paused, decisions, open, gone, unclear, blind, admitted>>

\* ... and its answer decides what _send_order does next: a moved price repeats
\* the attempt; an unsupported filling mode, or no answer at all to the first
\* attempt, tries the other filling modes until one answers DONE; anything else
\* gives up.
Resend(attempt, alternative) ==
    [pc |-> "send", bot |-> loop.bot, decision |-> loop.decision,
     attempt |-> attempt, alternative |-> alternative]
AfterAnswerFallsThrough(a) ==
    CASE loop.alternative = 0 /\ a = "requote" /\ loop.attempt < Attempts ->
            Resend(loop.attempt + 1, 0)
      [] loop.alternative < Alternatives /\ a # "requote" -> Resend(loop.attempt, loop.alternative + 1)
      [] OTHER -> IdleLoop
AfterAnswerUncounted(a) ==
    IF loop.alternative = 0 /\ a = "requote" THEN Resend(loop.attempt, 0) ELSE IdleLoop
AfterAnswerOnceMore(a) ==
    IF loop.alternative = 0 /\ a = "requote" /\ loop.attempt <= Attempts
    THEN Resend(loop.attempt + 1, 0) ELSE IdleLoop
AfterAnswer(a) ==
    CASE loop.alternative > 0 /\ a # "done" /\ loop.alternative < Alternatives ->
            Resend(loop.attempt, loop.alternative + 1)
      [] loop.alternative = 0 /\ a = "requote" /\ loop.attempt < Attempts ->
            Resend(loop.attempt + 1, 0)
      [] loop.alternative = 0 /\ (a = "fill_mode" \/ (a = "none" /\ loop.attempt = 1)) ->
            Resend(loop.attempt, 1)
      [] OTHER -> IdleLoop

ReceiveAnswer ==
    /\ loop.pc = "wait"
    /\ \E a \in Answer : /\ Answers(Current, a)
                         /\ loop' = AfterAnswer(a)
    /\ UNCHANGED <<dash, paused, decisions, open, gone, blind, admitted>>

LoopStep == (\E b \in Bots : BeginStep(b)) \/ ManageClose \/ EndStep \/ Decide
            \/ SendOrder \/ ReceiveAnswer

---------------------------------------------------------------------------
(* The dashboard *)

\* The emergency stop, bot by bot: read the bot's positions, close each, pause.
BeginStop ==
    /\ dash.pc = "idle"
    /\ dash' = [pc |-> "read", left |-> Bots]
    /\ UNCHANGED <<loop, paused, decisions, market, blind, admitted>>
StopRead ==
    /\ dash.pc = "read"
    /\ \E b \in dash.left : \E seen \in ReadPositions(b) :
         dash' = [pc |-> "close", left |-> dash.left \ {b}, bot |-> b, targets |-> seen]
    /\ UNCHANGED <<loop, paused, decisions, market, blind, admitted>>
StopClose ==
    /\ dash.pc = "close"
    /\ \E o \in dash.targets : /\ CloseCall(o)
                               /\ dash' = [dash EXCEPT !.targets = @ \ {o}]
    /\ UNCHANGED <<loop, paused, decisions, wire, unclear, blind, admitted>>
StopPause ==
    /\ dash.pc = "close" /\ dash.targets = {}
    /\ paused' = [paused EXCEPT ![dash.bot] = TRUE]
    /\ admitted' = [admitted EXCEPT ![dash.bot] = IF paused[dash.bot] THEN @ ELSE 0]
    /\ dash' = IF dash.left = {} THEN IdleDash ELSE [pc |-> "read", left |-> dash.left]
    /\ UNCHANGED <<loop, decisions, market, blind>>

\* Resume, served by another thread of the dashboard: it may run between two
\* steps of a stop.
Resume ==
    /\ \E b \in Bots : paused[b]
    /\ paused' = [b \in Bots |-> FALSE]
    /\ admitted' = [b \in Bots |-> 0]
    /\ UNCHANGED <<loop, dash, decisions, market, blind>>

StopStep == StopRead \/ StopClose \/ StopPause

Next == BrokerFills \/ BrokerCloses \/ LoopStep \/ BeginStop \/ StopStep \/ Resume
Safe == Init /\ [][Next]_vars

\* Both threads keep running, and a call into the terminal returns: order_send
\* gives up with None when the terminal does not answer. A step does not manage
\* forever: the positions it goes through were read once.
Fairness == /\ WF_vars(SendOrder) /\ WF_vars(ReceiveAnswer) /\ WF_vars(EndStep \/ Decide)
            /\ WF_vars(StopStep)
Spec == Safe /\ Fairness

---------------------------------------------------------------------------
(* Properties *)

\* Every variable keeps its type; an entry sends at most Attempts + Alternatives
\* requests (run.py:3829).
TypeOK ==
    /\ loop \in {IdleLoop} \union [pc : {"manage"}, bot : Bots]
                \union [pc : {"send", "wait"}, bot : Bots, decision : 1..MaxDecisions,
                        attempt : 1..Attempts, alternative : 0..Alternatives]
    /\ dash \in {IdleDash} \union [pc : {"read"}, left : SUBSET Bots]
                \union [pc : {"close"}, left : SUBSET Bots, bot : Bots,
                        targets : SUBSET Order]
    /\ paused \in [Bots -> BOOLEAN] /\ decisions \in [Bots -> 0..MaxDecisions]
    /\ wire \subseteq Order /\ open \subseteq Order /\ gone \subseteq Order
    /\ unclear \subseteq Decision /\ blind \subseteq Bots /\ admitted \in [Bots -> Nat]

\* One entry decision becomes at most one filled order, and never leaves another
\* request behind it on the wire, as long as every request of that decision was
\* answered with a fill or a refusal (run.py:3829).
OneOrderWhileSettled ==
    \A o, p \in wire \union open \union gone :
       o # p /\ DecisionOf(o) = DecisionOf(p) => DecisionOf(o) \in unclear

\* A symbol never holds more positions than max_pos_per_symbol, as long as
\* its requests were answered with a fill or a refusal and no decision
\* was taken on a failed read of its positions (run.py:3586).
CapWhileSettled ==
    \A b \in Bots :
       OrdersOf(unclear, b) = {} /\ b \notin blind =>
         Cardinality(OrdersOf(wire \union open, b)) <= SymbolCap

\* After an emergency stop has paused a bot, at most one more entry decision is
\* taken for it until it is resumed: the one of the step that was running.
StopAdmitsOnlyTheRunningStep == \A b \in Bots : admitted[b] <= 1

\* A step of the loop returns, whatever the broker does with its requests.
StepReturns == (loop.pc # "idle") ~> (loop.pc = "idle")

\* "A decision produces at most one order": README.md:54 says an unknown outcome is
\* never auto-retried.
UnknownIsNeverRetried ==
    \A o, p \in open \union gone : DecisionOf(o) = DecisionOf(p) => o = p

\* "All trading stopped and positions closing" (run.py:5831): a bot the stop has
\* paused gets no new position until it is resumed.
StopMeansStopped ==
    [][\A b \in Bots : paused[b] /\ paused'[b] =>
          \A o \in OrdersOf(open', b) : o \in open]_vars
=============================================================================
