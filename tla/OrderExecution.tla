-------------------------- MODULE OrderExecution --------------------------
(***************************************************************************)
(* core/execution: how the engine turns a trading decision into an order.  *)
(*                                                                         *)
(* Callers are threads.  A keyed caller goes through submit(), which       *)
(* claims the idempotency key in the ledger, sends, retries only explicit  *)
(* requotes, and records the outcome.  A raw caller (execute_proposal      *)
(* without a key, as core/trading/orchestrator.py calls it) goes through   *)
(* _send_with_retry and never touches the ledger.  One more thread runs    *)
(* reconcile_unresolved_keys.  The ledger's lock is held for one ledger    *)
(* call at a time, so every ledger call is a step of its own.              *)
(*                                                                         *)
(* The broker is external.  A request may be executed or refused at any    *)
(* time after it was sent, also after its sender stopped waiting for it.   *)
(***************************************************************************)
EXTENDS Integers, FiniteSets

CONSTANTS
    Threads,      \* the threads that submit orders
    Keys,         \* idempotency keys
    RawCalls,     \* calls of the path without a key; each is made once
    InComment,    \* <<k, c>>: key k is part of the comment of the order of call c
    MaxRetries,   \* ExecutionEngine.max_retries
    MaxEpoch      \* bound: lives of the process

ASSUME OrderExecutionAssumption ==
    /\ Keys \cap RawCalls = {}
    /\ InComment \subseteq Keys \X (Keys \cup RawCalls)
    /\ MaxRetries \in Nat
    /\ MaxEpoch \in Nat \ {0}

Calls == Keys \cup RawCalls

\* Keys that no order carries in its comment, and keys that no order but their
\* own does.  The test is `key in pos.comment`: a key that is a part of another
\* key, or of a strategy's name, is found in orders that are not its own.
Silent == {k \in Keys : \A c \in Calls : <<k, c>> \notin InComment}
Own    == {k \in Keys : \A c \in Calls : <<k, c>> \in InComment => c = k}

\* One attempt of one call in one life of the process: a request on the wire.
Ticket == [epoch : Nat \ {0}, call : Calls, n : Nat \ {0}]
NoTicket == [epoch |-> 0]           \* deal == order == 0 in a report

(***************************************************************************)
(* Return codes, by what state_from_retcode makes of them.  "less" is DONE *)
(* with a smaller volume than requested, "reject" any code of              *)
(* _NOT_SENT_RETCODE, "other" a code RetCode does not list, "raise" an     *)
(* exception out of send_order.                                            *)
(***************************************************************************)
RetCode == {"done", "less", "partial", "cancel", "reject", "requote",
            "timeout", "other", "raise"}

\* Slips a change of the table could make, used only to test the properties:
\* a timeout counted as a refusal, and CANCEL answered with a state that
\* submit's loop does not know.
StateOfTimeoutRefused == [c \in RetCode |->
    CASE c = "done" -> "FILLED" [] c \in {"less", "partial"} -> "PARTIALLY_FILLED"
      [] c = "cancel" -> "CANCELLED" [] c \in {"reject", "timeout"} -> "REJECTED"
      [] c = "requote" -> "NOT_SENT" [] OTHER -> "UNKNOWN"]
StateOfCancelExpired == [c \in RetCode |->
    CASE c = "done" -> "FILLED" [] c \in {"less", "partial"} -> "PARTIALLY_FILLED"
      [] c = "cancel" -> "EXPIRED" [] c = "reject" -> "REJECTED"
      [] c = "requote" -> "NOT_SENT" [] OTHER -> "UNKNOWN"]

StateOf == [c \in RetCode |->
    CASE c = "done"                         -> "FILLED"
      [] c \in {"less", "partial"}          -> "PARTIALLY_FILLED"
      [] c = "cancel"                       -> "CANCELLED"
      [] c = "reject"                       -> "REJECTED"
      [] c = "requote"                      -> "NOT_SENT"
      [] c \in {"timeout", "other", "raise"} -> "UNKNOWN"]

States  == {"FILLED", "PARTIALLY_FILLED", "CANCELLED", "REJECTED", "NOT_SENT", "UNKNOWN"}
Filled  == {"FILLED", "PARTIALLY_FILLED"}
Refused == {"CANCELLED", "REJECTED", "NOT_SENT"}

Report     == [state : States, deal : Ticket \cup {NoTicket}]
NoReport   == [state |-> "NONE", deal |-> NoTicket]
Indeterminate == [state |-> "UNKNOWN", deal |-> NoTicket]
Record     == [report : Report, inFlight : BOOLEAN]
NoRecord   == [report |-> NoReport, inFlight |-> FALSE]

VARIABLES
    epoch,        \* which life of the process this is
    ledger,       \* IdempotencyLedger._records
    thread,       \* per thread: where it is, its call, attempts, report in hand
    recon,        \* the thread in reconcile_unresolved_keys
    sent,         \* requests that reached the wire
    filled,       \* ... that the broker executed
    refused       \* ... that the broker refused

engine == <<epoch, ledger, thread, recon>>
broker == <<sent, filled, refused>>
vars   == <<epoch, ledger, thread, recon, sent, filled, refused>>

At(pc, c) == [pc |-> pc, call |-> c, attempts |-> 0, report |-> NoReport]
Idle      == At("idle", "none")
Told(c, r) == [At("told", c) EXCEPT !.report = r]
ReconIdle == [pc |-> "idle", todo |-> {}, seen |-> {}, key |-> "none", pos |-> NoTicket]

ThreadState == [pc : {"idle", "get", "send", "wait", "record", "told"},
                call : Calls \cup {"none"}, attempts : Nat, report : Report \cup {NoReport}]
ReconState  == [pc : {"idle", "fetch", "match", "write"}, todo : SUBSET Keys,
                seen : SUBSET Ticket,
                key : Keys \cup {"none"}, pos : Ticket \cup {NoTicket}]

TypeOK ==
    /\ epoch \in Nat \ {0}
    /\ ledger \in [Keys -> Record \cup {NoRecord}]
    /\ thread \in [Threads -> ThreadState]
    /\ recon \in ReconState
    /\ sent \subseteq Ticket
    /\ filled \subseteq sent
    /\ refused \subseteq sent

Init ==
    /\ epoch  = 1
    /\ ledger = [k \in Keys |-> NoRecord]
    /\ thread = [t \in Threads |-> Idle]
    /\ recon  = ReconIdle
    /\ sent = {} /\ filled = {} /\ refused = {}

(***************************************************************************)
(* submit(): the keyed path.                                               *)
(***************************************************************************)

\* A thread with no call in progress; one that is "told" still holds the answer
\* to its last one.
Free(t) == thread[t].pc \in {"idle", "told"}

\* Mutant: begin claims without looking whether the key was used.
BeginBlind(t, k) ==
    /\ Free(t)
    /\ ledger' = [ledger EXCEPT ![k] = [report |-> Indeterminate, inFlight |-> TRUE]]
    /\ thread' = [thread EXCEPT ![t] = At("send", k)]
    /\ UNCHANGED <<epoch, recon, broker>>

\* ledger.begin claims the key, or finds it used.
Begin(t, k) ==
    /\ Free(t)
    /\ IF ledger[k] = NoRecord
       THEN /\ ledger' = [ledger EXCEPT ![k] = [report |-> Indeterminate, inFlight |-> TRUE]]
            /\ thread' = [thread EXCEPT ![t] = At("send", k)]
       ELSE /\ thread' = [thread EXCEPT ![t] = At("get", k)]
            /\ UNCHANGED ledger
    /\ UNCHANGED <<epoch, recon, broker>>

\* The key was used: the caller is handed whatever the ledger says by now.
GetExisting(t) ==
    /\ thread[t].pc = "get"
    /\ thread' = [thread EXCEPT ![t] = Told(@.call, ledger[@.call].report)]
    /\ UNCHANGED <<epoch, ledger, recon, broker>>

CurrentTicket(t) == [epoch |-> epoch, call |-> thread[t].call, n |-> thread[t].attempts]

\* Mutant: the attempts are counted from one again on every turn of the loop.
SendOrderUncounted(t) ==
    /\ thread[t].pc = "send"
    /\ thread' = [thread EXCEPT ![t].pc = "wait", ![t].attempts = 1]
    /\ sent' = sent \cup {[epoch |-> epoch, call |-> thread[t].call, n |-> 1]}
    /\ UNCHANGED <<epoch, ledger, recon, filled, refused>>

\* attempts += 1; adapter.send_order puts the request on the wire.  Both paths.
SendOrder(t) ==
    /\ thread[t].pc = "send"
    /\ LET n == thread[t].attempts + 1 IN
       /\ thread' = [thread EXCEPT ![t].pc = "wait", ![t].attempts = n]
       /\ sent' = sent \cup {[epoch |-> epoch, call |-> thread[t].call, n |-> n]}
    /\ UNCHANGED <<epoch, ledger, recon, filled, refused>>

(***************************************************************************)
(* External: what send_order may answer.  A definite code is the truth     *)
(* about the request; an indefinite one, or an exception, may come at any  *)
(* time, whatever the broker does with the request now or later, and may   *)
(* or may not carry the number of the deal.                                *)
(***************************************************************************)
MayAnswer(tk, c, deal) ==
    /\ c \in {"done", "less", "partial"}    => tk \in filled /\ deal = tk
    /\ c \in {"cancel", "reject", "requote"} => tk \in refused /\ deal = NoTicket
    /\ c \in {"timeout", "other"} => deal = NoTicket \/ (tk \in filled /\ deal = tk)
    /\ c = "raise" => deal = NoTicket

\* send_order answers a keyed caller: retry a requote, or leave the loop.
Reply(t) ==
    /\ thread[t].pc = "wait" /\ thread[t].call \in Keys
    /\ \E c \in RetCode, deal \in {CurrentTicket(t), NoTicket} :
         /\ MayAnswer(CurrentTicket(t), c, deal)
         /\ LET report == [state |-> StateOf[c], deal |-> deal]
                again  == report.state = "NOT_SENT" /\ thread[t].attempts <= MaxRetries
            IN  thread' = [thread EXCEPT ![t].report = report,
                                         ![t].pc = IF again THEN "send" ELSE "record"]
    /\ UNCHANGED <<epoch, ledger, recon, broker>>

\* ledger.complete(report), then the report is returned.
RecordOutcome(t) ==
    /\ thread[t].pc = "record"
    /\ ledger' = [ledger EXCEPT ![thread[t].call] =
                     [report |-> thread[t].report, inFlight |-> FALSE]]
    /\ thread' = [thread EXCEPT ![t] = Told(@.call, @.report)]
    /\ UNCHANGED <<epoch, recon, broker>>

(***************************************************************************)
(* What a caller is told.  submit_proposal returns the report; a keyed     *)
(* execute_proposal returns what _order_result_from_report makes of it.    *)
(* Its test for ExecutionState.PARTIAL_FILL names no member of that enum,  *)
(* so every state that gets as far as that test raises AttributeError and  *)
(* RetCode.REJECT is never answered.                                       *)
(***************************************************************************)
\* Mutant: an unknown outcome is answered as a clean refusal (engine.py:31-38).
ResultOfUnknownRefused == [st \in States |->
    CASE st \in Filled              -> "DONE"
      [] st \in {"UNKNOWN", "NOT_SENT"} -> "REQUOTE"
      [] st \in {"CANCELLED", "REJECTED"} -> "raises"]
ResultOf == [st \in States |->
    CASE st \in Filled              -> "DONE"
      [] st = "UNKNOWN"             -> "TIMEOUT"
      [] st = "NOT_SENT"            -> "REQUOTE"
      [] st \in {"CANCELLED", "REJECTED"} -> "raises"]

(***************************************************************************)
(* execute_proposal without a key: _send_with_retry.                       *)
(***************************************************************************)
RawTickets(c) == {tk \in sent : tk.call = c}

RawCall(t, c) ==
    /\ Free(t)
    /\ RawTickets(c) = {} /\ \A u \in Threads : thread[u].call # c
    /\ thread' = [thread EXCEPT ![t] = At("send", c)]
    /\ UNCHANGED <<epoch, ledger, recon, broker>>

\* Mutant: the raw path retries a timeout as well.
RawReplyRetriesTimeout(t) ==
    /\ thread[t].pc = "wait" /\ thread[t].call \in RawCalls
    /\ \E c \in RetCode, deal \in {CurrentTicket(t), NoTicket} :
         /\ MayAnswer(CurrentTicket(t), c, deal)
         /\ thread' = [thread EXCEPT ![t] =
               IF c \in {"requote", "timeout"} /\ thread[t].attempts <= MaxRetries
               THEN [@ EXCEPT !.pc = "send"] ELSE Idle]
    /\ UNCHANGED <<epoch, ledger, recon, broker>>

\* Only an explicit requote is retried: success, a timeout, any other code and
\* an exception all leave the loop.
RawReply(t) ==
    /\ thread[t].pc = "wait" /\ thread[t].call \in RawCalls
    /\ \E c \in RetCode, deal \in {CurrentTicket(t), NoTicket} :
         /\ MayAnswer(CurrentTicket(t), c, deal)
         /\ thread' = [thread EXCEPT ![t] =
               IF c = "requote" /\ thread[t].attempts <= MaxRetries
               THEN [@ EXCEPT !.pc = "send"] ELSE Idle]
    /\ UNCHANGED <<epoch, ledger, recon, broker>>

(***************************************************************************)
(* External: the broker.                                                   *)
(***************************************************************************)
OnWire == sent \ (filled \cup refused)

BrokerFill(tk) ==
    /\ tk \in OnWire
    /\ filled' = filled \cup {tk}
    /\ UNCHANGED <<engine, sent, refused>>

BrokerRefuse(tk) ==
    /\ tk \in OnWire
    /\ refused' = refused \cup {tk}
    /\ UNCHANGED <<engine, sent, filled>>

(***************************************************************************)
(* reconcile_unresolved_keys, one step per ledger or broker call.          *)
(***************************************************************************)
Unresolved == {k \in Keys : \/ ledger[k].inFlight
                            \/ ledger[k].report.state = "UNKNOWN"}

ReconcileStart ==
    /\ recon.pc = "idle"
    /\ Unresolved # {}
    /\ recon' = [ReconIdle EXCEPT !.pc = "fetch", !.todo = Unresolved]
    /\ UNCHANGED <<epoch, ledger, thread, broker>>

\* get_positions: the executed orders whose position is still open (a stop, a
\* target or the user may have closed any of them), or an exception.
ReconcileFetch ==
    /\ recon.pc = "fetch"
    /\ \/ \E open \in SUBSET filled :
            recon' = [recon EXCEPT !.pc = "match", !.seen = open]
       \/ recon' = ReconIdle
    /\ UNCHANGED <<epoch, ledger, thread, broker>>

\* Mutant: any position of the magic number will do.
MatchesAnything(k, tk) == tk.call \in Calls

\* The deal number of the record, or the key found in the position's comment.
Matches(k, tk) ==
    \/ ledger[k].report.deal = tk
    \/ <<k, tk.call>> \in InComment

\* The next key of the snapshot: read its record, look for a position.
ReconcileMatch(k) ==
    /\ recon.pc = "match" /\ k \in recon.todo
    /\ \/ \E tk \in recon.seen :
            /\ Matches(k, tk)
            /\ recon' = [recon EXCEPT !.pc = "write", !.todo = @ \ {k}, !.key = k, !.pos = tk]
       \/ /\ \A tk \in recon.seen : ~Matches(k, tk)
          /\ recon' = [recon EXCEPT !.todo = @ \ {k}]
    /\ UNCHANGED <<epoch, ledger, thread, broker>>

\* ledger.complete with a FILLED report built from the position.
ReconcileWrite ==
    /\ recon.pc = "write"
    /\ ledger' = [ledger EXCEPT ![recon.key] =
           [report |-> [state |-> "FILLED", deal |-> recon.pos], inFlight |-> FALSE]]
    /\ recon' = [recon EXCEPT !.pc = "match", !.key = "none", !.pos = NoTicket]
    /\ UNCHANGED <<epoch, thread, broker>>

ReconcileEnd ==
    /\ recon.pc = "match" /\ recon.todo = {}
    /\ recon' = ReconIdle
    /\ UNCHANGED <<epoch, ledger, thread, broker>>

\* Mutant: only the ledger is cleared, under the feet of the calls in progress.
RestartKeepsCalls ==
    /\ epoch < MaxEpoch
    /\ ledger' = [k \in Keys |-> NoRecord]
    /\ UNCHANGED <<epoch, thread, recon, broker>>

\* The ledger is in memory: a restart loses it, and every call in progress.
Restart ==
    /\ epoch < MaxEpoch
    /\ epoch'  = epoch + 1
    /\ ledger' = [k \in Keys |-> NoRecord]
    /\ thread' = [t \in Threads |-> Idle]
    /\ recon'  = ReconIdle
    /\ UNCHANGED broker

Next ==
    \/ \E t \in Threads : 
         \/ \E k \in Keys : Begin(t, k)
         \/ \E c \in RawCalls : RawCall(t, c)
         \/ GetExisting(t) \/ SendOrder(t) \/ Reply(t) \/ RawReply(t) \/ RecordOutcome(t)
    \/ \E tk \in OnWire : BrokerFill(tk) \/ BrokerRefuse(tk)
    \/ ReconcileStart \/ ReconcileFetch \/ ReconcileWrite \/ ReconcileEnd
    \/ \E k \in Keys : ReconcileMatch(k)
    \/ Restart

\* A thread that runs keeps running, and send_order returns: the terminal
\* answers within its timeout, if only with TIMEOUT.
Fairness ==
    /\ \A t \in Threads :
         WF_vars(GetExisting(t) \/ SendOrder(t) \/ Reply(t) \/ RawReply(t) \/ RecordOutcome(t))
    /\ WF_vars(\/ ReconcileFetch \/ ReconcileWrite \/ ReconcileEnd
               \/ \E k \in Keys : ReconcileMatch(k))

Safe == Init /\ [][Next]_vars
Spec == Safe /\ Fairness

-----------------------------------------------------------------------------
(***************************************************************************)
(* Properties.                                                             *)
(***************************************************************************)

\* "Submit an order at most once" (engine.py:283): in one life of the process
\* the broker executes at most one request of a call, over every retry, every
\* duplicate caller, every late execution and every reconciliation.
AtMostOnce ==
    \A x, y \in filled : x.epoch = y.epoch /\ x.call = y.call => x = y

\* The requests of a key in this life of the process.
Mine(k) == {tk \in sent : tk.epoch = epoch /\ tk.call = k}

\* An execution that speaks for key k: of its own order, or of one in whose
\* comment the key is found.
Shown(k) == \E tk \in filled : tk.call = k \/ <<k, tk.call>> \in InComment

\* What the ledger says has a ground.  A key is in flight only while some caller
\* is still submitting it: no error path leaves it claimed for ever (engine.py:313).
\* A refusal is evidence (states.py:54): when the ledger says that a key was
\* refused, none of its requests was executed and none still can be; when it
\* says filled, the broker executed a request of that key, or one whose comment
\* contains it - for a key in Own, a request of that very decision.
LedgerIsEvidence ==
    \A k \in Keys :
      /\ ledger[k].inFlight => \E t \in Threads :
           thread[t].call = k /\ thread[t].pc \in {"send", "wait", "record"}
      /\ ledger[k].report.state \in Refused => Mine(k) \subseteq refused
      /\ ledger[k].report.state \in Filled  => Shown(k)

\* What a caller walks away with: the report submit_proposal returned to it, and
\* the code execute_proposal would have made of it.  Whether it sent the order
\* itself or was a suppressed duplicate, it is told "refused" only of a key none
\* of whose requests was executed in this life, or still can be, or will be
\* sent; and DONE only when there is an execution to show for it.
RefusedTo(t) == \/ thread[t].report.state \in Refused
                \/ ResultOf[thread[t].report.state] \in {"REQUOTE", "raises"}
CallerIsNotMisled ==
    \A t \in Threads : thread[t].pc = "told" =>
      /\ RefusedTo(t) =>
           /\ Mine(thread[t].call) \subseteq refused
           /\ \A u \in Threads : thread[u].pc \in {"send", "wait"} => thread[u].call # thread[t].call
      /\ ResultOf[thread[t].report.state] = "DONE" => Shown(thread[t].call)

\* The verdict the ledger gives on a decision.
ToldOf(k) ==
    LET s == ledger[k].report.state IN
    IF s = "NONE" THEN "free" ELSE IF s \in Filled THEN "filled"
    ELSE IF s \in Refused THEN "refused" ELSE "unknown"

\* Once the ledger holds a verdict on a key that is found in no order's comment,
\* no step of any thread takes it back or turns it round.
UntaggedVerdictIsFinal ==
    [][\A k \in Silent :
         ToldOf(k) \in {"filled", "refused"} /\ epoch' = epoch => ToldOf(k)' = ToldOf(k)]_vars

\* "Terminal states: the outcome will not change without a new action"
\* (states.py:72).  The code does not keep this: reconciliation writes FILLED
\* over a record that was completed after its snapshot of the unresolved keys.
TerminalOutcomeIsFinal ==
    [][\A k \in Keys :
         ledger[k].report.state \in Filled \cup Refused /\ epoch' = epoch
           => ledger'[k].report.state = ledger[k].report.state]_vars

\* Every call returns, however the broker behaves (retries are bounded, nothing
\* is waited for but send_order).
EveryCallReturns == \A t \in Threads : ~Free(t) ~> Free(t)

\* The promise of the keyed path, for the keys no other order can be taken for:
\* a key that is part of another order's comment may be confirmed by that order
\* while its own is still pending, which the promise forbids.
Submitting(k) == \E t \in Threads : thread[t].call = k /\ thread[t].pc \in {"send", "wait"}
OutcomeOf(k) ==
    IF ledger[k] = NoRecord THEN "none"
    ELSE IF Mine(k) \cap filled # {} THEN "filled"
    ELSE IF Submitting(k) \/ ~(Mine(k) \subseteq refused) THEN "pending"
    ELSE "refused"
Abstract == INSTANCE OrderPromise WITH
    Keys    <- Own,
    outcome <- [k \in Own |-> OutcomeOf(k)],
    earlier <- {tk.call : tk \in {x \in filled : x.epoch < epoch}} \cap Own,
    told    <- [k \in Own |-> ToldOf(k)]

ImplementsPromise == Abstract!Promise
=============================================================================
