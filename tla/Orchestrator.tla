---------------------------- MODULE Orchestrator ----------------------------
(***************************************************************************)
(* core/trading/orchestrator.py driving core/risk/engine.py: each thread   *)
(* runs evaluate for a symbol, from the market data to, at the end, an     *)
(* order.  Every stage may refuse.  The stages that only read the market   *)
(* are one action; the look at the open positions, the four parts of the   *)
(* approval, the request to the broker, its execution and the answer are   *)
(* actions of their own, because threads, the broker, the monitor and the  *)
(* operator's controls (api/main.py) act between them.                     *)
(*                                                                         *)
(* The order goes through execute_proposal without a key, to               *)
(* _send_with_retry: a requote is sent again (how often is left out), a    *)
(* timeout or a lost connection is returned although the broker may still  *)
(* execute the request.                                                    *)
(*                                                                         *)
(* No code of the repository calls update_equity, record_trade_result or   *)
(* on_trade_opened: they are the duties the engine's docstrings give to a  *)
(* position monitor, and Monitor stands for one that follows them.         *)
(***************************************************************************)
EXTENDS RiskEngine

CONSTANTS
    Symbols,
    Markets,       \* what the analysis of a symbol may find
    MinScore, FallbackTarget, FallbackR,
    Execute,       \* FALSE is a paper run
    MaxPositions,  \* bound: positions per symbol
    MaxLate        \* bound: requests per symbol left behind by an answer that settled nothing

GateAssumption == EngineAssumption /\ {MaxPositions, MaxLate} \subseteq Nat

VARIABLES
    pc,            \* stage of each thread's evaluate
    plan,          \* symbol, market and, later, stop and target of that evaluate
    open,          \* positions at the broker, per symbol
    late,          \* requests, per symbol, that the broker may still execute
                   \* although their answer settled nothing
    sentInStop,    \* history: orders each thread has sent since the stop was set
    strays         \* history: late requests that were executed, per symbol

pipelineVars == <<pc, plan, open, late, sentInStop, strays>>
vars == <<engineVars, pipelineVars>>

NoPlan == [symbol |-> "none"]

-----------------------------------------------------------------------------
(* _target_for: the nearest untaken pool in the trade's favour, a tenth of *)
(* an ATR short of it; else a multiple of the stop distance, if allowed.   *)
(* 0 stands for None.                                                      *)
TargetFor(m) ==
    LET short == m.pool - (IF m.atr > 0 THEN m.direction * (m.atr \div 10) ELSE 0)
        distance == IF m.entry >= m.stop THEN m.entry - m.stop ELSE m.stop - m.entry
    IN  IF m.pool # 0 /\ (short - m.entry) * m.direction > 0 THEN short
        ELSE IF ~FallbackTarget \/ m.atr = 0 \/ distance = 0 THEN 0
        ELSE m.entry + m.direction * distance * FallbackR

(* The stages before the position lookup, in their order.                  *)
Refusal(m) ==
    IF ~m.data THEN "REJECTED"
    ELSE IF ~m.located THEN "REJECTED"
    ELSE IF m.direction = 0 \/ m.score < MinScore THEN "NO_SIGNAL"
    ELSE IF ~m.gate \/ ~m.tick \/ m.stop = 0 \/ TargetFor(m) = 0 THEN "REJECTED"
    ELSE "none"

(* The evaluation ends: its decision is returned to the caller, which logs *)
(* it, and the thread is free again.                                       *)
Finish(c) == pc' = [pc EXCEPT ![c] = "idle"] /\ plan' = [plan EXCEPT ![c] = NoPlan]

-----------------------------------------------------------------------------
Init ==
    /\ EngineInit
    /\ pc = [c \in Callers |-> "idle"]
    /\ plan = [c \in Callers |-> NoPlan]
    /\ open = [s \in Symbols |-> 0]
    /\ late = [s \in Symbols |-> 0]
    /\ sentInStop = [c \in Callers |-> 0]
    /\ strays = [s \in Symbols |-> 0]

Analyse(c) ==
    /\ pc[c] = "idle"
    /\ \E s \in Symbols, m \in Markets :
         IF Refusal(m) # "none"
         THEN Finish(c)
         ELSE /\ pc' = [pc EXCEPT ![c] = "positions"]
              /\ plan' = [plan EXCEPT ![c] = [symbol |-> s, market |-> m]]
    /\ UNCHANGED <<engineVars, open, late, sentInStop, strays>>

(* The positions of this symbol are counted, and the approval begins.  A   *)
(* lookup that raises, as the terminal's adapter does, is a rejection.     *)
LookUpPositions(c) ==
    /\ pc[c] = "positions"
    /\ LET m == plan[c].market
           proposal == [direction |-> m.direction, entry |-> m.entry, sl |-> m.stop,
                        tp |-> TargetFor(m), hasAccount |-> m.hasAccount,
                        equity |-> m.equity, hasInfo |-> m.hasInfo,
                        spread |-> m.spread, marginEstimate |-> 0, adx |-> m.adx]
       IN  \/ Finish(c) /\ UNCHANGED call
           \/ /\ ApproveBegin(c, proposal, open[plan[c].symbol], 0)
              /\ pc' = [pc EXCEPT ![c] = "approve"]
              /\ UNCHANGED plan
    /\ UNCHANGED <<now, stop, references, counters, limits, open, late,
                   sentInStop, strays>>

Approve(c) ==
    /\ pc[c] = "approve"
    /\ ApproveStop(c) \/ ApproveCount(c) \/ ApproveCooldown(c)
    /\ UNCHANGED pipelineVars

(* The verdict: rejected, approved on paper, or on its way to the broker.  *)
(* The engine is not told.                                                 *)
Conclude(c) ==
    /\ pc[c] = "approve" /\ call[c].step = "done"
    /\ IF Approved(c) /\ Execute
       THEN pc' = [pc EXCEPT ![c] = "send"] /\ UNCHANGED plan
       ELSE Finish(c)
    /\ call' = [call EXCEPT ![c] = NoCall]
    /\ UNCHANGED <<now, stop, references, counters, limits, open, late,
                   sentInStop, strays>>

(* send_order: the request leaves, under the kill switch or not ...        *)
Request(c) ==
    /\ pc[c] = "send"
    /\ pc' = [pc EXCEPT ![c] = "sent"]
    /\ sentInStop' = [sentInStop EXCEPT ![c] = IF stop THEN Smaller(@ + 1, 2) ELSE @]
    /\ UNCHANGED <<engineVars, plan, open, late, strays>>

(* ... and leaves again when the broker answers with a requote.            *)
Requote(c) ==
    /\ pc[c] = "sent"
    /\ sentInStop' = [sentInStop EXCEPT ![c] = IF stop THEN Larger(@, 1) ELSE @]
    /\ UNCHANGED <<engineVars, pc, plan, open, late, strays>>

(* The broker opens a position on s.                                       *)
Opens(s) == open[s] < MaxPositions /\ open' = [open EXCEPT ![s] = @ + 1]

(* The broker executes the request of a thread that waits for the answer.  *)
Execution(c) ==
    /\ pc[c] = "sent" /\ Opens(plan[c].symbol)
    /\ pc' = [pc EXCEPT ![c] = "filled"]
    /\ UNCHANGED <<engineVars, plan, late, sentInStop, strays>>

(* The answer, or an exception, frees the thread.  An executed request is  *)
(* answered with success or with a timeout; one not executed is refused,   *)
(* or the answer settles nothing and the broker may still execute it.      *)
Answer(c) ==
    /\ pc[c] \in {"sent", "filled"}
    /\ \/ UNCHANGED late
       \/ /\ pc[c] = "sent" /\ late[plan[c].symbol] + strays[plan[c].symbol] < MaxLate
          /\ late' = [late EXCEPT ![plan[c].symbol] = @ + 1]
    /\ Finish(c)
    /\ UNCHANGED <<engineVars, open, sentInStop, strays>>

-----------------------------------------------------------------------------
(* The monitor, the operator and the broker.                               *)

Monitor == (UpdateEquity \/ RecordTradeResult \/ OnTradeOpened) /\ UNCHANGED pipelineVars

(* api/main.py: emergency-stop, control (pause is the same) and resume.    *)
Operator ==
    \/ TriggerStop /\ UNCHANGED pipelineVars
    \/ /\ ResetStop /\ sentInStop' = [c \in Callers |-> 0]
       /\ UNCHANGED <<pc, plan, open, late, strays>>
    \/ UpdateConfig /\ UNCHANGED pipelineVars

BrokerCloses ==
    /\ \E s \in Symbols : open[s] > 0 /\ open' = [open EXCEPT ![s] = @ - 1]
    /\ UNCHANGED <<engineVars, pc, plan, late, sentInStop, strays>>

(* A request whose answer settled nothing is executed after all.           *)
LateExecution ==
    /\ \E s \in Symbols : /\ late[s] > 0 /\ late' = [late EXCEPT ![s] = @ - 1]
                          /\ strays' = [strays EXCEPT ![s] = @ + 1]
                          /\ Opens(s)
    /\ UNCHANGED <<engineVars, pc, plan, sentInStop>>

Next ==
    \/ \E c \in Callers : \/ Analyse(c) \/ LookUpPositions(c) \/ Approve(c) \/ Conclude(c)
                         \/ Request(c) \/ Requote(c) \/ Execution(c) \/ Answer(c)
    \/ Monitor \/ Operator \/ BrokerCloses \/ LateExecution
    \/ Tick /\ UNCHANGED pipelineVars

Spec == Init /\ [][Next]_vars

-----------------------------------------------------------------------------
TypeOK ==
    /\ EngineTypeOK
    /\ pc \in [Callers -> {"idle", "positions", "approve", "send", "sent", "filled"}]
    /\ open \in [Symbols -> 0..MaxPositions]
    /\ late \in [Symbols -> 0..MaxLate] /\ strays \in [Symbols -> Nat]
    /\ sentInStop \in [Callers -> 0..2]

(* The kill switch is read once, early in approve, and the order is sent   *)
(* several locks later: a call that was past that point when the switch    *)
(* was thrown still sends its order.  It is the only one: until the switch *)
(* is reset, no thread sends a second.                                     *)
StopAdmitsOnlyRunningCalls == \A c \in Callers : sentInStop[c] <= 1

(* The cap on open positions is compared with a count taken before the     *)
(* approval and nothing is reserved: threads that overlap exceed it, by no *)
(* more than one position for each of the other threads.  A timeout is     *)
(* taken for a failure (orchestrator.py:317): the thread may approve       *)
(* another trade while the broker still holds the request, and each        *)
(* request executed after such an answer exceeds the cap by one more.      *)
CapOvershootIsBounded ==
    \A s \in Symbols :
        \E cap \in Ranges["maxOpen"] : open[s] <= cap + Cardinality(Callers) - 1 + strays[s]
=============================================================================
