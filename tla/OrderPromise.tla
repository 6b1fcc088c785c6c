--------------------------- MODULE OrderPromise ---------------------------
(***************************************************************************)
(* What the idempotent submission path promises to the code that trades    *)
(* through it (core/execution/engine.py, submit, and the guarantees listed *)
(* in its docstring): one decision, identified by its idempotency key,     *)
(* becomes at most one order at the broker in one life of the process, and *)
(* what the ledger says about a decision is never a guess.                 *)
(***************************************************************************)

CONSTANT Keys       \* the idempotency keys: one per trading decision

VARIABLES
    outcome,        \* what really happened to the decision at the broker
    earlier,        \* the decisions executed by an earlier life of the process
    told            \* what the ledger says about the decision

promised == <<outcome, earlier, told>>

Outcomes == {"none", "pending", "filled", "refused"}
Answers  == {"free", "unknown", "filled", "refused"}

PromiseInit ==
    /\ outcome = [k \in Keys |-> "none"]
    /\ earlier = {}
    /\ told    = [k \in Keys |-> "free"]

\* The decision is claimed: from here on it may reach the broker.
Claim(k) ==
    /\ told[k] = "free"
    /\ told'    = [told EXCEPT ![k] = "unknown"]
    /\ outcome' = [outcome EXCEPT ![k] = "pending"]
    /\ UNCHANGED earlier

\* The broker settles the decision, one way or the other, once.
Settle(k) ==
    /\ outcome[k] = "pending"
    /\ \E o \in {"filled", "refused"} : outcome' = [outcome EXCEPT ![k] = o]
    /\ UNCHANGED <<earlier, told>>

\* The ledger learns that the decision was executed, in this life or before.
Confirm(k) ==
    /\ outcome[k] = "filled" \/ k \in earlier
    /\ told' = [told EXCEPT ![k] = "filled"]
    /\ UNCHANGED <<outcome, earlier>>

\* The ledger reports a refusal only of what the broker can no longer execute.
Deny(k) ==
    /\ outcome[k] = "refused"
    /\ told' = [told EXCEPT ![k] = "refused"]
    /\ UNCHANGED <<outcome, earlier>>

\* A confirmed execution may be forgotten again, but only into "unknown".
Doubt(k) ==
    /\ told[k] = "filled"
    /\ told' = [told EXCEPT ![k] = "unknown"]
    /\ UNCHANGED <<outcome, earlier>>

\* An order an earlier life left on the wire is executed only now.
LateFill(k) ==
    /\ earlier' = earlier \cup {k}
    /\ UNCHANGED <<outcome, told>>

\* The process restarts: the promise is made anew.
Renew ==
    /\ outcome' = [k \in Keys |-> "none"]
    /\ earlier' = earlier \cup {k \in Keys : outcome[k] = "filled"}
    /\ told'    = [k \in Keys |-> "free"]

PromiseNext ==
    \/ \E k \in Keys :
          Claim(k) \/ Settle(k) \/ Confirm(k) \/ Deny(k) \/ Doubt(k) \/ LateFill(k)
    \/ Renew

Promise == PromiseInit /\ [][PromiseNext]_promised

===========================================================================
