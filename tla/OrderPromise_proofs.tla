------------------------ MODULE OrderPromise_proofs ------------------------
(***************************************************************************)
(* The idempotent submission path keeps its promise: every step of         *)
(* OrderExecution is a step of OrderPromise, or none that it can see.  On  *)
(* top of the invariant of OrderExecution_proofs this needs to know what   *)
(* the reconciling thread may be about to overwrite.                       *)
(***************************************************************************)
EXTENDS OrderExecution_proofs, TLAPS

\* Reconciliation works through keys that have a record, and only a restart,
\* which ends it, removes one.
SnapshotHasRecords ==
    /\ \A k \in recon.todo : ledger[k] # NoRecord
    /\ recon.pc = "write" => ledger[recon.key] # NoRecord

\* A refusal names no deal.  While a thread submits a key that no order carries
\* in its comment, the ledger names no deal of that key either, so reconciliation can
\* only be about to write over a record that names the very deal.
RefusedNamesNoDeal ==
    /\ \A k \in Keys : ledger[k].report.state \in Refused => ledger[k].report.deal = NoTicket
    /\ \A t \in Threads : thread[t].pc = "record" /\ thread[t].report.state \in Refused
                            => thread[t].report.deal = NoTicket
UntaggedIsBlank ==
    \A t \in Threads : Owner(t) /\ thread[t].call \in Silent
                         => ledger[thread[t].call].report = Indeterminate
UntaggedByDeal ==
    recon.pc = "write" /\ recon.key \in Silent
      => ledger[recon.key].report.deal = recon.pos

SnapshotInv == SnapshotHasRecords /\ RefusedNamesNoDeal /\ UntaggedIsBlank /\ UntaggedByDeal

LEMMA SnapshotInit == Init => SnapshotInv
BY DEF Init, SnapshotInv, SnapshotHasRecords, RefusedNamesNoDeal, UntaggedIsBlank,
   UntaggedByDeal, Owner, Idle, At, ReconIdle, NoRecord, NoReport, NoTicket, Refused

LEMMA SilentKeys == Silent \subseteq Keys
BY DEF Silent

\* The threads hold keys one at a time, and what they do not hold they leave.
LEMMA SnapshotAloof ==
    ASSUME SnapshotInv, UNCHANGED <<ledger, recon>>,
           \A t \in Threads :
             /\ thread'[t].pc = "record" => thread[t].pc = "record"
                                            /\ thread'[t].report = thread[t].report
             /\ Owner(t)' /\ thread'[t].call \in Keys => Owner(t) /\ thread'[t].call = thread[t].call
    PROVE  SnapshotInv'
BY SilentKeys DEF SnapshotInv, SnapshotHasRecords, RefusedNamesNoDeal, UntaggedIsBlank, UntaggedByDeal

LEMMA SnapshotStep == Inv /\ SnapshotInv /\ [Next]_vars => SnapshotInv'
<1> SUFFICES ASSUME Inv, SnapshotInv, [Next]_vars PROVE SnapshotInv'
  OBVIOUS
<1>0. TypeOK /\ BusyType /\ ReconType /\ OneOwner
  BY DEF Inv, OnceInv, TypeInv
<1>1. ASSUME NEW t \in Threads, NEW k \in Keys, Begin(t, k) PROVE SnapshotInv'
  <2>1. CASE ledger[k] = NoRecord
    <3>1. /\ ledger'[k] = [report |-> Indeterminate, inFlight |-> TRUE]
          /\ \A j \in Keys \ {k} : ledger'[j] = ledger[j]
          /\ thread'[t] = At("send", k) /\ \A u \in Threads \ {t} : thread'[u] = thread[u]
          /\ UNCHANGED recon
      BY <1>0, <1>1, <2>1 DEF Begin, TypeOK
    <3>2. ledger'[k] # NoRecord /\ ledger'[k].report = Indeterminate
      BY <3>1 DEF NoRecord
    <3>3. \A u \in Threads \ {t} : Owner(u) /\ thread[u].call \in Keys => thread[u].call # k
      BY <1>0, <2>1 DEF OneOwner
    <3>4. recon.pc = "write" => recon.key \in Keys \ {k}
      BY <1>0, <2>1 DEF ReconType, SnapshotInv, SnapshotHasRecords
    <3>5. recon.todo \subseteq Keys
      BY <1>0 DEF TypeOK, ReconState
    <3>6. SnapshotHasRecords'
      BY <3>1, <3>2, <3>4, <3>5 DEF SnapshotInv, SnapshotHasRecords
    <3>7. RefusedNamesNoDeal'
      BY <3>1, <3>2 DEF SnapshotInv, RefusedNamesNoDeal, Indeterminate, Refused, At
    <3>8. UntaggedIsBlank'
      BY <3>1, <3>2, <3>3, SilentKeys DEF SnapshotInv, UntaggedIsBlank, Owner, At
    <3>9. UntaggedByDeal'
      BY <3>1, <3>4 DEF SnapshotInv, UntaggedByDeal
    <3> QED
      BY <3>6, <3>7, <3>8, <3>9 DEF SnapshotInv
  <2>2. CASE ledger[k] # NoRecord
    <3>1. /\ thread'[t] = At("get", k) /\ \A u \in Threads \ {t} : thread'[u] = thread[u]
          /\ UNCHANGED <<ledger, recon>>
      BY <1>0, <1>1, <2>2 DEF Begin, TypeOK
    <3> QED
      BY <3>1, SnapshotAloof DEF Owner, At
  <2> QED
    BY <2>1, <2>2
<1>2. ASSUME NEW t \in Threads, NEW c \in RawCalls, RawCall(t, c) PROVE SnapshotInv'
  <2>1. /\ thread'[t] = At("send", c) /\ \A u \in Threads \ {t} : thread'[u] = thread[u]
        /\ UNCHANGED <<ledger, recon>> /\ c \notin Keys
    BY <1>0, <1>2, OrderExecutionAssumption DEF RawCall, TypeOK
  <2> QED
    BY <2>1, SnapshotAloof DEF Owner, At
<1>3. ASSUME NEW t \in Threads, GetExisting(t) PROVE SnapshotInv'
  <2>1. /\ thread'[t].pc = "told" /\ \A u \in Threads \ {t} : thread'[u] = thread[u]
        /\ UNCHANGED <<ledger, recon>>
    BY <1>0, <1>3 DEF GetExisting, TypeOK, Told, At
  <2> QED
    BY <2>1, SnapshotAloof DEF Owner
<1>4. ASSUME NEW t \in Threads, SendOrder(t) PROVE SnapshotInv'
  <2>1. /\ thread[t].pc = "send" /\ thread'[t].pc = "wait" /\ thread'[t].call = thread[t].call
        /\ \A u \in Threads \ {t} : thread'[u] = thread[u]
        /\ UNCHANGED <<ledger, recon>>
    BY <1>0, <1>4 DEF SendOrder, TypeOK, ThreadState
  <2> QED
    BY <2>1, SnapshotAloof DEF Owner
<1>5. ASSUME NEW t \in Threads, Reply(t) PROVE SnapshotInv'
  <2>1. PICK c \in RetCode, deal \in {CurrentTicket(t), NoTicket} :
          /\ MayAnswer(CurrentTicket(t), c, deal)
          /\ LET report == [state |-> StateOf[c], deal |-> deal]
                 again  == report.state = "NOT_SENT" /\ thread[t].attempts <= MaxRetries
             IN  thread' = [thread EXCEPT ![t].report = report,
                                          ![t].pc = IF again THEN "send" ELSE "record"]
    BY <1>5 DEF Reply
  <2> DEFINE report == [state |-> StateOf[c], deal |-> deal]
  <2>2. /\ thread[t].pc = "wait" /\ UNCHANGED <<ledger, recon>>
        /\ thread'[t].pc \in {"send", "record"} /\ thread'[t].call = thread[t].call
        /\ thread'[t].report = report
        /\ \A u \in Threads \ {t} : thread'[u] = thread[u]
    BY <1>0, <1>5, <2>1 DEF Reply, TypeOK, ThreadState
  <2>3. report.state \in Refused => report.deal = NoTicket
    <3>1. StateOf[c] \in Refused => c \in {"cancel", "reject", "requote"}
      BY DEF StateOf, Refused, RetCode
    <3> QED
      BY <2>1, <3>1 DEF MayAnswer
  <2>4. RefusedNamesNoDeal'
    BY <2>2, <2>3 DEF SnapshotInv, RefusedNamesNoDeal
  <2>5. UntaggedIsBlank'
    BY <2>2 DEF SnapshotInv, UntaggedIsBlank, Owner
  <2> QED
    BY <2>2, <2>4, <2>5 DEF SnapshotInv, SnapshotHasRecords, UntaggedByDeal
<1>6. ASSUME NEW t \in Threads, RawReply(t) PROVE SnapshotInv'
  <2>1. /\ thread[t].pc = "wait" /\ UNCHANGED <<ledger, recon>>
        /\ thread'[t] = [thread[t] EXCEPT !.pc = "send"] \/ thread'[t] = Idle
        /\ \A u \in Threads \ {t} : thread'[u] = thread[u]
    BY <1>0, <1>6 DEF RawReply, TypeOK
  <2>2. thread'[t].pc \in {"send", "idle"} /\ (thread'[t].pc = "send" => thread'[t].call = thread[t].call)
    BY <1>0, <2>1 DEF TypeOK, ThreadState, Idle, At
  <2> QED
    BY <2>1, <2>2, SnapshotAloof DEF Owner
<1>7. ASSUME NEW t \in Threads, RecordOutcome(t) PROVE SnapshotInv'
  <2> DEFINE k == thread[t].call
  <2>1. thread[t].pc = "record" /\ k \in Keys /\ UNCHANGED recon
    BY <1>0, <1>7 DEF RecordOutcome, BusyType
  <2>2. /\ ledger'[k] = [report |-> thread[t].report, inFlight |-> FALSE]
        /\ \A j \in Keys \ {k} : ledger'[j] = ledger[j]
        /\ thread'[t].pc = "told" /\ \A u \in Threads \ {t} : thread'[u] = thread[u]
    BY <1>0, <1>7, <2>1 DEF RecordOutcome, TypeOK, Told, At
  <2>3. ledger'[k] # NoRecord /\ ledger'[k].report = thread[t].report
    BY <1>0, <2>1, <2>2 DEF BusyType, NoRecord, NoReport, Report, States
  <2>4. recon.todo \subseteq Keys /\ (recon.pc = "write" => recon.key \in Keys /\ recon.pos # NoTicket)
    BY <1>0, NoneIsNone DEF TypeOK, ReconState, ReconType
  <2>5. SnapshotHasRecords'
    BY <2>1, <2>2, <2>3, <2>4 DEF SnapshotInv, SnapshotHasRecords
  <2>6. RefusedNamesNoDeal'
    BY <2>1, <2>2, <2>3 DEF SnapshotInv, RefusedNamesNoDeal
  <2>7. UntaggedIsBlank'
    <3>1. \A u \in Threads : Owner(u)' => Owner(u) /\ thread'[u] = thread[u] /\ thread[u].call # k
      BY <1>0, <2>1, <2>2 DEF Owner, OneOwner
    <3> QED
      BY <2>2, <3>1, SilentKeys DEF SnapshotInv, UntaggedIsBlank
  <2>8. UntaggedByDeal'
    <3>1. k \in Silent => ledger[k].report = Indeterminate
      BY <2>1 DEF SnapshotInv, UntaggedIsBlank, Owner
    <3>2. recon.pc = "write" /\ recon.key \in Silent => recon.key # k
      BY <2>1, <2>4, <3>1 DEF SnapshotInv, UntaggedByDeal, Indeterminate
    <3> QED
      BY <2>1, <2>2, <2>4, <3>2 DEF SnapshotInv, UntaggedByDeal
  <2> QED
    BY <2>5, <2>6, <2>7, <2>8 DEF SnapshotInv
<1>8. ASSUME NEW tk \in OnWire, BrokerFill(tk) \/ BrokerRefuse(tk) PROVE SnapshotInv'
  BY <1>8, SnapshotAloof DEF BrokerFill, BrokerRefuse, engine, Owner
<1>9. ASSUME UNCHANGED <<ledger, thread>>, SnapshotHasRecords', UntaggedByDeal' PROVE SnapshotInv'
  BY <1>9 DEF SnapshotInv, RefusedNamesNoDeal, UntaggedIsBlank, Owner
<1>10. CASE ReconcileStart
  <2>1. recon'.todo = Unresolved /\ recon'.pc = "fetch" /\ UNCHANGED <<ledger, thread>>
    BY <1>10 DEF ReconcileStart, ReconIdle
  <2>2. \A k \in Unresolved : ledger[k] # NoRecord
    BY DEF Unresolved, NoRecord, NoReport
  <2> QED
    BY <1>9, <2>1, <2>2 DEF SnapshotHasRecords, UntaggedByDeal
<1>11. CASE ReconcileFetch \/ ReconcileEnd
  <2>1. recon'.pc # "write" /\ recon'.todo \subseteq recon.todo /\ UNCHANGED <<ledger, thread>>
    <3>1. CASE recon' = ReconIdle
      BY <1>11, <3>1 DEF ReconcileFetch, ReconcileEnd, ReconIdle
    <3>2. ASSUME NEW open \in SUBSET filled,
                 recon' = [recon EXCEPT !.pc = "match", !.seen = open]
          PROVE  recon'.pc # "write" /\ recon'.todo = recon.todo
      BY <1>0, <3>2 DEF TypeOK, ReconState
    <3> QED
      BY <1>11, <3>1, <3>2 DEF ReconcileFetch, ReconcileEnd
  <2> QED
    BY <1>9, <2>1 DEF SnapshotInv, SnapshotHasRecords, UntaggedByDeal
<1>12. ASSUME NEW k \in Keys, ReconcileMatch(k) PROVE SnapshotInv'
  <2>1. k \in recon.todo /\ UNCHANGED <<ledger, thread>>
    BY <1>12 DEF ReconcileMatch
  <2>2. ASSUME NEW tk \in recon.seen, Matches(k, tk),
               recon' = [recon EXCEPT !.pc = "write", !.todo = @ \ {k}, !.key = k, !.pos = tk]
        PROVE  SnapshotInv'
    <3>1. recon'.todo \subseteq recon.todo /\ recon'.key = k /\ recon'.pos = tk
      BY <1>0, <2>2 DEF TypeOK, ReconState
    <3>2. k \in Silent => ledger[k].report.deal = tk
      BY <1>0, <2>2 DEF Matches, Silent, TypeOK, ReconState, Ticket
    <3> QED
      BY <1>9, <2>1, <3>1, <3>2 DEF SnapshotInv, SnapshotHasRecords, UntaggedByDeal
  <2>3. CASE recon' = [recon EXCEPT !.todo = @ \ {k}]
    <3>1. recon'.todo \subseteq recon.todo /\ recon'.pc = recon.pc /\ recon'.key = recon.key
          /\ recon'.pos = recon.pos
      BY <1>0, <2>3 DEF TypeOK, ReconState
    <3> QED
      BY <1>9, <2>1, <3>1 DEF SnapshotInv, SnapshotHasRecords, UntaggedByDeal
  <2> QED
    BY <1>12, <2>2, <2>3 DEF ReconcileMatch
<1>13. CASE ReconcileWrite
  <2> DEFINE k == recon.key
             r == [state |-> "FILLED", deal |-> recon.pos]
  <2>1. recon.pc = "write" /\ k \in Keys /\ recon.pos # NoTicket /\ UNCHANGED thread
    BY <1>0, <1>13, NoneIsNone DEF ReconcileWrite, ReconType
  <2>2. /\ ledger'[k] = [report |-> r, inFlight |-> FALSE]
        /\ \A j \in Keys \ {k} : ledger'[j] = ledger[j]
    BY <1>0, <1>13, <2>1 DEF ReconcileWrite, TypeOK
  <2>3. recon'.pc = "match" /\ recon'.todo = recon.todo /\ recon.todo \subseteq Keys
    BY <1>0, <1>13 DEF ReconcileWrite, TypeOK, ReconState
  <2>4. ledger'[k] # NoRecord /\ ledger'[k].report = r
    BY <2>2 DEF NoRecord, NoReport
  <2>5. SnapshotHasRecords'
    BY <2>2, <2>3, <2>4 DEF SnapshotInv, SnapshotHasRecords
  <2>6. RefusedNamesNoDeal'
    BY <2>1, <2>2, <2>4 DEF SnapshotInv, RefusedNamesNoDeal, Refused
  <2>7. UntaggedIsBlank'
    <3>1. ASSUME NEW t \in Threads, Owner(t), thread[t].call \in Silent
          PROVE  thread[t].call # k
      BY <2>1, <3>1 DEF SnapshotInv, UntaggedIsBlank, UntaggedByDeal, Indeterminate
    <3> QED
      BY <2>1, <2>2, <3>1, SilentKeys DEF SnapshotInv, UntaggedIsBlank, Owner
  <2> QED
    BY <2>3, <2>5, <2>6, <2>7 DEF SnapshotInv, UntaggedByDeal
<1>14. CASE Restart
  BY <1>0, <1>14, SnapshotInit DEF Restart, Init, SnapshotInv, SnapshotHasRecords,
     RefusedNamesNoDeal, UntaggedIsBlank, UntaggedByDeal, Owner, Idle, At, ReconIdle, NoRecord,
     NoReport, NoTicket, Refused
<1>15. CASE UNCHANGED vars
  BY <1>15, SnapshotAloof DEF vars, Owner
<1> QED
  BY <1>1, <1>2, <1>3, <1>4, <1>5, <1>6, <1>7, <1>8, <1>10, <1>11, <1>12, <1>13, <1>14, <1>15
     DEF Next

LEMMA BothHold == Safe => [](Inv /\ SnapshotInv)
<1>1. Init => Inv /\ SnapshotInv
  BY OnceInit, EvidenceInit, ToldInit, SnapshotInit DEF Inv
<1>2. Inv /\ SnapshotInv /\ [Next]_vars => Inv' /\ SnapshotInv'
  BY OnceStep, EvidenceStep, ToldStep, SnapshotStep DEF Inv
<1> QED
  BY <1>1, <1>2, PTL DEF Safe

\* Once the ledger holds a verdict on a key found in no order's comment, no step
\* of any thread takes it back: whoever still submits it finds the record blank,
\* and reconciliation writes only over a record that names the deal it found.
THEOREM UntaggedVerdictStands == Safe => UntaggedVerdictIsFinal
<1>1. Inv /\ SnapshotInv /\ [Next]_vars =>
        [\A k \in Silent :
           ToldOf(k) \in {"filled", "refused"} /\ epoch' = epoch => ToldOf(k)' = ToldOf(k)]_vars
  <2> SUFFICES ASSUME Inv, SnapshotInv, Next, NEW k \in Silent,
                      ToldOf(k) \in {"filled", "refused"}, epoch' = epoch
               PROVE  ToldOf(k)' = ToldOf(k)
    OBVIOUS
  <2>0. TypeOK /\ BusyType /\ ReconType /\ k \in Keys
    BY SilentKeys DEF Inv, OnceInv, TypeInv
  <2>1. ledger'[k] = ledger[k] => ToldOf(k)' = ToldOf(k)
    BY DEF ToldOf
  <2>2. ASSUME NEW t \in Threads, NEW j \in Keys, Begin(t, j) PROVE ledger'[k] = ledger[k]
    <3>1. ledger[k] # NoRecord
      BY DEF ToldOf, NoRecord, NoReport
    <3> QED
      BY <2>0, <2>2, <3>1 DEF Begin, TypeOK
  <2>3. ASSUME NEW t \in Threads, RecordOutcome(t) PROVE ledger'[k] = ledger[k]
    <3>1. thread[t].call = k => ledger[k].report = Indeterminate
      BY <2>3 DEF SnapshotInv, UntaggedIsBlank, RecordOutcome, Owner
    <3>2. ledger[k].report # Indeterminate
      BY DEF ToldOf, Indeterminate, Filled, Refused
    <3> QED
      BY <2>0, <2>3, <3>1, <3>2 DEF RecordOutcome, TypeOK
  <2>4. CASE ReconcileWrite
    <3>1. CASE recon.key = k
      <4>1. recon.pc = "write" /\ recon.pos # NoTicket /\ ledger[k].report.deal = recon.pos
        BY <2>0, <2>4, <3>1, NoneIsNone
           DEF ReconcileWrite, ReconType, SnapshotInv, UntaggedByDeal
      <4>2. ledger[k].report.state \notin Refused
        BY <2>0, <4>1 DEF SnapshotInv, RefusedNamesNoDeal
      <4>3. ToldOf(k) = "filled"
        BY <4>2 DEF ToldOf
      <4>4. ledger'[k].report.state = "FILLED"
        BY <2>0, <2>4, <3>1 DEF ReconcileWrite, TypeOK
      <4> QED
        BY <4>3, <4>4 DEF ToldOf, Filled
    <3>2. CASE recon.key # k
      BY <2>0, <2>1, <2>4, <3>2 DEF ReconcileWrite, TypeOK
    <3> QED
      BY <3>1, <3>2
  <2>5. ~Restart
    BY <2>0 DEF Restart, TypeOK
  <2>6. \A t \in Threads : GetExisting(t) \/ SendOrder(t) \/ Reply(t) \/ RawReply(t)
                            \/ (\E c \in RawCalls : RawCall(t, c)) => ledger' = ledger
    BY DEF GetExisting, SendOrder, Reply, RawReply, RawCall
  <2>7. \A tk \in OnWire : BrokerFill(tk) \/ BrokerRefuse(tk) => ledger' = ledger
    BY DEF BrokerFill, BrokerRefuse, engine
  <2>8. ReconcileStart \/ ReconcileFetch \/ ReconcileEnd \/ (\E j \in Keys : ReconcileMatch(j))
          => ledger' = ledger
    BY DEF ReconcileStart, ReconcileFetch, ReconcileEnd, ReconcileMatch
  <2> QED
    BY <2>1, <2>2, <2>3, <2>4, <2>5, <2>6, <2>7, <2>8 DEF Next
<1> QED
  BY BothHold, <1>1, PTL DEF Safe, UntaggedVerdictIsFinal

-----------------------------------------------------------------------------
(***************************************************************************)
(* The refinement.  First the steps of the promise, said of the state of   *)
(* the engine key by key.                                                  *)
(***************************************************************************)
Earlier == {tk.call : tk \in {x \in filled : x.epoch < epoch}} \cap Keys

Kept == [Abstract!PromiseNext]_(Abstract!promised)

\* The keys the promise is about.
LEMMA OwnKeys == Own \subseteq Keys
BY DEF Own

\* The abstract variables, from the facts about the keys.
LEMMA SameOwn ==
    ASSUME \A j \in Own : OutcomeOf(j)' = OutcomeOf(j)
    PROVE  [j \in Own |-> OutcomeOf(j)]' = [j \in Own |-> OutcomeOf(j)]
OBVIOUS
LEMMA SameTold ==
    ASSUME \A j \in Own : ToldOf(j)' = ToldOf(j)
    PROVE  [j \in Own |-> ToldOf(j)]' = [j \in Own |-> ToldOf(j)]
OBVIOUS
LEMMA EarlierOfOwn ==
    {tk.call : tk \in {x \in filled : x.epoch < epoch}} \cap Own = Earlier \cap Own
BY OwnKeys DEF Earlier
LEMMA EarlierOfOwnNext ==
    ({tk.call : tk \in {x \in filled : x.epoch < epoch}} \cap Own)' = (Earlier \cap Own)'
BY OwnKeys DEF Earlier, Own

LEMMA Unseen ==
    ASSUME \A j \in Own : OutcomeOf(j)' = OutcomeOf(j),
           \A j \in Own : ToldOf(j)' = ToldOf(j), Earlier' \cap Own = Earlier \cap Own
    PROVE  Kept
<1>1. UNCHANGED Abstract!promised
  BY EarlierOfOwn, EarlierOfOwnNext, SameOwn, SameTold DEF Abstract!promised
<1> QED
  BY <1>1 DEF Kept

LEMMA Claims ==
    ASSUME NEW k \in Keys, ToldOf(k) = "free", ToldOf(k)' = "unknown", OutcomeOf(k)' = "pending",
           \A j \in Keys \ {k} : OutcomeOf(j)' = OutcomeOf(j) /\ ToldOf(j)' = ToldOf(j),
           Earlier' = Earlier
    PROVE  Kept
<1>1. CASE k \in Own
  <2>1. Abstract!Claim(k)
    BY <1>1, OwnKeys, EarlierOfOwn, EarlierOfOwnNext DEF Abstract!Claim
  <2> QED
    BY <1>1, <2>1 DEF Kept, Abstract!PromiseNext
<1>2. CASE k \notin Own
  BY <1>2, OwnKeys, Unseen
<1> QED
  BY <1>1, <1>2

LEMMA Settles ==
    ASSUME NEW k \in Keys, NEW o \in {"filled", "refused"},
           OutcomeOf(k) = "pending", OutcomeOf(k)' = o,
           \A j \in Keys \ {k} : OutcomeOf(j)' = OutcomeOf(j),
           \A j \in Keys : ToldOf(j)' = ToldOf(j), Earlier' = Earlier
    PROVE  Kept
<1>1. CASE k \in Own
  <2>1. Abstract!Settle(k)
    BY <1>1, OwnKeys, EarlierOfOwn, EarlierOfOwnNext, SameTold DEF Abstract!Settle
  <2> QED
    BY <1>1, <2>1 DEF Kept, Abstract!PromiseNext
<1>2. CASE k \notin Own
  BY <1>2, OwnKeys, Unseen
<1> QED
  BY <1>1, <1>2

LEMMA Confirms ==
    ASSUME NEW k \in Keys, k \in Own => OutcomeOf(k) = "filled" \/ k \in Earlier,
           ToldOf(k)' = "filled",
           \A j \in Keys \ {k} : ToldOf(j)' = ToldOf(j),
           \A j \in Keys : OutcomeOf(j)' = OutcomeOf(j), Earlier' = Earlier
    PROVE  Kept
<1>1. CASE k \in Own
  <2>1. Abstract!Confirm(k)
    BY <1>1, OwnKeys, EarlierOfOwn, EarlierOfOwnNext, SameOwn DEF Abstract!Confirm
  <2> QED
    BY <1>1, <2>1 DEF Kept, Abstract!PromiseNext
<1>2. CASE k \notin Own
  BY <1>2, OwnKeys, Unseen
<1> QED
  BY <1>1, <1>2

LEMMA Denies ==
    ASSUME NEW k \in Keys, OutcomeOf(k) = "refused", ToldOf(k)' = "refused",
           \A j \in Keys \ {k} : ToldOf(j)' = ToldOf(j),
           \A j \in Keys : OutcomeOf(j)' = OutcomeOf(j), Earlier' = Earlier
    PROVE  Kept
<1>1. CASE k \in Own
  <2>1. Abstract!Deny(k)
    BY <1>1, OwnKeys, EarlierOfOwn, EarlierOfOwnNext, SameOwn DEF Abstract!Deny
  <2> QED
    BY <1>1, <2>1 DEF Kept, Abstract!PromiseNext
<1>2. CASE k \notin Own
  BY <1>2, OwnKeys, Unseen
<1> QED
  BY <1>1, <1>2

LEMMA Doubts ==
    ASSUME NEW k \in Keys, ToldOf(k) = "filled", ToldOf(k)' = "unknown",
           \A j \in Keys \ {k} : ToldOf(j)' = ToldOf(j),
           \A j \in Keys : OutcomeOf(j)' = OutcomeOf(j), Earlier' = Earlier
    PROVE  Kept
<1>1. CASE k \in Own
  <2>1. Abstract!Doubt(k)
    BY <1>1, OwnKeys, EarlierOfOwn, EarlierOfOwnNext, SameOwn DEF Abstract!Doubt
  <2> QED
    BY <1>1, <2>1 DEF Kept, Abstract!PromiseNext
<1>2. CASE k \notin Own
  BY <1>2, OwnKeys, Unseen
<1> QED
  BY <1>1, <1>2

LEMMA FillsLate ==
    ASSUME NEW k \in Keys, Earlier' = Earlier \cup {k},
           \A j \in Keys : OutcomeOf(j)' = OutcomeOf(j) /\ ToldOf(j)' = ToldOf(j)
    PROVE  Kept
<1>1. CASE k \in Own
  <2>1. Abstract!LateFill(k)
    BY <1>1, OwnKeys, EarlierOfOwn, EarlierOfOwnNext, SameOwn, SameTold DEF Abstract!LateFill
  <2> QED
    BY <1>1, <2>1 DEF Kept, Abstract!PromiseNext
<1>2. CASE k \notin Own
  BY <1>2, OwnKeys, Unseen
<1> QED
  BY <1>1, <1>2

LEMMA Renews ==
    ASSUME \A j \in Keys : OutcomeOf(j)' = "none" /\ ToldOf(j)' = "free",
           Earlier' = Earlier \cup {j \in Keys : OutcomeOf(j) = "filled"}
    PROVE  Kept
<1>1. Abstract!Renew
  BY OwnKeys, EarlierOfOwn, EarlierOfOwnNext DEF Abstract!Renew
<1> QED
  BY <1>1 DEF Kept, Abstract!PromiseNext

\* The outcome of a key depends on its record, its requests and its owner only.
LEMMA SameOutcome ==
    ASSUME NEW k \in Keys, ledger'[k] = NoRecord <=> ledger[k] = NoRecord,
           UNCHANGED <<epoch, sent, filled, refused>>, Submitting(k)' <=> Submitting(k)
    PROVE  OutcomeOf(k)' = OutcomeOf(k)
<1>1. Mine(k)' = Mine(k)
  BY DEF Mine
<1> QED
  BY <1>1 DEF OutcomeOf

\* Only its own execution speaks for a key the promise is about.
LEMMA OwnSpeaks ==
    ASSUME NEW k \in Own, NEW tk \in Ticket, Speaks(tk, k)
    PROVE  tk.call = k
BY DEF Own, Speaks, Ticket

LEMMA SameEarlier == UNCHANGED <<epoch, filled>> => Earlier' = Earlier
BY DEF Earlier

\* What no key notices.
LEMMA Unnoticed ==
    ASSUME UNCHANGED <<epoch, ledger, sent, filled, refused>>,
           \A k \in Keys : Submitting(k)' <=> Submitting(k)
    PROVE  Kept
<1>1. \A k \in Keys : OutcomeOf(k)' = OutcomeOf(k)
  BY SameOutcome
<1>2. \A k \in Keys : ToldOf(k)' = ToldOf(k)
  BY DEF ToldOf
<1> QED
  BY <1>1, <1>2, SameEarlier, Unseen, OwnKeys

\* What the requests of a key say of it.
LEMMA Settled ==
    ASSUME Inv, NEW k \in Keys
    PROVE  /\ ledger[k] = NoRecord => Mine(k) = {} /\ ~Submitting(k)
           /\ ledger[k] = NoRecord <=> ToldOf(k) = "free"
           /\ Mine(k) \cap filled # {} => OutcomeOf(k) = "filled"
           /\ OutcomeOf(k) = "filled" => Mine(k) \cap filled # {}
<1>1. ledger[k] = NoRecord => Mine(k) = {}
  BY DEF Inv, OnceInv, AttemptsInOrder, Mine
<1>2. ledger[k] = NoRecord => ~Submitting(k)
  BY DEF Inv, OnceInv, OneOwner, Owner, Submitting
<1>3. ledger[k] \in Record \cup {NoRecord}
  BY DEF Inv, OnceInv, TypeInv, TypeOK
<1>4. ledger[k] = NoRecord <=> ToldOf(k) = "free"
  <2>1. ledger[k] = NoRecord => ledger[k].report.state = "NONE"
    BY DEF NoRecord, NoReport
  <2>2. ledger[k] # NoRecord => ledger[k].report.state \in States
    BY <1>3 DEF Record, Report
  <2>3. ToldOf(k) = "free" <=> ledger[k].report.state = "NONE"
    BY DEF ToldOf
  <2> QED
    BY <2>1, <2>2, <2>3 DEF States
<1> QED
  BY <1>1, <1>2, <1>4 DEF OutcomeOf

-----------------------------------------------------------------------------
(* The steps of the engine.                                                *)

LEMMA BeginKept ==
    ASSUME Inv, NEW t \in Threads, NEW k \in Keys, Begin(t, k)
    PROVE  Kept
<1>0. TypeOK
  BY DEF Inv, OnceInv, TypeInv
<1>1. thread[t].pc \notin {"send", "wait"} /\ UNCHANGED <<epoch, sent, filled, refused>>
  BY DEF Begin, Free, broker
<1>2. CASE ledger[k] = NoRecord
  <2>1. /\ ledger'[k] = [report |-> Indeterminate, inFlight |-> TRUE]
        /\ \A j \in Keys \ {k} : ledger'[j] = ledger[j]
        /\ thread'[t] = At("send", k) /\ \A u \in Threads \ {t} : thread'[u] = thread[u]
    BY <1>0, <1>2 DEF Begin, TypeOK
  <2>2. Submitting(k)' /\ \A j \in Keys \ {k} : Submitting(j)' <=> Submitting(j)
    BY <1>1, <2>1 DEF Submitting, At
  <2>3. ToldOf(k) = "free" /\ Mine(k) = {}
    BY <1>2, Settled
  <2>4. ToldOf(k)' = "unknown"
    BY <2>1 DEF ToldOf, Indeterminate, Filled, Refused
  <2>5. OutcomeOf(k)' = "pending"
    <3>1. Mine(k)' = Mine(k)
      BY <1>1 DEF Mine
    <3>2. ledger'[k] # NoRecord
      BY <2>1 DEF NoRecord
    <3> QED
      BY <2>2, <2>3, <3>1, <3>2 DEF OutcomeOf
  <2>6. \A j \in Keys \ {k} : OutcomeOf(j)' = OutcomeOf(j)
    BY <1>1, <2>1, <2>2, SameOutcome
  <2>7. \A j \in Keys \ {k} : ToldOf(j)' = ToldOf(j)
    BY <2>1 DEF ToldOf
  <2> QED
    BY <1>1, <2>3, <2>4, <2>5, <2>6, <2>7, Claims, SameEarlier
<1>3. CASE ledger[k] # NoRecord
  <2>1. /\ thread'[t] = At("get", k) /\ \A u \in Threads \ {t} : thread'[u] = thread[u]
        /\ UNCHANGED ledger
    BY <1>0, <1>3 DEF Begin, TypeOK
  <2>2. \A j \in Keys : Submitting(j)' <=> Submitting(j)
    BY <1>1, <2>1 DEF Submitting, At
  <2> QED
    BY <1>1, <2>1, <2>2, Unnoticed
<1> QED
  BY <1>2, <1>3

\* A call that returns, or has no key, is nothing the promise is about.
LEMMA AsideKept ==
    ASSUME Inv, NEW t \in Threads,
           GetExisting(t) \/ RawReply(t) \/ \E c \in RawCalls : RawCall(t, c)
    PROVE  Kept
<1>0. TypeOK
  BY DEF Inv, OnceInv, TypeInv
<1>1. UNCHANGED <<epoch, ledger, sent, filled, refused>>
  BY DEF GetExisting, RawReply, RawCall, broker
<1>2. \A u \in Threads \ {t} : thread'[u] = thread[u]
  BY <1>0 DEF GetExisting, RawReply, RawCall, TypeOK
<1>3. ~(thread[t].pc \in {"send", "wait"} /\ thread[t].call \in Keys)
  BY OrderExecutionAssumption DEF GetExisting, RawReply, RawCall, Free
<1>4. ~(thread'[t].pc \in {"send", "wait"} /\ thread'[t].call \in Keys)
  <2>1. CASE GetExisting(t)
    BY <1>0, <2>1 DEF GetExisting, TypeOK, Told, At
  <2>2. CASE RawReply(t)
    <3>1. thread[t].call \notin Keys
      BY <2>2, OrderExecutionAssumption DEF RawReply
    <3>2. thread'[t] = [thread[t] EXCEPT !.pc = "send"] \/ thread'[t] = Idle
      BY <1>0, <2>2 DEF RawReply, TypeOK
    <3> QED
      BY <1>0, <3>1, <3>2 DEF TypeOK, ThreadState, Idle, At
  <2>3. ASSUME NEW c \in RawCalls, RawCall(t, c) PROVE thread'[t].call \notin Keys
    BY <1>0, <2>3, OrderExecutionAssumption DEF RawCall, TypeOK, At
  <2> QED
    BY <2>1, <2>2, <2>3
<1>5. \A k \in Keys : Submitting(k)' <=> Submitting(k)
  BY <1>2, <1>3, <1>4 DEF Submitting
<1> QED
  BY <1>1, <1>5, Unnoticed

LEMMA SendKept ==
    ASSUME Inv, NEW t \in Threads, SendOrder(t)
    PROVE  Kept
<1>0. TypeOK /\ LastAttempt
  BY DEF Inv, OnceInv, TypeInv
<1> DEFINE n == thread[t].attempts + 1
           tk == [epoch |-> epoch, call |-> thread[t].call, n |-> n]
<1>1. /\ thread[t].pc = "send" /\ sent' = sent \cup {tk}
      /\ UNCHANGED <<epoch, ledger, filled, refused>>
  BY DEF SendOrder
<1>2. /\ thread'[t].pc = "wait" /\ thread'[t].call = thread[t].call
      /\ \A u \in Threads \ {t} : thread'[u] = thread[u]
  BY <1>0 DEF SendOrder, TypeOK, ThreadState
<1>3. \A k \in Keys : Submitting(k)' <=> Submitting(k)
  BY <1>1, <1>2 DEF Submitting
<1>4. tk \notin sent
  <2>1. thread[t].attempts \in Nat
    BY <1>0 DEF TypeOK, ThreadState
  <2>2. tk \in sent => n <= thread[t].attempts
    BY <1>0, <1>1 DEF LastAttempt
  <2> QED
    BY <2>1, <2>2
<1>5. ASSUME NEW k \in Keys PROVE OutcomeOf(k)' = OutcomeOf(k)
  <2>1. CASE k = thread[t].call
    <3>1. Submitting(k) /\ Submitting(k)'
      BY <1>1, <1>3, <2>1 DEF Submitting
    <3>2. Mine(k)' \cap filled' = Mine(k) \cap filled
      BY <1>0, <1>1, <1>4 DEF Mine, TypeOK
    <3> QED
      BY <1>1, <3>1, <3>2 DEF OutcomeOf
  <2>2. CASE k # thread[t].call
    <3>1. Mine(k)' = Mine(k)
      BY <1>1, <2>2 DEF Mine
    <3> QED
      BY <1>1, <1>3, <3>1 DEF OutcomeOf
  <2> QED
    BY <2>1, <2>2
<1>6. \A k \in Keys : ToldOf(k)' = ToldOf(k)
  BY <1>1 DEF ToldOf
<1> QED
  BY <1>1, <1>5, <1>6, SameEarlier, Unseen, OwnKeys

\* A caller that leaves the loop with a refusal settles its key; with any other
\* answer the broker has settled it before, or has yet to.
LEMMA ReplyKept ==
    ASSUME Inv, NEW t \in Threads, Reply(t)
    PROVE  Kept
<1>0. TypeOK /\ OneOwner
  BY DEF Inv, OnceInv, TypeInv
<1> PICK k \in Keys : k = thread[t].call
  BY DEF Reply
<1>1. thread[t].pc = "wait" /\ UNCHANGED <<epoch, ledger, sent, filled, refused>>
  BY DEF Reply, broker
<1>2. /\ thread'[t].pc \in {"send", "record"} /\ thread'[t].call = k
      /\ \A u \in Threads \ {t} : thread'[u] = thread[u]
  BY <1>0 DEF Reply, TypeOK, ThreadState
<1>3. \A j \in Keys \ {k} : Submitting(j)' <=> Submitting(j)
  BY <1>2 DEF Submitting
<1>4. Submitting(k) /\ ledger[k] # NoRecord
  BY <1>0, <1>1 DEF Submitting, OneOwner, Owner
<1>5. \A j \in Keys \ {k} : OutcomeOf(j)' = OutcomeOf(j)
  BY <1>1, <1>3, SameOutcome
<1>6. \A j \in Keys : ToldOf(j)' = ToldOf(j)
  BY <1>1 DEF ToldOf
<1>7. Mine(k)' = Mine(k)
  BY <1>1 DEF Mine
<1>8. OutcomeOf(k)' = OutcomeOf(k) \/ (OutcomeOf(k) = "pending" /\ OutcomeOf(k)' = "refused")
  BY <1>1, <1>4, <1>7 DEF OutcomeOf
<1>9. CASE OutcomeOf(k)' = OutcomeOf(k)
  <2>1. \A j \in Keys : OutcomeOf(j)' = OutcomeOf(j)
    BY <1>5, <1>9
  <2> QED
    BY <1>1, <1>6, <2>1, SameEarlier, Unseen, OwnKeys
<1>10. CASE OutcomeOf(k) = "pending" /\ OutcomeOf(k)' = "refused"
  BY <1>1, <1>5, <1>6, <1>10, SameEarlier, Settles
<1> QED
  BY <1>8, <1>9, <1>10

\* The outcome recorded was true when it was made: a fill is confirmed, a
\* refusal denied, and an unknown answer may put a confirmed fill in doubt.
LEMMA RecordKept ==
    ASSUME Inv, NEW t \in Threads, RecordOutcome(t)
    PROVE  Kept
<1>0. TypeOK /\ BusyType /\ OneOwner /\ AttemptsInOrder
  BY DEF Inv, OnceInv, TypeInv
<1> DEFINE r == thread[t].report
<1>1. thread[t].pc = "record" /\ UNCHANGED <<epoch, sent, filled, refused>>
  BY DEF RecordOutcome, broker
<1> PICK k \in Keys : k = thread[t].call
  BY <1>0, <1>1 DEF BusyType
<1>2. /\ ledger'[k] = [report |-> r, inFlight |-> FALSE]
      /\ \A j \in Keys \ {k} : ledger'[j] = ledger[j]
      /\ thread'[t].pc = "told" /\ \A u \in Threads \ {t} : thread'[u] = thread[u]
  BY <1>0 DEF RecordOutcome, TypeOK, Told, At
<1>3. r \in Report /\ GoodReport(r, k)
  BY <1>0, <1>1 DEF BusyType, Inv, EvidenceInv, GoodInHand
<1>4. ledger[k] # NoRecord /\ ledger'[k] # NoRecord
  <2>1. ledger[k] # NoRecord
    BY <1>0, <1>1 DEF OneOwner, Owner
  <2>2. r # NoReport
    BY <1>3 DEF NoReport, Report, States
  <2> QED
    BY <1>2, <2>1, <2>2 DEF NoRecord
<1>5. \A j \in Keys : Submitting(j)' <=> Submitting(j)
  BY <1>1, <1>2 DEF Submitting
<1>6. ASSUME NEW j \in Keys PROVE OutcomeOf(j)' = OutcomeOf(j)
  <2>1. ledger'[j] = NoRecord <=> ledger[j] = NoRecord
    BY <1>2, <1>4
  <2> QED
    BY <1>1, <1>5, <2>1, SameOutcome
<1>7. \A j \in Keys \ {k} : ToldOf(j)' = ToldOf(j)
  BY <1>2 DEF ToldOf
<1>8. Earlier' = Earlier
  BY <1>1, SameEarlier
<1>9. ledger'[k].report = r
  BY <1>2
<1> HIDE DEF r
<1>10. CASE r.state \in Filled
  <2>1. r.deal \in filled /\ r.deal \in sent /\ r.deal.epoch <= epoch
        /\ r.deal \in Ticket /\ Speaks(r.deal, k)
    BY <1>0, <1>3, <1>10 DEF GoodReport, TypeOK, AttemptsInOrder
  <2>2. r.deal.epoch \in Nat /\ epoch \in Nat
    BY <1>0, <2>1 DEF TypeOK, Ticket
  <2>3. ASSUME k \in Own PROVE OutcomeOf(k) = "filled" \/ k \in Earlier
    <3>0. r.deal.call = k
      BY <2>1, <2>3, OwnSpeaks
    <3>1. CASE r.deal.epoch = epoch
      BY <2>1, <3>0, <3>1, Settled DEF Mine
    <3>2. CASE r.deal.epoch < epoch
      BY <2>1, <3>0, <3>2 DEF Earlier
    <3> QED
      BY <2>1, <2>2, <3>1, <3>2
  <2>4. ToldOf(k)' = "filled"
    BY <1>9, <1>10 DEF ToldOf, Filled
  <2> QED
    BY <1>6, <1>7, <1>8, <2>3, <2>4, Confirms
<1>11. CASE r.state \in Refused
  <2>1. \A x \in Mine(k) : x \in refused
    BY <1>3, <1>11 DEF GoodReport, Mine
  <2>2. ~Submitting(k)
    BY <1>0, <1>1 DEF Submitting, OneOwner, Owner
  <2>3. OutcomeOf(k) = "refused"
    BY <1>0, <1>4, <2>1, <2>2 DEF OutcomeOf, AttemptsInOrder
  <2>4. ToldOf(k)' = "refused"
    BY <1>9, <1>11 DEF ToldOf, Filled, Refused
  <2> QED
    BY <1>6, <1>7, <1>8, <2>3, <2>4, Denies
<1>12. CASE r.state = "UNKNOWN"
  <2>1. ToldOf(k)' = "unknown"
    BY <1>9, <1>12 DEF ToldOf, Filled, Refused
  <2>2. ToldOf(k) # "free"
    BY <1>4, Settled
  <2>3. ToldOf(k) # "refused"
    BY <1>1 DEF ToldOf, Inv, EvidenceInv, OwnedIsOpen, Owner
  <2>4. ToldOf(k) \in {"filled", "unknown"}
    BY <2>2, <2>3 DEF ToldOf
  <2>5. CASE ToldOf(k) = "filled"
    BY <1>6, <1>7, <1>8, <2>1, <2>5, Doubts
  <2>6. CASE ToldOf(k) = "unknown"
    <3>1. \A j \in Keys : ToldOf(j)' = ToldOf(j)
      BY <1>7, <2>1, <2>6
    <3> QED
      BY <1>6, <1>8, <3>1, Unseen, OwnKeys
  <2> QED
    BY <2>4, <2>5, <2>6
<1> QED
  BY <1>3, <1>10, <1>11, <1>12 DEF Report, States, Filled, Refused

\* The broker executes a request of this life of the process and settles its
\* key, or one that an earlier life left on the wire.
LEMMA FillKept ==
    ASSUME Inv, NEW tk \in OnWire, BrokerFill(tk)
    PROVE  Kept
<1>0. TypeOK /\ AttemptsInOrder
  BY DEF Inv, OnceInv, TypeInv
<1>1. /\ filled' = filled \cup {tk} /\ UNCHANGED <<epoch, ledger, thread, sent, refused>>
      /\ tk \in sent /\ tk \notin filled /\ tk \notin refused
  BY DEF BrokerFill, OnWire, engine
<1>2. tk.epoch \in Nat /\ epoch \in Nat /\ tk.epoch <= epoch
  BY <1>0, <1>1 DEF TypeOK, Ticket, AttemptsInOrder
<1>3. \A j \in Keys : ToldOf(j)' = ToldOf(j)
  BY <1>1 DEF ToldOf
<1>4. \A j \in Keys : (Submitting(j)' <=> Submitting(j)) /\ Mine(j)' = Mine(j)
  BY <1>1 DEF Submitting, Mine
<1>5. ASSUME NEW j \in Keys, tk \notin Mine(j) PROVE OutcomeOf(j)' = OutcomeOf(j)
  <2>1. Mine(j)' \cap filled' = Mine(j) \cap filled
    BY <1>1, <1>4, <1>5
  <2> QED
    BY <1>1, <1>4, <2>1 DEF OutcomeOf
<1>6. tk.epoch = epoch \/ tk.call \notin Keys => Earlier' = Earlier
  BY <1>1, <1>2 DEF Earlier
<1>7. CASE tk.call \notin Keys
  <2>1. \A j \in Keys : OutcomeOf(j)' = OutcomeOf(j)
    BY <1>5, <1>7 DEF Mine
  <2> QED
    BY <1>3, <1>6, <1>7, <2>1, Unseen, OwnKeys
<1>8. CASE tk.call \in Keys /\ tk.epoch = epoch
  <2> PICK k \in Keys : k = tk.call
    BY <1>8
  <2>1. tk \in Mine(k) /\ \A j \in Keys \ {k} : tk \notin Mine(j)
    BY <1>1, <1>8 DEF Mine
  <2>2. ledger[k] # NoRecord
    BY <2>1, Settled
  <2>3. OutcomeOf(k)' = "filled"
    BY <1>1, <1>4, <2>1, <2>2 DEF OutcomeOf
  <2>4. OutcomeOf(k) \in {"filled", "pending"}
    BY <1>1, <2>1, <2>2 DEF OutcomeOf
  <2>5. \A j \in Keys \ {k} : OutcomeOf(j)' = OutcomeOf(j)
    BY <1>5, <2>1
  <2>6. Earlier' = Earlier
    BY <1>6, <1>8
  <2>7. CASE OutcomeOf(k) = "filled"
    <3>1. \A j \in Keys : OutcomeOf(j)' = OutcomeOf(j)
      BY <2>3, <2>5, <2>7
    <3> QED
      BY <1>3, <2>6, <3>1, Unseen, OwnKeys
  <2>8. CASE OutcomeOf(k) = "pending"
    BY <1>3, <2>3, <2>5, <2>6, <2>8, Settles
  <2> QED
    BY <2>4, <2>7, <2>8
<1>9. CASE tk.call \in Keys /\ tk.epoch < epoch
  <2> PICK k \in Keys : k = tk.call
    BY <1>9
  <2>1. Earlier' = Earlier \cup {k}
    BY <1>1, <1>9 DEF Earlier
  <2>2. \A j \in Keys : tk \notin Mine(j)
    BY <1>2, <1>9 DEF Mine
  <2>3. \A j \in Keys : OutcomeOf(j)' = OutcomeOf(j) /\ ToldOf(j)' = ToldOf(j)
    BY <1>3, <1>5, <2>2
  <2> QED
    BY <2>1, <2>3, FillsLate
<1> QED
  BY <1>2, <1>7, <1>8, <1>9

\* A refusal settles a key when it was the last of its requests.
LEMMA RefuseKept ==
    ASSUME Inv, NEW tk \in OnWire, BrokerRefuse(tk)
    PROVE  Kept
<1>1. refused' = refused \cup {tk} /\ UNCHANGED <<epoch, ledger, thread, sent, filled>>
  BY DEF BrokerRefuse, engine
<1>2. \A j \in Keys : ToldOf(j)' = ToldOf(j)
  BY <1>1 DEF ToldOf
<1>3. \A j \in Keys : (Submitting(j)' <=> Submitting(j)) /\ Mine(j)' = Mine(j)
  BY <1>1 DEF Submitting, Mine
<1>4. ASSUME NEW j \in Keys
      PROVE  \/ OutcomeOf(j)' = OutcomeOf(j)
             \/ OutcomeOf(j) = "pending" /\ OutcomeOf(j)' = "refused" /\ tk \in Mine(j)
  BY <1>1, <1>3 DEF OutcomeOf
<1>5. Earlier' = Earlier
  BY <1>1, SameEarlier
<1>6. CASE \A j \in Keys : OutcomeOf(j)' = OutcomeOf(j)
  BY <1>2, <1>5, <1>6, Unseen, OwnKeys
<1>7. ASSUME NEW k \in Keys, OutcomeOf(k)' # OutcomeOf(k) PROVE Kept
  <2>1. OutcomeOf(k) = "pending" /\ OutcomeOf(k)' = "refused" /\ tk \in Mine(k)
    BY <1>4, <1>7
  <2>2. \A j \in Keys \ {k} : tk \notin Mine(j)
    BY <2>1 DEF Mine
  <2>3. \A j \in Keys \ {k} : OutcomeOf(j)' = OutcomeOf(j)
    BY <1>4, <2>2
  <2> QED
    BY <1>2, <1>5, <2>1, <2>3, Settles
<1> QED
  BY <1>6, <1>7

\* Reconciliation confirms what the broker executed, in this life or before.
LEMMA WriteKept ==
    ASSUME Inv, SnapshotInv, ReconcileWrite
    PROVE  Kept
<1>0. TypeOK /\ ReconType /\ AttemptsInOrder
  BY DEF Inv, OnceInv, TypeInv
<1>1. recon.pc = "write" /\ UNCHANGED <<epoch, thread, sent, filled, refused>>
  BY DEF ReconcileWrite, broker
<1> PICK k \in Keys : k = recon.key
  BY <1>0, <1>1 DEF ReconType
<1>2. /\ ledger'[k] = [report |-> [state |-> "FILLED", deal |-> recon.pos], inFlight |-> FALSE]
      /\ \A j \in Keys \ {k} : ledger'[j] = ledger[j]
  BY <1>0 DEF ReconcileWrite, TypeOK
<1>3. recon.pos \in filled /\ Speaks(recon.pos, k)
  BY <1>1 DEF Inv, EvidenceInv, GoodSnapshot
<1>4. recon.pos \in sent /\ recon.pos.epoch \in Nat /\ epoch \in Nat /\ recon.pos.epoch <= epoch
  BY <1>0, <1>3 DEF TypeOK, Ticket, AttemptsInOrder
<1>5. ledger[k] # NoRecord /\ ledger'[k] # NoRecord
  BY <1>1, <1>2 DEF SnapshotInv, SnapshotHasRecords, NoRecord, NoReport
<1>6. \A j \in Keys : Submitting(j)' <=> Submitting(j)
  BY <1>1 DEF Submitting
<1>7. ASSUME NEW j \in Keys PROVE OutcomeOf(j)' = OutcomeOf(j)
  <2>1. ledger'[j] = NoRecord <=> ledger[j] = NoRecord
    BY <1>2, <1>5
  <2> QED
    BY <1>1, <1>6, <2>1, SameOutcome
<1>8. \A j \in Keys \ {k} : ToldOf(j)' = ToldOf(j)
  BY <1>2 DEF ToldOf
<1>9. ToldOf(k)' = "filled"
  BY <1>2 DEF ToldOf, Filled
<1>10. ASSUME k \in Own PROVE OutcomeOf(k) = "filled" \/ k \in Earlier
  <2>0. recon.pos.call = k
    BY <1>0, <1>3, <1>4, <1>10, OwnSpeaks DEF TypeOK
  <2>1. CASE recon.pos.epoch = epoch
    BY <1>3, <1>4, <2>0, <2>1, Settled DEF Mine
  <2>2. CASE recon.pos.epoch < epoch
    BY <1>3, <2>0, <2>2 DEF Earlier
  <2> QED
    BY <1>4, <2>1, <2>2
<1> QED
  BY <1>1, <1>7, <1>8, <1>9, <1>10, SameEarlier, Confirms

LEMMA RestartKept ==
    ASSUME Inv, Restart
    PROVE  Kept
<1>0. TypeOK /\ AttemptsInOrder
  BY DEF Inv, OnceInv, TypeInv
<1>1. /\ epoch' = epoch + 1 /\ ledger' = [j \in Keys |-> NoRecord]
      /\ UNCHANGED <<sent, filled, refused>>
  BY DEF Restart, broker
<1>2. \A j \in Keys : OutcomeOf(j)' = "none" /\ ToldOf(j)' = "free"
  BY <1>1 DEF OutcomeOf, ToldOf, NoRecord, NoReport
<1>3. \A x \in filled : x.epoch \in Nat /\ epoch \in Nat /\ x.epoch <= epoch
  BY <1>0 DEF TypeOK, Ticket, AttemptsInOrder
<1>4. \A x \in filled : x.epoch < epoch' <=> x.epoch < epoch \/ x.epoch = epoch
  BY <1>1, <1>3
<1>5. \A j \in Keys : OutcomeOf(j) = "filled" <=> \E x \in filled : x.epoch = epoch /\ x.call = j
  <2>1. \A j \in Keys : OutcomeOf(j) = "filled" <=> Mine(j) \cap filled # {}
    BY Settled
  <2>2. filled \subseteq sent
    BY <1>0 DEF TypeOK
  <2> QED
    BY <2>1, <2>2 DEF Mine
<1>6. \A j \in Keys : j \in Earlier' <=> \E x \in filled : x.epoch < epoch' /\ x.call = j
  BY <1>1 DEF Earlier
<1>7. \A j \in Keys : j \in Earlier <=> \E x \in filled : x.epoch < epoch /\ x.call = j
  BY DEF Earlier
<1>8. Earlier' \subseteq Keys /\ Earlier \subseteq Keys
  BY DEF Earlier
<1>9. Earlier' = Earlier \cup {j \in Keys : OutcomeOf(j) = "filled"}
  BY <1>4, <1>5, <1>6, <1>7, <1>8
<1> QED
  BY <1>2, <1>9, Renews

\* For every key no other order can be taken for: one decision becomes at most
\* one order in one life of the process, and the ledger says of it nothing but
\* what happened.  The engine, whatever the broker and the other threads do, and
\* whatever else the comments of its orders contain, implements OrderPromise.
THEOREM PromiseKept == Safe => ImplementsPromise
<1>1. Init => Abstract!PromiseInit
  <2> SUFFICES ASSUME Init PROVE Abstract!PromiseInit
    OBVIOUS
  <2>1. \A j \in Keys : OutcomeOf(j) = "none" /\ ToldOf(j) = "free"
    BY DEF Init, OutcomeOf, ToldOf, NoRecord, NoReport
  <2>2. Earlier = {}
    BY DEF Init, Earlier
  <2> QED
    BY <2>1, <2>2, OwnKeys, EarlierOfOwn DEF Abstract!PromiseInit
<1>2. Inv /\ SnapshotInv /\ [Next]_vars => [Abstract!PromiseNext]_(Abstract!promised)
  <2> SUFFICES ASSUME Inv, SnapshotInv, [Next]_vars PROVE Kept
    BY DEF Kept
  <2>1. CASE UNCHANGED vars
    BY <2>1, Unnoticed DEF vars, Submitting
  <2>2. CASE ReconcileStart \/ ReconcileFetch \/ ReconcileEnd \/ \E k \in Keys : ReconcileMatch(k)
    <3>1. UNCHANGED <<epoch, ledger, thread, sent, filled, refused>>
      BY <2>2 DEF ReconcileStart, ReconcileFetch, ReconcileEnd, ReconcileMatch, broker
    <3> QED
      BY <3>1, Unnoticed DEF Submitting
  <2> QED
    BY <2>1, <2>2, BeginKept, AsideKept, SendKept, ReplyKept, RecordKept, FillKept, RefuseKept,
       WriteKept, RestartKept DEF Next
<1> QED
  BY <1>1, <1>2, BothHold, PTL DEF Safe, ImplementsPromise, Abstract!Promise

=============================================================================
