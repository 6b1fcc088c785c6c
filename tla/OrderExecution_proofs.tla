----------------------- MODULE OrderExecution_proofs -----------------------
(***************************************************************************)
(* Proofs about OrderExecution, for every number of threads, keys, raw     *)
(* calls, retries and lives of the process.                                *)
(***************************************************************************)
EXTENDS OrderExecution, TLAPS

\* Every return code has one of the execution states (state_from_retcode).
LEMMA StateOfType == \A c \in RetCode : StateOf[c] \in States
BY DEF StateOf, RetCode, States

\* The absent deal number is no ticket, and the absent record no record.
LEMMA NoneIsNone == NoTicket \notin Ticket /\ NoRecord \notin Record
BY DEF NoTicket, Ticket, NoRecord, NoReport, Record, Report, States

\* The request a thread waits for is a ticket.
LEMMA CurrentTicketType ==
    ASSUME TypeOK, NEW t \in Threads, thread[t].pc = "wait", thread[t].call \in Calls,
           thread[t].attempts # 0
    PROVE  CurrentTicket(t) \in Ticket
BY DEF TypeOK, ThreadState, CurrentTicket, Ticket

\* A thread that is submitting has a call, and one that waits has attempted it.
BusyType ==
    \A t \in Threads :
      /\ thread[t].pc \in {"send", "wait"} => thread[t].call \in Calls
      /\ thread[t].pc \in {"get", "record", "told"} => thread[t].call \in Keys
      /\ thread[t].pc = "wait" => thread[t].attempts # 0
      /\ thread[t].pc = "record" => thread[t].report \in Report
ReconType ==
    recon.pc = "write" => recon.key \in Keys /\ recon.pos \in Ticket

TypeInv == TypeOK /\ BusyType /\ ReconType

LEMMA TypeInit == Init => TypeInv
BY OrderExecutionAssumption
   DEF Init, TypeInv, TypeOK, BusyType, ReconType, Idle, At, ReconIdle, ThreadState, ReconState

LEMMA TypeStep == TypeInv /\ [Next]_vars => TypeInv'
<1> SUFFICES ASSUME TypeInv, [Next]_vars PROVE TypeInv'
  OBVIOUS
<1> USE DEF TypeInv, TypeOK, BusyType, ReconType
<1>1. ASSUME NEW t \in Threads, NEW k \in Keys, Begin(t, k) PROVE TypeInv'
  <2>1. CASE ledger[k] = NoRecord
    <3>1. [report |-> Indeterminate, inFlight |-> TRUE] \in Record
      BY DEF Record, Report, States, Indeterminate
    <3>2. ledger' \in [Keys -> Record \cup {NoRecord}]
      BY <1>1, <2>1, <3>1 DEF Begin
    <3>3. thread' = [thread EXCEPT ![t] = At("send", k)] /\ UNCHANGED <<epoch, recon, broker>>
      BY <1>1, <2>1 DEF Begin
    <3> QED
      BY <3>2, <3>3 DEF At, ThreadState, broker, Calls
  <2>2. CASE ledger[k] # NoRecord
    BY <1>1, <2>2 DEF Begin, At, ThreadState, broker, Calls
  <2> QED
    BY <2>1, <2>2
<1>2. ASSUME NEW t \in Threads, NEW c \in RawCalls, RawCall(t, c) PROVE TypeInv'
  BY <1>2 DEF RawCall, At, ThreadState, broker, Calls
<1>3. ASSUME NEW t \in Threads, GetExisting(t) PROVE TypeInv'
  <2> DEFINE c == thread[t].call
  <2>1. thread[t].pc = "get" /\ c \in Keys
    BY <1>3 DEF GetExisting
  <2>2. ledger[c].report \in Report \cup {NoReport}
    BY <2>1 DEF Record, NoRecord
  <2>3. thread' = [thread EXCEPT ![t] = Told(c, ledger[c].report)]
        /\ UNCHANGED <<epoch, ledger, recon, broker>>
    BY <1>3 DEF GetExisting
  <2>4. Told(c, ledger[c].report) =
          [pc |-> "told", call |-> c, attempts |-> 0, report |-> ledger[c].report]
    BY DEF Told, At
  <2> QED
    BY <2>1, <2>2, <2>3, <2>4 DEF ThreadState, broker
<1>4. ASSUME NEW t \in Threads, SendOrder(t) PROVE TypeInv'
  <2> DEFINE n == thread[t].attempts + 1
             tk == [epoch |-> epoch, call |-> thread[t].call, n |-> n]
  <2>1. n \in Nat \ {0} /\ thread[t].call \in Calls
    BY <1>4 DEF SendOrder, ThreadState
  <2>2. tk \in Ticket
    BY <2>1 DEF Ticket
  <2>3. thread' = [thread EXCEPT ![t].pc = "wait", ![t].attempts = n] /\ sent' = sent \cup {tk}
    BY <1>4 DEF SendOrder
  <2>4. UNCHANGED <<epoch, ledger, recon, filled, refused>>
    BY <1>4 DEF SendOrder
  <2>5. thread'[t].pc = "wait" /\ thread'[t].call \in Calls /\ thread'[t].attempts = n
    BY <2>3, <2>1 DEF ThreadState
  <2>6. thread' \in [Threads -> ThreadState]
    BY <2>3, <2>1 DEF ThreadState
  <2> QED
    BY <2>1, <2>2, <2>3, <2>4, <2>5, <2>6
<1>5. ASSUME NEW t \in Threads, Reply(t) PROVE TypeInv'
  <2>1. PICK c \in RetCode, deal \in {CurrentTicket(t), NoTicket} :
          LET report == [state |-> StateOf[c], deal |-> deal]
              again  == report.state = "NOT_SENT" /\ thread[t].attempts <= MaxRetries
          IN  thread' = [thread EXCEPT ![t].report = report,
                                       ![t].pc = IF again THEN "send" ELSE "record"]
    BY <1>5 DEF Reply
  <2>2. thread[t].pc = "wait" /\ thread[t].call \in Keys /\ UNCHANGED <<epoch, ledger, recon, broker>>
    BY <1>5 DEF Reply
  <2>3. CurrentTicket(t) \in Ticket
    BY <2>2, CurrentTicketType DEF Calls
  <2>4. [state |-> StateOf[c], deal |-> deal] \in Report
    BY <2>3, StateOfType DEF Report
  <2> QED
    BY <2>1, <2>2, <2>4 DEF ThreadState, broker, Calls
<1>6. ASSUME NEW t \in Threads, RawReply(t) PROVE TypeInv'
  BY <1>6 DEF RawReply, Idle, At, ThreadState, broker, Calls
<1>7. ASSUME NEW t \in Threads, RecordOutcome(t) PROVE TypeInv'
  <2> DEFINE c == thread[t].call
  <2>1. thread[t].pc = "record" /\ c \in Keys /\ thread[t].report \in Report
    BY <1>7 DEF RecordOutcome
  <2>2. /\ thread' = [thread EXCEPT ![t] = Told(c, thread[t].report)]
        /\ ledger' = [ledger EXCEPT ![c] = [report |-> thread[t].report, inFlight |-> FALSE]]
        /\ UNCHANGED <<epoch, recon, broker>>
    BY <1>7 DEF RecordOutcome
  <2>3. Told(c, thread[t].report) =
          [pc |-> "told", call |-> c, attempts |-> 0, report |-> thread[t].report]
    BY DEF Told, At
  <2> QED
    BY <2>1, <2>2, <2>3 DEF ThreadState, broker, Record
<1>8. ASSUME NEW tk \in OnWire, BrokerFill(tk) \/ BrokerRefuse(tk) PROVE TypeInv'
  BY <1>8 DEF BrokerFill, BrokerRefuse, OnWire, engine
<1>9. CASE ReconcileStart
  BY <1>9 DEF ReconcileStart, ReconIdle, ReconState, Unresolved, broker
<1>10. CASE ReconcileFetch
  <2>1. CASE recon' = ReconIdle
    BY <1>10, <2>1 DEF ReconcileFetch, ReconIdle, ReconState, broker
  <2>2. ASSUME NEW open \in SUBSET filled,
               recon' = [recon EXCEPT !.pc = "match", !.seen = open]
        PROVE  TypeInv'
    <3>1. open \in SUBSET Ticket
      OBVIOUS
    <3> QED
      BY <1>10, <2>2, <3>1 DEF ReconcileFetch, ReconState, broker
  <2> QED
    BY <1>10, <2>1, <2>2 DEF ReconcileFetch
<1>11. ASSUME NEW k \in Keys, ReconcileMatch(k) PROVE TypeInv'
  BY <1>11 DEF ReconcileMatch, ReconState, broker
<1>12. CASE ReconcileWrite
  BY <1>12 DEF ReconcileWrite, ReconState, broker, Record, Report, States
<1>13. CASE ReconcileEnd
  BY <1>13 DEF ReconcileEnd, ReconIdle, ReconState, broker
<1>14. CASE Restart
  BY <1>14 DEF Restart, ReconIdle, ReconState, Idle, At, ThreadState, broker
<1>15. CASE UNCHANGED vars
  BY <1>15 DEF vars
<1> QED
  BY <1>1, <1>2, <1>3, <1>4, <1>5, <1>6, <1>7, <1>8, <1>9, <1>10, <1>11, <1>12, <1>13,
     <1>14, <1>15 DEF Next

\* Every variable keeps its type, for every value of the constants.
THEOREM TypeCorrect == Safe => []TypeOK
<1>1. TypeInv => TypeOK
  BY DEF TypeInv
<1> QED
  BY TypeInit, TypeStep, <1>1, PTL DEF Safe

-----------------------------------------------------------------------------
(***************************************************************************)
(* The inductive invariant.  A call has one owner, the thread between      *)
(* begin and complete; attempt n is sent only when the attempts before it  *)
(* were refused; and what a report says, in a thread's hands or in the     *)
(* ledger, was true when it was made and stays true.                       *)
(***************************************************************************)
Owner(t) == thread[t].pc \in {"send", "wait", "record"}

OneOwner ==
    /\ \A t \in Threads : Owner(t) /\ thread[t].call \in Keys => ledger[thread[t].call] # NoRecord
    /\ \A t, u \in Threads : Owner(t) /\ Owner(u) /\ thread[t].call = thread[u].call => t = u

AttemptsInOrder ==
    /\ \A x \in sent : x.epoch <= epoch
    /\ \A x \in sent : x.epoch = epoch /\ x.call \in Keys => ledger[x.call] # NoRecord
    /\ filled \cap refused = {}
    /\ \A x, y \in sent : x.epoch = y.epoch /\ x.call = y.call /\ x.n < y.n => x \in refused

LastAttempt ==
    \A t \in Threads :
      /\ thread[t].pc = "wait" => CurrentTicket(t) \in sent
      /\ \A x \in sent : x.epoch = epoch /\ x.call = thread[t].call =>
           /\ thread[t].pc \in {"send", "wait"} => x.n <= thread[t].attempts
           /\ thread[t].pc = "send" => x \in refused

OnceInv == TypeInv /\ OneOwner /\ AttemptsInOrder /\ LastAttempt

LEMMA OnceInit == Init => OnceInv
BY TypeInit DEF Init, OnceInv, OneOwner, AttemptsInOrder, LastAttempt, Owner, Idle, At

\* Steps of the reconciling thread touch none of it: they change no thread and
\* no request, and never remove a record from the ledger.
LEMMA OnceAloof ==
    ASSUME OnceInv, TypeInv',
           UNCHANGED <<epoch, thread, sent, filled, refused>>,
           \A k \in Keys : ledger[k] # NoRecord => ledger'[k] # NoRecord
    PROVE  OnceInv'
<1> USE DEF OnceInv
<1>1. OneOwner'
  BY DEF OneOwner, Owner
<1>2. AttemptsInOrder'
  BY DEF AttemptsInOrder
<1>3. LastAttempt'
  BY DEF LastAttempt, CurrentTicket
<1> QED
  BY <1>1, <1>2, <1>3

LEMMA OnceStep == OnceInv /\ [Next]_vars => OnceInv'
<1> SUFFICES ASSUME OnceInv, [Next]_vars PROVE OnceInv'
  OBVIOUS
<1>0. TypeInv'
  BY TypeStep DEF OnceInv
<1>1. ASSUME NEW t \in Threads, NEW k \in Keys, Begin(t, k) PROVE OnceInv'
  <2>1. CASE ledger[k] = NoRecord
    <3>1. /\ ledger' = [ledger EXCEPT ![k] = [report |-> Indeterminate, inFlight |-> TRUE]]
          /\ thread' = [thread EXCEPT ![t] = At("send", k)]
          /\ UNCHANGED <<epoch, sent, filled, refused>>
      BY <1>1, <2>1 DEF Begin, broker
    <3>2. [report |-> Indeterminate, inFlight |-> TRUE] # NoRecord
      BY DEF NoRecord
    <3>3. \A x \in sent : x.epoch = epoch => x.call # k
      BY <2>1 DEF OnceInv, AttemptsInOrder
    <3>4. \A u \in Threads : Owner(u) => thread[u].call # k
      BY <2>1 DEF OnceInv, OneOwner
    <3>5. OneOwner'
      BY <3>1, <3>2, <3>4 DEF OnceInv, OneOwner, Owner, At, TypeInv, TypeOK
    <3>6. AttemptsInOrder'
      BY <3>1, <3>2 DEF OnceInv, AttemptsInOrder, TypeInv, TypeOK
    <3>7. LastAttempt'
      BY <3>1, <3>3 DEF OnceInv, LastAttempt, At, CurrentTicket, TypeInv, TypeOK
    <3> QED
      BY <1>0, <3>5, <3>6, <3>7 DEF OnceInv
  <2>2. CASE ledger[k] # NoRecord
    <3>1. thread' = [thread EXCEPT ![t] = At("get", k)] /\ UNCHANGED <<epoch, ledger, broker>>
      BY <1>1, <2>2 DEF Begin
    <3> QED
      BY <1>0, <3>1 DEF OnceInv, OneOwner, Owner, AttemptsInOrder, LastAttempt, CurrentTicket,
         At, broker, TypeInv, TypeOK
  <2> QED
    BY <2>1, <2>2
<1>2. ASSUME NEW t \in Threads, NEW c \in RawCalls, RawCall(t, c) PROVE OnceInv'
  <2>1. thread' = [thread EXCEPT ![t] = At("send", c)] /\ UNCHANGED <<epoch, ledger, broker>>
    BY <1>2 DEF RawCall
  <2>2. (\A x \in sent : x.call # c) /\ \A u \in Threads : thread[u].call # c
    BY <1>2 DEF RawCall, RawTickets
  <2>3. c \notin Keys
    BY OrderExecutionAssumption
  <2>4. OneOwner'
    BY <2>1, <2>2, <2>3 DEF OnceInv, OneOwner, Owner, At, TypeInv, TypeOK
  <2>5. AttemptsInOrder'
    BY <2>1 DEF OnceInv, AttemptsInOrder, broker
  <2>6. LastAttempt'
    BY <2>1, <2>2 DEF OnceInv, LastAttempt, At, CurrentTicket, broker, TypeInv, TypeOK
  <2> QED
    BY <1>0, <2>4, <2>5, <2>6 DEF OnceInv
<1>3. ASSUME NEW t \in Threads, GetExisting(t) PROVE OnceInv'
  BY <1>0, <1>3 DEF GetExisting, OnceInv, OneOwner, Owner, AttemptsInOrder, LastAttempt,
     CurrentTicket, Told, At, broker, TypeInv, TypeOK
<1>4. ASSUME NEW t \in Threads, SendOrder(t) PROVE OnceInv'
  <2> DEFINE n == thread[t].attempts + 1
             tk == [epoch |-> epoch, call |-> thread[t].call, n |-> n]
  <2>1. thread[t].pc = "send" /\ thread' = [thread EXCEPT ![t].pc = "wait", ![t].attempts = n]
    BY <1>4 DEF SendOrder
  <2>2. sent' = sent \cup {tk} /\ UNCHANGED <<epoch, ledger, filled, refused>>
    BY <1>4 DEF SendOrder
  <2>3. thread[t].attempts \in Nat
    BY DEF OnceInv, TypeInv, TypeOK, ThreadState
  <2>4. thread'[t] = [thread[t] EXCEPT !.pc = "wait", !.attempts = n]
        /\ thread'[t].pc = "wait" /\ thread'[t].call = thread[t].call /\ thread'[t].attempts = n
    BY <2>1 DEF OnceInv, TypeInv, TypeOK, ThreadState
  <2>5. \A u \in Threads \ {t} : thread'[u] = thread[u]
    BY <2>1 DEF OnceInv, TypeInv, TypeOK
  <2>6. \A x \in sent : x.epoch = epoch /\ x.call = thread[t].call => x \in refused /\ x.n < n
    <3> SUFFICES ASSUME NEW x \in sent, x.epoch = epoch, x.call = thread[t].call
                 PROVE  x \in refused /\ x.n < n
      OBVIOUS
    <3>1. x.n \in Nat
      BY DEF OnceInv, TypeInv, TypeOK, Ticket
    <3>2. x \in refused /\ x.n <= thread[t].attempts
      BY <2>1 DEF OnceInv, LastAttempt
    <3> QED
      BY <2>3, <3>1, <3>2
  <2>7. OneOwner'
    <3>1. ASSUME NEW u \in Threads
          PROVE  (Owner(u)' <=> Owner(u)) /\ thread'[u].call = thread[u].call
      <4>1. CASE u = t
        BY <2>1, <2>4, <4>1 DEF Owner
      <4>2. CASE u # t
        BY <2>5, <4>2 DEF Owner
      <4> QED
        BY <4>1, <4>2
    <3> QED
      BY <2>2, <3>1 DEF OnceInv, OneOwner
  <2>8. AttemptsInOrder'
    <3>1. \A x \in sent' : x.epoch <= epoch
      BY <2>2 DEF OnceInv, AttemptsInOrder, TypeInv, TypeOK
    <3>2. \A x \in sent' : x.epoch = epoch /\ x.call \in Keys => ledger[x.call] # NoRecord
      BY <2>1, <2>2 DEF OnceInv, AttemptsInOrder, OneOwner, Owner
    <3>3. \A x, y \in sent' : x.epoch = y.epoch /\ x.call = y.call /\ x.n < y.n => x \in refused
      BY <2>2, <2>3, <2>6 DEF OnceInv, AttemptsInOrder, TypeInv, TypeOK, Ticket
    <3> QED
      BY <2>2, <3>1, <3>2, <3>3 DEF OnceInv, AttemptsInOrder
  <2>9. LastAttempt'
    <3>1. CurrentTicket(t)' = tk
      BY <2>2, <2>4 DEF CurrentTicket
    <3>2. \A u \in Threads \ {t} : CurrentTicket(u)' = CurrentTicket(u)
      BY <2>2, <2>5 DEF CurrentTicket
    <3>3. \A u \in Threads \ {t} : thread[u].pc \in {"send", "wait"} =>
             thread[u].call # thread[t].call
      BY <2>1 DEF OnceInv, OneOwner, Owner
    <3>4. \A x \in sent' : x.epoch = epoch /\ x.call = thread[t].call => x.n <= n
      BY <2>2, <2>3, <2>6 DEF OnceInv, TypeInv, TypeOK, Ticket
    <3>5. ASSUME NEW u \in Threads \ {t}, NEW x \in sent', x.epoch = epoch, x.call = thread[u].call
          PROVE  /\ thread[u].pc \in {"send", "wait"} => x.n <= thread[u].attempts
                 /\ thread[u].pc = "send" => x \in refused
      <4>1. CASE x = tk
        BY <3>3, <3>5, <4>1
      <4>2. CASE x \in sent
        BY <3>5, <4>2 DEF OnceInv, LastAttempt
      <4> QED
        BY <2>2, <4>1, <4>2
    <3>6. \A u \in Threads \ {t} : thread[u].pc = "wait" => CurrentTicket(u) \in sent
      BY DEF OnceInv, LastAttempt
    <3>7. ASSUME NEW u \in Threads
          PROVE  /\ thread'[u].pc = "wait" => CurrentTicket(u)' \in sent'
                 /\ \A x \in sent' : x.epoch = epoch' /\ x.call = thread'[u].call =>
                      /\ thread'[u].pc \in {"send", "wait"} => x.n <= thread'[u].attempts
                      /\ thread'[u].pc = "send" => x \in refused'
      <4>1. CASE u = t
        BY <2>2, <2>4, <3>1, <3>4, <4>1
      <4>2. CASE u # t
        BY <2>2, <2>5, <3>2, <3>5, <3>6, <4>2
      <4> QED
        BY <4>1, <4>2
    <3> QED
      BY <3>7 DEF LastAttempt
  <2> QED
    BY <1>0, <2>7, <2>8, <2>9 DEF OnceInv
<1>5. ASSUME NEW t \in Threads, Reply(t) PROVE OnceInv'
  <2>1. PICK c \in RetCode, deal \in {CurrentTicket(t), NoTicket} :
          /\ MayAnswer(CurrentTicket(t), c, deal)
          /\ LET report == [state |-> StateOf[c], deal |-> deal]
                 again  == report.state = "NOT_SENT" /\ thread[t].attempts <= MaxRetries
             IN  thread' = [thread EXCEPT ![t].report = report,
                                          ![t].pc = IF again THEN "send" ELSE "record"]
    BY <1>5 DEF Reply
  <2>2. thread[t].pc = "wait" /\ UNCHANGED <<epoch, ledger, broker>>
    BY <1>5 DEF Reply
  <2>3. /\ thread'[t].pc \in {"send", "record"}
        /\ thread'[t].call = thread[t].call /\ thread'[t].attempts = thread[t].attempts
    BY <2>1 DEF OnceInv, TypeInv, TypeOK, ThreadState
  <2>4. \A u \in Threads \ {t} : thread'[u] = thread[u]
    BY <2>1 DEF OnceInv, TypeInv, TypeOK
  <2>5. thread'[t].pc = "send" => CurrentTicket(t) \in refused
    <3>1. thread'[t].pc = "send" => c = "requote"
      BY <2>1, <2>2 DEF OnceInv, TypeInv, TypeOK, ThreadState, StateOf, RetCode
    <3> QED
      BY <2>1, <3>1 DEF MayAnswer
  <2>6. \A x \in sent : x.epoch = epoch /\ x.call = thread[t].call =>
           x = CurrentTicket(t) \/ x \in refused
    <3>1. CurrentTicket(t) \in sent /\ CurrentTicket(t) \in Ticket
      BY <2>2 DEF OnceInv, LastAttempt, TypeInv, TypeOK
    <3> QED
      BY <2>2, <3>1 DEF OnceInv, LastAttempt, AttemptsInOrder, TypeInv, TypeOK, Ticket, CurrentTicket
  <2>7. OneOwner'
    BY <2>2, <2>3, <2>4 DEF OnceInv, OneOwner, Owner
  <2>8. AttemptsInOrder'
    BY <2>2 DEF OnceInv, AttemptsInOrder, broker
  <2>9. LastAttempt'
    BY <2>2, <2>3, <2>4, <2>5, <2>6 DEF OnceInv, LastAttempt, CurrentTicket, broker
  <2> QED
    BY <1>0, <2>7, <2>8, <2>9 DEF OnceInv
<1>6. ASSUME NEW t \in Threads, RawReply(t) PROVE OnceInv'
  <2>1. PICK c \in RetCode, deal \in {CurrentTicket(t), NoTicket} :
          /\ MayAnswer(CurrentTicket(t), c, deal)
          /\ thread' = [thread EXCEPT ![t] =
               IF c = "requote" /\ thread[t].attempts <= MaxRetries
               THEN [@ EXCEPT !.pc = "send"] ELSE Idle]
    BY <1>6 DEF RawReply
  <2>2. thread[t].pc = "wait" /\ UNCHANGED <<epoch, ledger, broker>>
    BY <1>6 DEF RawReply
  <2>3. \A u \in Threads \ {t} : thread'[u] = thread[u]
    BY <2>1 DEF OnceInv, TypeInv, TypeOK
  <2>4. CASE c = "requote" /\ thread[t].attempts <= MaxRetries
    <3>1. thread'[t].pc = "send" /\ thread'[t].call = thread[t].call
          /\ thread'[t].attempts = thread[t].attempts
      BY <2>1, <2>4 DEF OnceInv, TypeInv, TypeOK, ThreadState
    <3>2. CurrentTicket(t) \in refused
      BY <2>1, <2>4 DEF MayAnswer
    <3>3. \A x \in sent : x.epoch = epoch /\ x.call = thread[t].call => x \in refused
      <4>1. CurrentTicket(t) \in sent /\ CurrentTicket(t) \in Ticket
        BY <2>2 DEF OnceInv, LastAttempt, TypeInv, TypeOK
      <4> QED
        BY <2>2, <3>2, <4>1
           DEF OnceInv, LastAttempt, AttemptsInOrder, TypeInv, TypeOK, Ticket, CurrentTicket
    <3>4. OneOwner'
      BY <2>2, <2>3, <3>1 DEF OnceInv, OneOwner, Owner
    <3>5. AttemptsInOrder'
      BY <2>2 DEF OnceInv, AttemptsInOrder, broker
    <3>6. LastAttempt'
      BY <2>2, <2>3, <3>1, <3>3 DEF OnceInv, LastAttempt, CurrentTicket, broker
    <3> QED
      BY <1>0, <3>4, <3>5, <3>6 DEF OnceInv
  <2>5. CASE ~(c = "requote" /\ thread[t].attempts <= MaxRetries)
    <3>1. thread'[t].pc = "idle"
      BY <2>1, <2>5 DEF OnceInv, TypeInv, TypeOK, Idle, At
    <3> QED
      BY <1>0, <2>2, <2>3, <3>1 DEF OnceInv, OneOwner, Owner, AttemptsInOrder, LastAttempt,
         CurrentTicket, broker
  <2> QED
    BY <2>4, <2>5
<1>7. ASSUME NEW t \in Threads, RecordOutcome(t) PROVE OnceInv'
  <2>1. thread[t].call \in Keys /\ thread[t].report # NoReport
    BY <1>7 DEF RecordOutcome, OnceInv, TypeInv, BusyType, Report, NoReport, States
  <2>2. /\ ledger' = [ledger EXCEPT ![thread[t].call] =
                        [report |-> thread[t].report, inFlight |-> FALSE]]
        /\ thread' = [thread EXCEPT ![t] = Told(@.call, @.report)]
        /\ UNCHANGED <<epoch, sent, filled, refused>>
    BY <1>7 DEF RecordOutcome, broker
  <2>3. [report |-> thread[t].report, inFlight |-> FALSE] # NoRecord
    BY <2>1 DEF NoRecord
  <2>4. \A k \in Keys : ledger[k] # NoRecord => ledger'[k] # NoRecord
    BY <2>2, <2>3 DEF OnceInv, TypeInv, TypeOK
  <2>5. thread'[t].pc = "told" /\ \A u \in Threads \ {t} : thread'[u] = thread[u]
    BY <2>2 DEF OnceInv, TypeInv, TypeOK, Told, At
  <2>6. OneOwner'
    BY <2>2, <2>4, <2>5 DEF OnceInv, OneOwner, Owner
  <2>7. AttemptsInOrder'
    BY <2>2, <2>4 DEF OnceInv, AttemptsInOrder
  <2>8. LastAttempt'
    BY <2>2, <2>5 DEF OnceInv, LastAttempt, CurrentTicket
  <2> QED
    BY <1>0, <2>6, <2>7, <2>8 DEF OnceInv
<1>8. ASSUME NEW tk \in OnWire, BrokerFill(tk) \/ BrokerRefuse(tk) PROVE OnceInv'
  <2>1. UNCHANGED engine /\ UNCHANGED sent /\ refused \subseteq refused'
    BY <1>8 DEF BrokerFill, BrokerRefuse
  <2>2. filled' \cap refused' = {}
    BY <1>8 DEF BrokerFill, BrokerRefuse, OnWire, OnceInv, AttemptsInOrder
  <2> QED
    BY <1>0, <2>1, <2>2 DEF engine, OnceInv, OneOwner, Owner, AttemptsInOrder, LastAttempt,
       CurrentTicket
<1>9. CASE ReconcileStart \/ ReconcileFetch \/ ReconcileEnd \/ \E k \in Keys : ReconcileMatch(k)
  BY <1>0, <1>9, OnceAloof
     DEF ReconcileStart, ReconcileFetch, ReconcileEnd, ReconcileMatch, broker
<1>10. CASE ReconcileWrite
  <2>1. [report |-> [state |-> "FILLED", deal |-> recon.pos], inFlight |-> FALSE] # NoRecord
    BY DEF NoRecord, NoReport
  <2>2. \A k \in Keys : ledger[k] # NoRecord => ledger'[k] # NoRecord
    BY <1>10, <2>1 DEF ReconcileWrite, OnceInv, TypeInv, TypeOK
  <2> QED
    BY <1>0, <1>10, <2>2, OnceAloof DEF ReconcileWrite, broker
<1>11. CASE Restart
  BY <1>0, <1>11 DEF Restart, OnceInv, OneOwner, Owner, AttemptsInOrder, LastAttempt,
     CurrentTicket, Idle, At, broker, TypeInv, TypeOK, Ticket
<1>12. CASE UNCHANGED vars
  BY <1>0, <1>12, OnceAloof DEF vars
<1> QED
  BY <1>1, <1>2, <1>3, <1>4, <1>5, <1>6, <1>7, <1>8, <1>9, <1>10, <1>11, <1>12 DEF Next

\* A call is executed at most once in one life of the process: for any number
\* of threads, duplicate callers and retries, and whenever the broker executes.
THEOREM ExecutedAtMostOnce == Safe => []AtMostOnce
<1>1. OnceInv => AtMostOnce
  <2> SUFFICES ASSUME OnceInv, NEW x \in filled, NEW y \in filled,
                      x.epoch = y.epoch, x.call = y.call
               PROVE  x = y
    BY DEF AtMostOnce
  <2>1. x \in Ticket /\ y \in Ticket /\ x \in sent /\ y \in sent
    BY DEF OnceInv, TypeInv, TypeOK
  <2>2. ~(x.n < y.n) /\ ~(y.n < x.n)
    BY <2>1 DEF OnceInv, AttemptsInOrder
  <2>3. x.n = y.n
    BY <2>1, <2>2 DEF Ticket
  <2> QED
    BY <2>1, <2>3 DEF Ticket
<1> QED
  BY OnceInit, OnceStep, <1>1, PTL DEF Safe

-----------------------------------------------------------------------------
(***************************************************************************)
(* What reports say.                                                       *)
(***************************************************************************)
Speaks(tk, c) == tk.call = c \/ <<c, tk.call>> \in InComment
GoodReport(r, c) ==
    /\ r.deal # NoTicket => r.deal \in filled /\ Speaks(r.deal, c)
    /\ r.state \in Filled => r.deal # NoTicket
    /\ r.state \in Refused => \A x \in sent : x.epoch = epoch /\ x.call = c => x \in refused

GoodLedger   == \A k \in Keys : GoodReport(ledger[k].report, k)
GoodInHand   == \A t \in Threads : thread[t].pc \in {"record", "told"}
                   => GoodReport(thread[t].report, thread[t].call)
OwnedIsOpen  == \A t \in Threads : Owner(t) /\ thread[t].call \in Keys =>
                   ledger[thread[t].call].report.state \notin Refused
GoodSnapshot ==
    /\ recon.seen \subseteq filled
    /\ recon.pc = "write" => recon.pos \in filled /\ Speaks(recon.pos, recon.key)
OwnedInFlight ==
    \A k \in Keys : ledger[k].inFlight =>
      \E t \in Threads : thread[t].call = k /\ thread[t].pc \in {"send", "wait", "record"}

\* A caller is answered from a record, and a key it was told is refused is one
\* that nobody submits any more.
ToldIsClosed ==
    \A t \in Threads :
      /\ thread[t].pc \in {"get", "told"} => ledger[thread[t].call] # NoRecord
      /\ thread[t].pc = "told" => thread[t].report \in Report
      /\ thread[t].pc = "told" /\ thread[t].report.state \in Refused =>
           \A u \in Threads : Owner(u) => thread[u].call # thread[t].call

EvidenceInv == GoodLedger /\ GoodInHand /\ OwnedIsOpen /\ GoodSnapshot /\ OwnedInFlight
Inv == OnceInv /\ EvidenceInv /\ ToldIsClosed

LEMMA EvidenceInit == Init => EvidenceInv
BY DEF Init, EvidenceInv, GoodLedger, GoodInHand, OwnedIsOpen, GoodSnapshot, GoodReport, OwnedInFlight,
   OwnedInFlight, Owner, Idle, At, ReconIdle, NoRecord, NoReport, NoTicket, Refused, Filled

LEMMA ToldInit == Init => ToldIsClosed
BY DEF Init, ToldIsClosed, Idle, At

\* Answers already given stay closed while no thread takes up a key.
LEMMA ToldStays ==
    ASSUME ToldIsClosed,
           \A k \in Keys : ledger[k] # NoRecord => ledger'[k] # NoRecord, BusyType,
           \A u \in Threads : Owner(u)' => \/ Owner(u) /\ thread'[u].call = thread[u].call
                                           \/ thread'[u].call \notin Keys,
           \A u \in Threads : thread'[u].pc \in {"get", "told"} => thread'[u] = thread[u]
    PROVE  ToldIsClosed'
BY DEF ToldIsClosed, BusyType

LEMMA ToldStep == Inv /\ [Next]_vars => ToldIsClosed'
<1> SUFFICES ASSUME Inv, [Next]_vars PROVE ToldIsClosed'
  OBVIOUS
<1>0. TypeOK /\ BusyType /\ ReconType /\ OneOwner /\ ToldIsClosed
  BY DEF Inv, OnceInv, TypeInv
<1>1. ASSUME NEW t \in Threads, NEW k \in Keys, Begin(t, k) PROVE ToldIsClosed'
  <2>1. CASE ledger[k] = NoRecord
    <3>1. /\ ledger'[k] = [report |-> Indeterminate, inFlight |-> TRUE]
          /\ \A j \in Keys \ {k} : ledger'[j] = ledger[j]
          /\ thread'[t] = At("send", k) /\ \A u \in Threads \ {t} : thread'[u] = thread[u]
      BY <1>0, <1>1, <2>1 DEF Begin, TypeOK
    <3>2. ledger'[k] # NoRecord
      BY <3>1 DEF NoRecord
    <3>3. thread'[t].pc = "send" /\ thread'[t].call = k
      BY <3>1 DEF At
    <3>4. \A v \in Threads \ {t} : thread[v].pc \in {"get", "told"} => thread[v].call \in Keys \ {k}
      BY <1>0, <2>1 DEF ToldIsClosed, BusyType
    <3> QED
      BY <1>0, <3>1, <3>2, <3>3, <3>4 DEF ToldIsClosed, Owner
  <2>2. CASE ledger[k] # NoRecord
    <3>1. /\ thread'[t] = At("get", k) /\ \A u \in Threads \ {t} : thread'[u] = thread[u]
          /\ ledger' = ledger
      BY <1>0, <1>1, <2>2 DEF Begin, TypeOK
    <3>2. thread'[t].pc = "get" /\ thread'[t].call = k
      BY <3>1 DEF At
    <3> QED
      BY <1>0, <2>2, <3>1, <3>2 DEF ToldIsClosed, Owner
  <2> QED
    BY <2>1, <2>2
<1>2. ASSUME NEW t \in Threads, NEW c \in RawCalls, RawCall(t, c) PROVE ToldIsClosed'
  <2>1. /\ thread'[t] = At("send", c) /\ \A u \in Threads \ {t} : thread'[u] = thread[u]
        /\ ledger' = ledger /\ c \notin Keys
    BY <1>0, <1>2, OrderExecutionAssumption DEF RawCall, TypeOK
  <2>2. thread'[t].pc = "send" /\ thread'[t].call = c
    BY <2>1 DEF At
  <2> QED
    BY <1>0, <2>1, <2>2, ToldStays DEF Owner
<1>3. ASSUME NEW t \in Threads, GetExisting(t) PROVE ToldIsClosed'
  <2> DEFINE k == thread[t].call
  <2>1. thread[t].pc = "get" /\ k \in Keys /\ ledger[k] # NoRecord /\ ledger' = ledger
    BY <1>0, <1>3 DEF GetExisting, BusyType, ToldIsClosed
  <2>2. thread'[t] = Told(k, ledger[k].report) /\ \A u \in Threads \ {t} : thread'[u] = thread[u]
    BY <1>0, <1>3 DEF GetExisting, TypeOK
  <2>3. thread'[t].pc = "told" /\ thread'[t].call = k /\ thread'[t].report = ledger[k].report
    BY <2>2 DEF Told, At
  <2>4. ledger[k].report \in Report
    BY <1>0, <2>1 DEF TypeOK, Record
  <2>5. \A u \in Threads : Owner(u)' => Owner(u) /\ thread'[u] = thread[u]
    BY <2>2, <2>3 DEF Owner
  <2>6. ledger[k].report.state \in Refused => \A u \in Threads : Owner(u) => thread[u].call # k
    BY <2>1 DEF Inv, EvidenceInv, OwnedIsOpen
  <2> QED
    BY <1>0, <2>1, <2>2, <2>3, <2>4, <2>5, <2>6 DEF ToldIsClosed
<1>4. ASSUME NEW t \in Threads, SendOrder(t) \/ Reply(t) \/ RawReply(t) PROVE ToldIsClosed'
  <2>1. thread[t].pc \in {"send", "wait"} /\ ledger' = ledger
    BY <1>4 DEF SendOrder, Reply, RawReply
  <2>2. \A u \in Threads \ {t} : thread'[u] = thread[u]
    BY <1>0, <1>4 DEF SendOrder, Reply, RawReply, TypeOK
  <2>3. \/ thread'[t].pc \in {"send", "wait", "record"} /\ thread'[t].call = thread[t].call
        \/ thread'[t].pc = "idle"
    <3>1. CASE SendOrder(t)
      BY <1>0, <3>1 DEF SendOrder, TypeOK, ThreadState
    <3>2. CASE Reply(t)
      BY <1>0, <3>2 DEF Reply, TypeOK, ThreadState
    <3>3. CASE RawReply(t)
      <4>1. thread'[t] = [thread[t] EXCEPT !.pc = "send"] \/ thread'[t] = Idle
        BY <1>0, <3>3 DEF RawReply, TypeOK
      <4> QED
        BY <1>0, <4>1 DEF TypeOK, ThreadState, Idle, At
    <3> QED
      BY <1>4, <3>1, <3>2, <3>3
  <2> QED
    BY <1>0, <2>1, <2>2, <2>3, ToldStays DEF Owner
<1>5. ASSUME NEW t \in Threads, RecordOutcome(t) PROVE ToldIsClosed'
  <2> DEFINE k == thread[t].call
  <2>1. thread[t].pc = "record" /\ k \in Keys /\ thread[t].report \in Report
    BY <1>0, <1>5 DEF RecordOutcome, BusyType
  <2>2. /\ ledger'[k] = [report |-> thread[t].report, inFlight |-> FALSE]
        /\ \A j \in Keys \ {k} : ledger'[j] = ledger[j]
        /\ thread'[t] = Told(k, thread[t].report) /\ \A u \in Threads \ {t} : thread'[u] = thread[u]
    BY <1>0, <1>5, <2>1 DEF RecordOutcome, TypeOK
  <2>3. thread'[t].pc = "told" /\ thread'[t].call = k /\ thread'[t].report = thread[t].report
    BY <2>2 DEF Told, At
  <2>4. ledger'[k] # NoRecord
    BY <2>1, <2>2 DEF NoRecord, NoReport, Report, States
  <2>5. \A u \in Threads : Owner(u)' => u # t /\ Owner(u) /\ thread'[u] = thread[u] /\ thread[u].call # k
    BY <1>0, <2>1, <2>2, <2>3 DEF Owner, OneOwner
  <2> QED
    BY <1>0, <2>1, <2>2, <2>3, <2>4, <2>5 DEF ToldIsClosed, BusyType
<1>6. ASSUME NEW tk \in OnWire, BrokerFill(tk) \/ BrokerRefuse(tk) PROVE ToldIsClosed'
  BY <1>0, <1>6, ToldStays DEF BrokerFill, BrokerRefuse, engine, Owner
<1>7. CASE ReconcileStart \/ ReconcileFetch \/ ReconcileEnd \/ \E k \in Keys : ReconcileMatch(k)
  BY <1>0, <1>7, ToldStays
     DEF ReconcileStart, ReconcileFetch, ReconcileEnd, ReconcileMatch, Owner
<1>8. CASE ReconcileWrite
  <2>1. [report |-> [state |-> "FILLED", deal |-> recon.pos], inFlight |-> FALSE] # NoRecord
    BY DEF NoRecord, NoReport
  <2>2. \A k \in Keys : ledger[k] # NoRecord => ledger'[k] # NoRecord
    BY <1>0, <1>8, <2>1 DEF ReconcileWrite, TypeOK
  <2> QED
    BY <1>0, <1>8, <2>2, ToldStays DEF ReconcileWrite, Owner
<1>9. CASE Restart
  BY <1>9 DEF Restart, ToldIsClosed, Idle, At
<1>10. CASE UNCHANGED vars
  BY <1>0, <1>10, ToldStays DEF vars, Owner
<1> QED
  BY <1>1, <1>2, <1>3, <1>4, <1>5, <1>6, <1>7, <1>8, <1>9, <1>10 DEF Next

LEMMA EvidenceStep == Inv /\ [Next]_vars => EvidenceInv'
<1> SUFFICES ASSUME Inv, [Next]_vars PROVE EvidenceInv'
  OBVIOUS
<1> USE DEF Inv, EvidenceInv
<1>0. TypeOK /\ BusyType /\ ReconType
  BY DEF OnceInv, TypeInv
<1>1. ASSUME NEW t \in Threads, NEW k \in Keys, Begin(t, k) PROVE EvidenceInv'
  <2>0. UNCHANGED <<epoch, recon, sent, filled, refused>>
    BY <1>1 DEF Begin, broker
  <2>1. CASE ledger[k] = NoRecord
    <3>1. /\ ledger' = [ledger EXCEPT ![k] = [report |-> Indeterminate, inFlight |-> TRUE]]
          /\ thread' = [thread EXCEPT ![t] = At("send", k)]
      BY <1>1, <2>1 DEF Begin
    <3>2. ledger'[k] = [report |-> Indeterminate, inFlight |-> TRUE]
          /\ \A j \in Keys \ {k} : ledger'[j] = ledger[j]
      BY <3>1, <1>0 DEF TypeOK
    <3>3. thread'[t] = At("send", k) /\ \A u \in Threads \ {t} : thread'[u] = thread[u]
      BY <3>1, <1>0 DEF TypeOK
    <3>4. GoodReport(Indeterminate, k)'
      BY DEF GoodReport, Indeterminate, Filled, Refused
    <3>5. GoodLedger'
      BY <2>0, <3>2, <3>4 DEF GoodLedger, GoodReport
    <3>6. GoodInHand'
      BY <2>0, <3>3 DEF GoodInHand, GoodReport, At
    <3>7. OwnedIsOpen'
      BY <3>2, <3>3 DEF OwnedIsOpen, Owner, At, Indeterminate, Refused
    <3>8. OwnedInFlight'
      BY <1>1, <3>2, <3>3 DEF OwnedInFlight, At, Begin, Free
    <3> QED
      BY <2>0, <3>5, <3>6, <3>7, <3>8 DEF GoodSnapshot
  <2>2. CASE ledger[k] # NoRecord
    <3>1. thread' = [thread EXCEPT ![t] = At("get", k)] /\ UNCHANGED ledger
      BY <1>1, <2>2 DEF Begin
    <3>2. thread'[t] = At("get", k) /\ \A u \in Threads \ {t} : thread'[u] = thread[u]
      BY <3>1, <1>0 DEF TypeOK
    <3> QED
      BY <1>1, <2>0, <3>1, <3>2 DEF GoodLedger, GoodInHand, OwnedIsOpen, GoodSnapshot, OwnedInFlight,
         GoodReport, OwnedInFlight, Owner, At, Begin, Free
  <2> QED
    BY <2>1, <2>2
<1>2. ASSUME NEW t \in Threads, NEW c \in RawCalls, RawCall(t, c) PROVE EvidenceInv'
  <2>1. thread'[t] = At("send", c) /\ \A u \in Threads \ {t} : thread'[u] = thread[u]
    BY <1>2, <1>0 DEF RawCall, TypeOK
  <2>2. c \notin Keys /\ UNCHANGED <<epoch, ledger, recon, sent, filled, refused>>
    BY <1>2, OrderExecutionAssumption DEF RawCall, broker
  <2> QED
    BY <1>2, <2>1, <2>2 DEF GoodLedger, GoodInHand, OwnedIsOpen, GoodSnapshot, OwnedInFlight,
       GoodReport, OwnedInFlight, Owner, At, RawCall, Free
<1>3. ASSUME NEW t \in Threads, GetExisting(t) PROVE EvidenceInv'
  <2> DEFINE k == thread[t].call
  <2>1. thread'[t] = Told(k, ledger[k].report) /\ \A u \in Threads \ {t} : thread'[u] = thread[u]
    BY <1>3, <1>0 DEF GetExisting, TypeOK
  <2>2. UNCHANGED <<epoch, ledger, recon, sent, filled, refused>> /\ thread[t].pc = "get" /\ k \in Keys
    BY <1>3, <1>0 DEF GetExisting, broker, BusyType
  <2>3. thread'[t].pc = "told" /\ thread'[t].call = k /\ thread'[t].report = ledger[k].report
    BY <2>1 DEF Told, At
  <2>4. GoodInHand'
    BY <2>1, <2>2, <2>3 DEF GoodInHand, GoodLedger, GoodReport
  <2>5. OwnedIsOpen' /\ OwnedInFlight'
    BY <2>1, <2>2, <2>3 DEF OwnedIsOpen, OwnedInFlight, Owner
  <2> QED
    BY <2>2, <2>4, <2>5 DEF GoodLedger, GoodSnapshot, GoodReport
<1>4. ASSUME NEW t \in Threads, SendOrder(t) PROVE EvidenceInv'
  <2> DEFINE n == thread[t].attempts + 1
             tk == [epoch |-> epoch, call |-> thread[t].call, n |-> n]
  <2>1. thread[t].pc = "send" /\ thread' = [thread EXCEPT ![t].pc = "wait", ![t].attempts = n]
    BY <1>4 DEF SendOrder
  <2>2. sent' = sent \cup {tk} /\ UNCHANGED <<epoch, ledger, recon, filled, refused>>
    BY <1>4 DEF SendOrder
  <2>3. /\ thread'[t].pc = "wait" /\ thread'[t].call = thread[t].call
        /\ \A u \in Threads \ {t} : thread'[u] = thread[u]
    BY <2>1, <1>0 DEF TypeOK, ThreadState
  <2>4. ASSUME NEW k \in Keys PROVE GoodReport(ledger[k].report, k)'
    <3>1. GoodReport(ledger[k].report, k)
      BY DEF GoodLedger
    <3>2. k = thread[t].call => ledger[k].report.state \notin Refused
      BY <2>1 DEF OwnedIsOpen, Owner
    <3> QED
      BY <2>2, <3>1, <3>2 DEF GoodReport
  <2>5. ASSUME NEW u \in Threads, thread'[u].pc \in {"record", "told"}
        PROVE  GoodReport(thread[u].report, thread[u].call)' /\ thread'[u] = thread[u]
    <3>1. u # t /\ thread[u].pc \in {"record", "told"}
      BY <2>3, <2>5
    <3>2. thread[u].report.state \in Refused => thread[u].call # thread[t].call
      BY <2>1, <3>1 DEF OnceInv, OneOwner, Owner, ToldIsClosed
    <3>3. GoodReport(thread[u].report, thread[u].call)
      BY <3>1 DEF GoodInHand
    <3>4. thread'[u] = thread[u]
      BY <2>3, <3>1
    <3> QED
      BY <2>2, <3>2, <3>3, <3>4 DEF GoodReport
  <2>6. OwnedIsOpen'
    <3>1. ASSUME NEW u \in Threads, Owner(u)' PROVE Owner(u) /\ thread'[u].call = thread[u].call
      BY <2>1, <2>3, <3>1 DEF Owner
    <3> QED
      BY <2>2, <3>1 DEF OwnedIsOpen
  <2>7. OwnedInFlight'
    <3>1. ASSUME NEW u \in Threads, thread[u].pc \in {"send", "wait", "record"}
          PROVE  thread'[u].pc \in {"send", "wait", "record"} /\ thread'[u].call = thread[u].call
      BY <2>3, <3>1
    <3> QED
      BY <2>2, <3>1 DEF OwnedInFlight
  <2>8. GoodInHand'
    BY <2>5 DEF GoodInHand, GoodReport
  <2> QED
    BY <2>2, <2>4, <2>8, <2>6, <2>7 DEF GoodLedger, GoodSnapshot
<1>5. ASSUME NEW t \in Threads, Reply(t) PROVE EvidenceInv'
  <2>1. PICK c \in RetCode, deal \in {CurrentTicket(t), NoTicket} :
          /\ MayAnswer(CurrentTicket(t), c, deal)
          /\ LET report == [state |-> StateOf[c], deal |-> deal]
                 again  == report.state = "NOT_SENT" /\ thread[t].attempts <= MaxRetries
             IN  thread' = [thread EXCEPT ![t].report = report,
                                          ![t].pc = IF again THEN "send" ELSE "record"]
    BY <1>5 DEF Reply
  <2>2. thread[t].pc = "wait" /\ UNCHANGED <<epoch, ledger, recon, sent, filled, refused>>
    BY <1>5 DEF Reply, broker
  <2> DEFINE report == [state |-> StateOf[c], deal |-> deal]
  <2>3. /\ thread'[t].pc \in {"send", "record"} /\ thread'[t].call = thread[t].call
        /\ thread'[t].report = report
        /\ \A u \in Threads \ {t} : thread'[u] = thread[u]
    BY <2>1, <1>0 DEF TypeOK, ThreadState
  <2>4. CurrentTicket(t) \in Ticket /\ CurrentTicket(t) # NoTicket
    BY <1>0, <2>2, NoneIsNone DEF OnceInv, LastAttempt, TypeOK
  <2>5. CurrentTicket(t) \in refused =>
          \A x \in sent : x.epoch = epoch /\ x.call = thread[t].call => x \in refused
    <3> SUFFICES ASSUME CurrentTicket(t) \in refused,
                        NEW x \in sent, x.epoch = epoch, x.call = thread[t].call
                 PROVE  x \in refused
      OBVIOUS
    <3>1. x \in Ticket /\ x.n <= thread[t].attempts /\ CurrentTicket(t) \in sent
      BY <1>0, <2>2 DEF OnceInv, LastAttempt, TypeOK
    <3>2. CASE x.n = thread[t].attempts
      BY <3>1, <3>2 DEF CurrentTicket, Ticket
    <3>3. CASE x.n < thread[t].attempts
      BY <3>1, <3>3 DEF OnceInv, AttemptsInOrder, CurrentTicket
    <3>4. x.n \in Nat /\ thread[t].attempts \in Nat
      BY <1>0, <3>1 DEF Ticket, TypeOK, ThreadState
    <3> QED
      BY <3>1, <3>2, <3>3, <3>4
  <2>6. /\ deal # NoTicket => deal \in filled /\ Speaks(deal, thread[t].call)
        /\ StateOf[c] \in Filled => deal # NoTicket
        /\ StateOf[c] \in Refused => CurrentTicket(t) \in refused
    <3>1. StateOf[c] \in Filled => c \in {"done", "less", "partial"}
      BY DEF StateOf, Filled, RetCode
    <3>2. StateOf[c] \in Refused => c \in {"cancel", "reject", "requote"}
      BY DEF StateOf, Refused, RetCode
    <3>3. deal # NoTicket => deal = CurrentTicket(t) /\ deal \in filled
      BY <2>1, <2>4 DEF MayAnswer, RetCode
    <3> QED
      BY <2>1, <2>4, <3>1, <3>2, <3>3 DEF MayAnswer, CurrentTicket, Speaks
  <2>7. GoodReport(report, thread[t].call)
    BY <2>5, <2>6 DEF GoodReport
  <2>8. GoodInHand'
    BY <2>2, <2>3, <2>7 DEF GoodInHand, GoodReport
  <2>9. GoodLedger' /\ GoodSnapshot'
    BY <2>2 DEF GoodLedger, GoodSnapshot, GoodReport
  <2>10. OwnedIsOpen' /\ OwnedInFlight'
    BY <2>2, <2>3 DEF OwnedIsOpen, OwnedInFlight, Owner
  <2> QED
    BY <2>8, <2>9, <2>10
<1>6. ASSUME NEW t \in Threads, RawReply(t) PROVE EvidenceInv'
  <2>1. /\ thread[t].pc = "wait" /\ thread[t].call \notin Keys
        /\ UNCHANGED <<epoch, ledger, recon, sent, filled, refused>>
    BY <1>6, OrderExecutionAssumption DEF RawReply, broker
  <2>2. /\ thread'[t] = [thread[t] EXCEPT !.pc = "send"] \/ thread'[t] = Idle
        /\ \A u \in Threads \ {t} : thread'[u] = thread[u]
    BY <1>6, <1>0 DEF RawReply, TypeOK
  <2>3. thread'[t].pc \in {"send", "idle"} /\ (thread'[t].pc = "send" => thread'[t].call = thread[t].call)
    BY <2>2, <1>0 DEF TypeOK, ThreadState, Idle, At
  <2> QED
    BY <2>1, <2>2, <2>3 DEF GoodLedger, GoodInHand, OwnedIsOpen, GoodSnapshot, OwnedInFlight,
       GoodReport, OwnedInFlight, Owner
<1>7. ASSUME NEW t \in Threads, RecordOutcome(t) PROVE EvidenceInv'
  <2> DEFINE k == thread[t].call
  <2>1. thread[t].pc = "record" /\ k \in Keys /\ UNCHANGED <<epoch, recon, sent, filled, refused>>
    BY <1>7, <1>0 DEF RecordOutcome, BusyType, broker
  <2>2. /\ ledger'[k] = [report |-> thread[t].report, inFlight |-> FALSE]
        /\ \A j \in Keys \ {k} : ledger'[j] = ledger[j]
    BY <1>7, <1>0, <2>1 DEF RecordOutcome, TypeOK
  <2>3. /\ thread'[t].pc = "told" /\ thread'[t].call = k /\ thread'[t].report = thread[t].report
        /\ \A u \in Threads \ {t} : thread'[u] = thread[u]
    BY <1>7, <1>0 DEF RecordOutcome, TypeOK, Told, At
  <2>4. GoodReport(thread[t].report, k)
    BY <2>1 DEF GoodInHand
  <2>5. GoodLedger'
    BY <2>1, <2>2, <2>4 DEF GoodLedger, GoodReport
  <2>6. GoodInHand'
    BY <2>1, <2>3 DEF GoodInHand, GoodReport
  <2>7. \A u \in Threads : Owner(u)' => u # t /\ Owner(u) /\ thread'[u] = thread[u] /\ thread[u].call # k
    BY <2>1, <2>3 DEF Owner, OnceInv, OneOwner
  <2>8. OwnedIsOpen'
    BY <2>2, <2>7 DEF OwnedIsOpen
  <2>9. OwnedInFlight'
    BY <2>1, <2>2, <2>3 DEF OwnedInFlight
  <2> QED
    BY <2>1, <2>5, <2>6, <2>8, <2>9 DEF GoodSnapshot
<1>8. ASSUME NEW tk \in OnWire, BrokerFill(tk) \/ BrokerRefuse(tk) PROVE EvidenceInv'
  <2>1. /\ UNCHANGED <<epoch, ledger, thread, recon, sent>>
        /\ filled \subseteq filled' /\ refused \subseteq refused'
    BY <1>8 DEF BrokerFill, BrokerRefuse, engine
  <2>2. GoodLedger' /\ GoodInHand'
    BY <2>1 DEF GoodLedger, GoodInHand, GoodReport
  <2>3. OwnedIsOpen' /\ OwnedInFlight' /\ GoodSnapshot'
    BY <2>1 DEF OwnedIsOpen, OwnedInFlight, Owner, GoodSnapshot
  <2> QED
    BY <2>2, <2>3
<1>9. ASSUME UNCHANGED <<epoch, ledger, thread, broker>>, GoodSnapshot' PROVE EvidenceInv'
  BY <1>9 DEF GoodLedger, GoodInHand, OwnedIsOpen, OwnedInFlight, GoodReport,
     OwnedInFlight, Owner, broker
<1>10. CASE ReconcileStart \/ ReconcileFetch \/ ReconcileEnd
  <2>1. UNCHANGED <<epoch, ledger, thread, broker>>
    BY <1>10 DEF ReconcileStart, ReconcileFetch, ReconcileEnd
  <2>2. recon'.seen \subseteq filled /\ recon'.pc # "write"
    <3>1. CASE ReconcileStart
      <4>1. recon'.seen = {} /\ recon'.pc = "fetch"
        BY <3>1 DEF ReconcileStart, ReconIdle
      <4> QED
        BY <4>1
    <3>2. CASE recon' = ReconIdle
      <4>1. recon'.seen = {} /\ recon'.pc = "idle"
        BY <3>2 DEF ReconIdle
      <4> QED
        BY <4>1
    <3>3. ASSUME NEW open \in SUBSET filled,
                 recon' = [recon EXCEPT !.pc = "match", !.seen = open]
          PROVE  recon'.seen \subseteq filled /\ recon'.pc # "write"
      <4>1. recon'.seen = open /\ recon'.pc = "match"
        BY <3>3, <1>0 DEF TypeOK, ReconState
      <4> QED
        BY <4>1
    <3> QED
      BY <1>10, <3>1, <3>2, <3>3 DEF ReconcileFetch, ReconcileEnd
  <2>3. GoodSnapshot'
    BY <2>1, <2>2 DEF GoodSnapshot, broker
  <2> QED
    BY <1>9, <2>1, <2>3
<1>11. ASSUME NEW k \in Keys, ReconcileMatch(k) PROVE EvidenceInv'
  <2>1. UNCHANGED <<epoch, ledger, thread, broker>> /\ recon.pc = "match"
    BY <1>11 DEF ReconcileMatch
  <2>2. ASSUME NEW tk \in recon.seen, Matches(k, tk) PROVE tk \in filled /\ Speaks(tk, k)
    <3>1. tk \in filled /\ tk # NoTicket
      BY <1>0, NoneIsNone DEF GoodSnapshot, TypeOK
    <3> QED
      BY <2>2, <3>1 DEF Matches, GoodLedger, GoodReport, Speaks
  <2>3. GoodSnapshot'
    BY <1>11, <1>0, <2>1, <2>2 DEF ReconcileMatch, GoodSnapshot, broker, TypeOK, ReconState
  <2> QED
    BY <1>9, <2>1, <2>3
<1>12. CASE ReconcileWrite
  <2> DEFINE k == recon.key
             r == [state |-> "FILLED", deal |-> recon.pos]
  <2>1. /\ k \in Keys /\ recon.pos \in filled /\ Speaks(recon.pos, k) /\ recon.pos # NoTicket
        /\ UNCHANGED <<epoch, thread, sent, filled, refused>>
    BY <1>12, <1>0, NoneIsNone DEF ReconcileWrite, ReconType, GoodSnapshot, broker
  <2>2. ledger'[k] = [report |-> r, inFlight |-> FALSE] /\ \A j \in Keys \ {k} : ledger'[j] = ledger[j]
    BY <1>12, <1>0, <2>1 DEF ReconcileWrite, TypeOK
  <2>3. GoodReport(r, k)
    BY <2>1 DEF GoodReport, Refused
  <2>4. GoodLedger'
    BY <2>1, <2>2, <2>3 DEF GoodLedger, GoodReport
  <2>5. GoodInHand' /\ OwnedIsOpen' /\ OwnedInFlight'
    BY <2>1, <2>2 DEF GoodInHand, GoodReport, OwnedIsOpen, OwnedInFlight, Owner, Refused
  <2>6. GoodSnapshot'
    BY <1>12, <1>0, <2>1 DEF ReconcileWrite, GoodSnapshot, TypeOK, ReconState
  <2> QED
    BY <2>4, <2>5, <2>6
<1>13. CASE Restart
  BY <1>13, <1>0 DEF Restart, GoodLedger, GoodInHand, OwnedIsOpen, GoodSnapshot, OwnedInFlight,
     GoodReport, OwnedInFlight, Owner, Idle, At, ReconIdle, NoRecord, NoReport, NoTicket,
     Refused, Filled, TypeOK
<1>14. CASE UNCHANGED vars
  BY <1>14, <1>9 DEF vars, broker, GoodSnapshot
<1> QED
  BY <1>1, <1>2, <1>3, <1>4, <1>5, <1>6, <1>7, <1>8, <1>10, <1>11, <1>12, <1>13, <1>14 DEF Next

LEMMA InvHolds == Safe => []Inv
<1>1. Init => Inv
  BY OnceInit, EvidenceInit, ToldInit DEF Inv
<1>2. Inv /\ [Next]_vars => Inv'
  BY OnceStep, EvidenceStep, ToldStep DEF Inv
<1> QED
  BY <1>1, <1>2, PTL DEF Safe

\* A key in flight has a thread submitting it.  A refusal in the ledger is
\* evidence: nothing of the key was executed and nothing still can be; a fill in the ledger is an execution of the key's own
\* order, or of one in whose comment the key is found.
THEOREM LedgerTellsTheTruth == Safe => []LedgerIsEvidence
<1>1. ASSUME Inv, NEW k \in Keys
      PROVE  /\ ledger[k].inFlight => \E t \in Threads :
                  thread[t].call = k /\ thread[t].pc \in {"send", "wait", "record"}
             /\ ledger[k].report.state \in Refused => Mine(k) \subseteq refused
             /\ ledger[k].report.state \in Filled => Shown(k)
  <2>1. GoodReport(ledger[k].report, k)
    BY <1>1 DEF Inv, EvidenceInv, GoodLedger
  <2> QED
    BY <1>1, <2>1 DEF GoodReport, Mine, Shown, Speaks, Inv, EvidenceInv, OwnedInFlight
<1>2. Inv => LedgerIsEvidence
  BY <1>1 DEF LedgerIsEvidence
<1> QED
  BY InvHolds, <1>2, PTL

\* Whoever asked, and however it was answered - with its own outcome or, as a
\* suppressed duplicate, with the ledger's: a refusal it was told is one, for
\* good, and DONE has an execution behind it.
THEOREM CallersAreToldTheTruth == Safe => []CallerIsNotMisled
<1>1. ASSUME Inv, NEW t \in Threads, thread[t].pc = "told"
      PROVE  /\ RefusedTo(t) =>
                  /\ Mine(thread[t].call) \subseteq refused
                  /\ \A u \in Threads : thread[u].pc \in {"send", "wait"}
                                          => thread[u].call # thread[t].call
             /\ ResultOf[thread[t].report.state] = "DONE" => Shown(thread[t].call)
  <2>1. GoodReport(thread[t].report, thread[t].call) /\ thread[t].report \in Report
    BY <1>1 DEF Inv, EvidenceInv, GoodInHand, ToldIsClosed
  <2>2. thread[t].report.state \in States
    BY <2>1 DEF Report
  <2>3. RefusedTo(t) => thread[t].report.state \in Refused
    BY <2>2 DEF RefusedTo, ResultOf, States, Filled, Refused
  <2>4. ResultOf[thread[t].report.state] = "DONE" => thread[t].report.state \in Filled
    BY <2>2 DEF ResultOf, States, Filled
  <2>5. thread[t].report.state \in Refused =>
          \A u \in Threads : thread[u].pc \in {"send", "wait"} => thread[u].call # thread[t].call
    BY <1>1 DEF Inv, ToldIsClosed, Owner
  <2> QED
    BY <2>1, <2>3, <2>4, <2>5 DEF GoodReport, Mine, Shown, Speaks
<1>2. Inv => CallerIsNotMisled
  BY <1>1 DEF CallerIsNotMisled
<1> QED
  BY InvHolds, <1>2, PTL
=============================================================================
