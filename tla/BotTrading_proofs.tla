------------------------- MODULE BotTrading_proofs -------------------------
(***************************************************************************)
(* Proofs about BotTrading: its types, the emergency stop, one order per   *)
(* decision and the per-symbol cap, for any number of bots, caps, resends  *)
(* and decisions.                                                          *)
(***************************************************************************)
EXTENDS BotTrading, FiniteSetTheorems, TLAPS

\* A bot that is not paused has taken no decision since a stop; a paused one has
\* taken at most one, and none yet while the running step may still take it.
StopInv ==
    \A b \in Bots : /\ ~paused[b] => admitted[b] = 0
                    /\ admitted[b] <= 1
                    /\ loop.pc = "manage" /\ loop.bot = b => admitted[b] = 0

Filled == open \union gone
Sent == wire \union Filled
Sending == loop.pc \in {"send", "wait"}

\* The entry in progress serves the last decision of its bot, and no request
\* serves a later one.
DecisionInv ==
    /\ Sending => loop.decision = decisions[loop.bot]
    /\ \A o \in Sent : o.decision <= decisions[o.bot]

\* A request keeps one fate.
FateInv == wire \intersect Filled = {} /\ open \intersect gone = {}

\* Requests are numbered in the order they are sent, and the one that is waited
\* for is the last.
LastInv ==
    /\ Sending => \A o \in Sent : DecisionOf(o) = DecisionOf(Current) => o.send <= Current.send
    /\ loop.pc = "send" => Current \notin Sent
    /\ loop.pc = "wait" => Current \in Sent

\* What an earlier request of the entry in progress left behind is unclear, and
\* so is what a finished entry left on the wire.
SettledInv ==
    /\ \A o \in Sent : Sending /\ DecisionOf(o) = DecisionOf(Current) /\ o # Current
                        => DecisionOf(o) \in unclear
    /\ \A o \in wire : (Sending /\ o = Current) \/ DecisionOf(o) \in unclear

\* While everything about a bot is settled, its positions and requests fit its
\* cap, with a place kept for the entry in progress whatever became of its request.
Settled(b) == OrdersOf(unclear, b) = {} /\ b \notin blind
Busy(b) == Sending /\ loop.bot = b
Held(b) == OrdersOf(wire \union open, b)
CapInv ==
    \A b \in Bots :
       Settled(b) => IF Busy(b) THEN Cardinality(Held(b) \ {Current}) <= SymbolCap - 1
                                ELSE Cardinality(Held(b)) <= SymbolCap

---------------------------------------------------------------------------
(* Types *)

\* Every variable of the model keeps its type, and an entry never sends more
\* requests than its attempts and its alternatives (run.py:3829).
LEMMA TypeInit == Init => TypeOK
BY BotTradingAssumption DEF Init, TypeOK, IdleLoop, IdleDash

\* The next request of an entry, if any, is bounded, and is the next in number.
LEMMA AfterAnswerType ==
  ASSUME TypeOK, loop.pc = "wait", NEW a \in Answer
  PROVE  \/ AfterAnswer(a) = IdleLoop
         \/ \E t \in 1..Attempts, n \in 0..Alternatives :
              /\ AfterAnswer(a) = Resend(t, n) /\ a # "done"
              /\ t + n = loop.attempt + loop.alternative + 1
<1>1. loop.attempt \in 1..Attempts /\ loop.alternative \in 0..Alternatives
  BY DEF TypeOK, IdleLoop
<1>2. Attempts \in Nat \ {0} /\ Alternatives \in Nat \ {0}
  BY BotTradingAssumption
<1>3. CASE loop.alternative > 0 /\ a # "done" /\ loop.alternative < Alternatives
  <2>1. AfterAnswer(a) = Resend(loop.attempt, loop.alternative + 1)
    BY <1>3 DEF AfterAnswer
  <2> QED BY <1>1, <1>2, <1>3, <2>1
<1>4. CASE loop.alternative = 0 /\ a = "requote" /\ loop.attempt < Attempts
  <2>1. AfterAnswer(a) = Resend(loop.attempt + 1, 0)
    BY <1>4 DEF AfterAnswer
  <2> QED BY <1>1, <1>2, <1>4, <2>1
<1>5. CASE loop.alternative = 0 /\ (a = "fill_mode" \/ (a = "none" /\ loop.attempt = 1))
  <2>1. AfterAnswer(a) = Resend(loop.attempt, 1)
    BY <1>5 DEF AfterAnswer
  <2> QED BY <1>1, <1>2, <1>5, <2>1
<1>6. CASE /\ ~(loop.alternative > 0 /\ a # "done" /\ loop.alternative < Alternatives)
           /\ ~(loop.alternative = 0 /\ a = "requote" /\ loop.attempt < Attempts)
           /\ ~(loop.alternative = 0 /\ (a = "fill_mode" \/ (a = "none" /\ loop.attempt = 1)))
  BY <1>6 DEF AfterAnswer
<1> QED BY <1>3, <1>4, <1>5, <1>6

LEMMA TypeStep == TypeOK /\ [Next]_vars => TypeOK'
<1> SUFFICES ASSUME TypeOK, [Next]_vars PROVE TypeOK'
  OBVIOUS
<1> USE BotTradingAssumption
<1>1. CASE BrokerFills
  BY <1>1 DEF BrokerFills, TypeOK
<1>2. CASE BrokerCloses
  BY <1>2 DEF BrokerCloses, TypeOK
<1>3. ASSUME NEW b \in Bots, BeginStep(b) PROVE TypeOK'
  BY <1>3 DEF BeginStep, TypeOK, market
<1>4. CASE ManageClose
  BY <1>4 DEF ManageClose, CloseCall, OrdersOf, TypeOK
<1>5. CASE EndStep
  BY <1>5 DEF EndStep, TypeOK, market, IdleLoop
<1>6. CASE Decide
  <2>1. loop \in [pc : {"manage"}, bot : Bots]
    BY <1>6 DEF Decide, TypeOK, IdleLoop
  <2>3. blind' \subseteq Bots
    BY <1>6, <2>1 DEF Decide, TypeOK
  <2>4. loop' \in [pc : {"send", "wait"}, bot : Bots, decision : 1..MaxDecisions,
                   attempt : 1..Attempts, alternative : 0..Alternatives]
    BY <1>6, <2>1 DEF Decide, TypeOK
  <2>5. decisions' \in [Bots -> 0..MaxDecisions]
    BY <1>6, <2>1 DEF Decide, TypeOK
  <2>6. admitted' \in [Bots -> Nat]
    BY <1>6, <2>1 DEF Decide, TypeOK
  <2> QED BY <1>6, <2>3, <2>4, <2>5, <2>6 DEF Decide, TypeOK, market
<1>7. CASE SendOrder
  <2>1. loop \in [pc : {"send", "wait"}, bot : Bots, decision : 1..MaxDecisions,
                  attempt : 1..Attempts, alternative : 0..Alternatives]
    BY <1>7 DEF SendOrder, TypeOK, IdleLoop
  <2>2. Current \in Order
    BY <2>1 DEF Current, Order
  <2> QED BY <1>7, <2>1, <2>2 DEF SendOrder, TypeOK
<1>8. CASE ReceiveAnswer
  <2>1. PICK a \in Answer : Answers(Current, a) /\ loop' = AfterAnswer(a)
    BY <1>8 DEF ReceiveAnswer
  <2>2. loop \in [pc : {"send", "wait"}, bot : Bots, decision : 1..MaxDecisions,
                  attempt : 1..Attempts, alternative : 0..Alternatives]
    BY <1>8 DEF ReceiveAnswer, TypeOK, IdleLoop
  <2>3. wire' \subseteq Order /\ unclear' \subseteq Decision
    BY <2>1, <2>2 DEF Answers, DecisionOf, Decision, Current, TypeOK
  <2>4. loop' \in {IdleLoop} \union
           [pc : {"send"}, bot : Bots, decision : 1..MaxDecisions, attempt : 1..Attempts,
            alternative : 0..Alternatives]
    BY <1>8, <2>1, <2>2, AfterAnswerType DEF ReceiveAnswer, Resend
  <2> QED BY <1>8, <2>3, <2>4 DEF ReceiveAnswer, TypeOK
<1>9. CASE BeginStop
  BY <1>9 DEF BeginStop, TypeOK, market
<1>10. CASE StopRead
  <2>1. PICK b \in dash.left : \E seen \in ReadPositions(b) :
            dash' = [pc |-> "close", left |-> dash.left \ {b}, bot |-> b, targets |-> seen]
    BY <1>10 DEF StopRead
  <2>2. dash.left \subseteq Bots /\ \A seen \in ReadPositions(b) : seen \subseteq Order
    BY <1>10 DEF StopRead, TypeOK, ReadPositions, OrdersOf, IdleDash
  <2>3. dash' \in [pc : {"close"}, left : SUBSET Bots, bot : Bots, targets : SUBSET Order]
    BY <2>1, <2>2
  <2> QED BY <1>10, <2>3 DEF StopRead, TypeOK, market
<1>11. CASE StopClose
  <2>1. dash \in [pc : {"close"}, left : SUBSET Bots, bot : Bots, targets : SUBSET Order]
    BY <1>11 DEF StopClose, TypeOK, IdleDash
  <2>2. dash' \in [pc : {"close"}, left : SUBSET Bots, bot : Bots, targets : SUBSET Order]
    BY <1>11, <2>1 DEF StopClose
  <2>3. open' \subseteq Order /\ gone' \subseteq Order
    BY <1>11 DEF StopClose, CloseCall, TypeOK
  <2> QED BY <1>11, <2>2, <2>3 DEF StopClose, TypeOK
<1>12. CASE StopPause
  <2>1. dash \in [pc : {"close"}, left : SUBSET Bots, bot : Bots, targets : SUBSET Order]
    BY <1>12 DEF StopPause, TypeOK, IdleDash
  <2>2. dash' \in {IdleDash} \union [pc : {"read"}, left : SUBSET Bots]
    BY <1>12, <2>1 DEF StopPause
  <2>3. paused' \in [Bots -> BOOLEAN] /\ admitted' \in [Bots -> Nat]
    BY <1>12, <2>1 DEF StopPause, TypeOK
  <2> QED BY <1>12, <2>2, <2>3 DEF StopPause, TypeOK, market
<1>13. CASE Resume
  BY <1>13 DEF Resume, TypeOK, market
<1>14. CASE UNCHANGED vars
  BY <1>14 DEF vars, TypeOK
<1> QED BY <1>1, <1>2, <1>3, <1>4, <1>5, <1>6, <1>7, <1>8, <1>9, <1>10, <1>11, <1>12, <1>13,
           <1>14 DEF Next, LoopStep, StopStep

THEOREM TradingTypes == Safe => []TypeOK
<1>1. TypeOK /\ [Next]_vars => TypeOK'
  BY TypeStep
<1> QED BY <1>1, TypeInit, PTL DEF Safe

---------------------------------------------------------------------------
(* The emergency stop *)

LEMMA StopStepKeeps ==
  ASSUME TypeOK, StopInv, [Next]_vars
  PROVE  StopInv'
<1>1. ASSUME UNCHANGED <<loop, paused, admitted>> PROVE StopInv'
  BY <1>1 DEF StopInv
<1>2. ASSUME NEW b \in Bots, BeginStep(b) PROVE StopInv'
  BY <1>2 DEF BeginStep, StopInv
<1>3. ASSUME UNCHANGED <<paused, admitted>>, loop'.pc # "manage" PROVE StopInv'
  BY <1>3 DEF StopInv
<1>4. CASE Decide
  <2>1. loop.pc = "manage" /\ loop.bot \in Bots /\ loop'.pc = "send" /\ UNCHANGED paused
    BY <1>4 DEF Decide, TypeOK, IdleLoop
  <2>2. admitted' = IF paused[loop.bot] THEN [admitted EXCEPT ![loop.bot] = @ + 1] ELSE admitted
    BY <1>4 DEF Decide
  <2>3. admitted \in [Bots -> Nat]
    BY DEF TypeOK
  <2> QED BY <2>1, <2>2, <2>3 DEF StopInv
<1>5. CASE StopPause
  <2>1. paused' = [paused EXCEPT ![dash.bot] = TRUE] /\ UNCHANGED loop
    BY <1>5 DEF StopPause
  <2>2. admitted' = [admitted EXCEPT ![dash.bot] = IF paused[dash.bot] THEN @ ELSE 0]
    BY <1>5 DEF StopPause
  <2>3. paused \in [Bots -> BOOLEAN] /\ admitted \in [Bots -> Nat]
    BY DEF TypeOK
  <2> QED BY <2>1, <2>2, <2>3 DEF StopInv
<1>6. CASE Resume
  BY <1>6 DEF Resume, StopInv
<1>7. CASE EndStep
  <2>1. UNCHANGED <<paused, admitted>> /\ loop'.pc # "manage"
    BY <1>7 DEF EndStep, IdleLoop
  <2> QED BY <1>3, <2>1
<1>8. CASE SendOrder
  <2>1. UNCHANGED <<paused, admitted>> /\ loop'.pc # "manage"
    BY <1>8 DEF SendOrder, TypeOK, IdleLoop
  <2> QED BY <1>3, <2>1
<1>9. CASE ReceiveAnswer
  <2>1. PICK a \in Answer : loop' = AfterAnswer(a)
    BY <1>9 DEF ReceiveAnswer
  <2>2. UNCHANGED <<paused, admitted>> /\ loop'.pc # "manage"
    BY <1>9, <2>1, AfterAnswerType DEF ReceiveAnswer, IdleLoop, Resend
  <2> QED BY <1>3, <2>2
<1>10. CASE BrokerFills \/ BrokerCloses \/ ManageClose \/ BeginStop \/ StopRead \/ StopClose
  BY <1>1, <1>10 DEF BrokerFills, BrokerCloses, ManageClose, BeginStop, StopRead, StopClose
<1>11. CASE UNCHANGED vars
  BY <1>1, <1>11 DEF vars
<1> QED BY <1>2, <1>4, <1>5, <1>6, <1>7, <1>8, <1>9, <1>10, <1>11 DEF Next, LoopStep, StopStep

\* After an emergency stop paused a bot, at most the step that was running takes
\* one more decision for it, until it is resumed (run.py:5828).
THEOREM StopAdmitsOne == Safe => []StopAdmitsOnlyTheRunningStep
<1>1. Init => StopInv
  BY DEF Init, StopInv, IdleLoop
<1>2. TypeOK /\ StopInv /\ [Next]_vars => StopInv'
  BY StopStepKeeps
<1>3. StopInv => StopAdmitsOnlyTheRunningStep
  BY DEF StopInv, StopAdmitsOnlyTheRunningStep
<1> QED BY <1>1, <1>2, <1>3, TradingTypes, PTL DEF Safe

---------------------------------------------------------------------------
(* One order per decision *)

OrderInv == DecisionInv /\ FateInv /\ LastInv /\ SettledInv /\ OneOrderWhileSettled

\* Steps that send nothing and leave the entry in progress alone, or happen when
\* there is none.
LEMMA QuietKeepsOrders ==
  ASSUME OrderInv, UNCHANGED <<decisions, unclear>>, Sent' = Sent, wire' \subseteq wire,
         FateInv', UNCHANGED loop \/ (~Sending /\ ~Sending')
  PROVE  OrderInv'
<1>1. CASE UNCHANGED loop
  <2>1. UNCHANGED Current /\ UNCHANGED Sending
    BY <1>1 DEF Current, Sending
  <2>2. DecisionInv'
    BY <1>1, <2>1 DEF OrderInv, DecisionInv
  <2>3. LastInv'
    BY <1>1, <2>1 DEF OrderInv, LastInv
  <2>4. SettledInv'
    BY <2>1 DEF OrderInv, SettledInv
  <2>5. OneOrderWhileSettled'
    BY DEF OrderInv, OneOrderWhileSettled, Sent, Filled
  <2> QED BY <2>2, <2>3, <2>4, <2>5 DEF OrderInv
<1>2. CASE ~Sending /\ ~Sending'
  <2>1. DecisionInv'
    BY <1>2 DEF OrderInv, DecisionInv
  <2>2. LastInv'
    BY <1>2 DEF LastInv, Sending
  <2>3. SettledInv'
    BY <1>2 DEF OrderInv, SettledInv
  <2>4. OneOrderWhileSettled'
    BY DEF OrderInv, OneOrderWhileSettled, Sent, Filled
  <2> QED BY <2>1, <2>2, <2>3, <2>4 DEF OrderInv
<1> QED BY <1>1, <1>2

\* A new decision has no request yet.
LEMMA DecideKeepsOrders ==
  ASSUME TypeOK, OrderInv, Decide
  PROVE  OrderInv'
<1>1. /\ ~Sending /\ loop'.pc = "send" /\ Sending' /\ loop.bot \in Bots
      /\ loop'.bot = loop.bot /\ loop'.decision = decisions[loop.bot] + 1
      /\ UNCHANGED <<wire, open, gone, unclear>>
  BY DEF Decide, Sending, TypeOK, IdleLoop, market
<1>2. decisions' = [decisions EXCEPT ![loop.bot] = @ + 1] /\ decisions \in [Bots -> 0..MaxDecisions]
  BY DEF Decide, TypeOK
<1>3. Sent' = Sent /\ Sent \subseteq Order
  BY <1>1 DEF Sent, Filled, TypeOK
<1>4. DecisionInv'
  BY <1>1, <1>2, <1>3 DEF OrderInv, DecisionInv, Order
<1>5. Current'.bot = loop.bot /\ Current'.decision = decisions[loop.bot] + 1
  BY <1>1 DEF Current
<1>6. \A o \in Sent : DecisionOf(o) # DecisionOf(Current') /\ o # Current'
  <2> SUFFICES ASSUME NEW o \in Sent, DecisionOf(o) = DecisionOf(Current') \/ o = Current'
               PROVE  FALSE
    OBVIOUS
  <2>1. o.bot = loop.bot /\ o.decision = decisions[loop.bot] + 1
    BY <1>5 DEF DecisionOf
  <2>2. o.decision <= decisions[loop.bot] /\ decisions[loop.bot] \in Nat
    BY <1>1, <1>2, <2>1 DEF OrderInv, DecisionInv
  <2> QED BY <2>1, <2>2
<1>7. \A o \in Sent : DecisionOf(o) # DecisionOf(Current)' /\ o # Current'
  BY <1>6 DEF DecisionOf
<1>8. LastInv'
  BY <1>1, <1>3, <1>7 DEF LastInv
<1>9. SettledInv'
  BY <1>1, <1>3, <1>7 DEF OrderInv, SettledInv, Sent, DecisionOf
<1>10. FateInv' /\ OneOrderWhileSettled'
  BY <1>1 DEF OrderInv, FateInv, OneOrderWhileSettled, Filled, DecisionOf
<1> QED BY <1>4, <1>8, <1>9, <1>10 DEF OrderInv

\* A resend is one more request of its decision; the others are unclear.
LEMMA SendKeepsOrders ==
  ASSUME TypeOK, OrderInv, SendOrder
  PROVE  OrderInv'
<1>1. /\ loop.pc = "send" /\ Sending /\ Sending' /\ loop'.pc = "wait" /\ loop.bot \in Bots
      /\ UNCHANGED <<decisions, open, gone, unclear>> /\ wire' = wire \union {Current}
      /\ loop'.bot = loop.bot /\ loop'.decision = loop.decision
      /\ loop'.attempt = loop.attempt /\ loop'.alternative = loop.alternative
  BY DEF SendOrder, Sending, TypeOK, IdleLoop
<1>2. UNCHANGED Current /\ Current \in Order
  <2>1. /\ loop.attempt \in 1..Attempts /\ loop.alternative \in 0..Alternatives
        /\ loop.decision \in 1..MaxDecisions
    BY <1>1 DEF TypeOK, IdleLoop
  <2> QED BY <1>1, <2>1, BotTradingAssumption DEF Current, Order
<1>3. Current \notin Sent /\ Sent' = Sent \union {Current}
  BY <1>1 DEF OrderInv, LastInv, Sent, Filled
<1>4. Current.bot = loop.bot /\ Current.decision = loop.decision
      /\ Current.decision = decisions[loop.bot] /\ decisions[loop.bot] \in Nat
  BY <1>1 DEF Current, OrderInv, DecisionInv, TypeOK
<1>5. DecisionInv'
  BY <1>1, <1>3, <1>4 DEF OrderInv, DecisionInv
<1>6. FateInv'
  BY <1>1, <1>3 DEF OrderInv, FateInv, Sent, Filled
<1>7. LastInv'
  BY <1>1, <1>2, <1>3 DEF OrderInv, LastInv, DecisionOf, Order
<1>8. SettledInv'
  BY <1>1, <1>2, <1>3 DEF OrderInv, SettledInv, DecisionOf
<1>9. OneOrderWhileSettled'
  <2> SUFFICES ASSUME NEW o \in Sent', NEW p \in Sent', o # p, DecisionOf(o) = DecisionOf(p)
               PROVE  DecisionOf(o) \in unclear
    BY <1>1 DEF OneOrderWhileSettled, Sent, Filled, DecisionOf
  <2>1. CASE o \in Sent /\ p \in Sent
    BY <2>1 DEF OrderInv, OneOrderWhileSettled, Sent, Filled
  <2>2. CASE o = Current \/ p = Current
    BY <1>1, <1>3, <2>2 DEF OrderInv, SettledInv
  <2> QED BY <1>3, <2>1, <2>2
<1> QED BY <1>5, <1>6, <1>7, <1>8, <1>9 DEF OrderInv

\* A settled answer removes what it refuses; an unsettled one makes the decision
\* unclear; only DONE ends an entry that left a request behind.
LEMMA AnswerKeepsOrders ==
  ASSUME TypeOK, OrderInv, ReceiveAnswer
  PROVE  OrderInv'
<1>1. PICK a \in Answer : Answers(Current, a) /\ loop' = AfterAnswer(a)
  BY DEF ReceiveAnswer
<1>2. /\ loop.pc = "wait" /\ Sending /\ loop.bot \in Bots
      /\ loop.attempt \in 1..Attempts /\ loop.alternative \in 0..Alternatives
      /\ UNCHANGED <<decisions, open, gone>> /\ Current \in Sent
  BY DEF ReceiveAnswer, Sending, TypeOK, IdleLoop, OrderInv, LastInv
<1>3. /\ wire' \subseteq wire /\ Sent' \subseteq Sent /\ unclear \subseteq unclear'
      /\ Sent \subseteq Order
  BY <1>1, <1>2 DEF Answers, Sent, Filled, TypeOK
<1>4. \/ Current \notin Sent'
      \/ a = "done" /\ Current \notin wire'
      \/ DecisionOf(Current) \in unclear'
  BY <1>1, <1>2 DEF Answers, Answer, Unsettled, Sent, Filled, OrderInv, FateInv
<1>5. FateInv'
  BY <1>2, <1>3 DEF OrderInv, FateInv, Filled
<1>6. OneOrderWhileSettled'
  <2> SUFFICES ASSUME NEW o \in Sent', NEW p \in Sent', o # p, DecisionOf(o) = DecisionOf(p)
               PROVE  DecisionOf(o) \in unclear'
    BY DEF OneOrderWhileSettled, Sent, Filled, DecisionOf
  <2> QED BY <1>3 DEF OrderInv, OneOrderWhileSettled, Sent, Filled
<1>7. CASE loop' = IdleLoop
  <2>1. ~Sending' /\ a \in Answer
    BY <1>7 DEF Sending, IdleLoop
  <2>2. DecisionInv' /\ LastInv'
    BY <1>2, <1>3, <2>1 DEF OrderInv, DecisionInv, LastInv, Sending
  <2>3. \A o \in wire' : DecisionOf(o) \in unclear'
    BY <1>3, <1>4 DEF OrderInv, SettledInv, Sent
  <2>4. SettledInv'
    BY <2>1, <2>3 DEF SettledInv, DecisionOf
  <2> QED BY <1>5, <1>6, <2>2, <2>4 DEF OrderInv
<1>8. CASE \E t \in 1..Attempts, n \in 0..Alternatives :
              /\ loop' = Resend(t, n) /\ a # "done"
              /\ t + n = loop.attempt + loop.alternative + 1
  <2>1. PICK t \in 1..Attempts, n \in 0..Alternatives :
           loop' = Resend(t, n) /\ a # "done" /\ t + n = loop.attempt + loop.alternative + 1
    BY <1>8
  <2>2. /\ Sending' /\ loop'.pc = "send" /\ loop'.bot = loop.bot /\ loop'.decision = loop.decision
        /\ Current' = [bot |-> loop.bot, decision |-> loop.decision, send |-> t + n]
    BY <2>1 DEF Resend, Sending, Current
  <2>3. /\ Current'.send = Current.send + 1 /\ Current.send \in Nat
        /\ Current' # Current
        /\ \A o : DecisionOf(o) = DecisionOf(Current)' <=> DecisionOf(o) = DecisionOf(Current)
    BY <1>2, <2>1, <2>2 DEF Current, DecisionOf
  <2>4. DecisionInv'
    BY <1>2, <1>3, <2>2 DEF OrderInv, DecisionInv
  <2>5. \A o \in Sent' : DecisionOf(o) = DecisionOf(Current) => o.send <= Current.send /\ o.send \in Nat
    BY <1>2, <1>3 DEF OrderInv, LastInv, Order
  <2>6. LastInv'
    <3>1. \A o \in Sent' : DecisionOf(o) = DecisionOf(Current)' => o.send <= Current'.send
      BY <2>3, <2>5
    <3>2. Current' \notin Sent'
      BY <2>3, <2>5 DEF DecisionOf
    <3> QED BY <2>2, <3>1, <3>2 DEF LastInv, DecisionOf
  <2>7. \A o \in Sent' : DecisionOf(o) = DecisionOf(Current) => DecisionOf(o) \in unclear'
    BY <1>2, <1>3, <1>4, <2>1 DEF OrderInv, SettledInv
  <2>8. \A o \in wire' : DecisionOf(o) \in unclear'
    BY <1>2, <1>3, <1>4, <2>1, <2>7 DEF OrderInv, SettledInv, Sent
  <2>9. SettledInv'
    BY <2>3, <2>7, <2>8 DEF SettledInv, DecisionOf
  <2> QED BY <1>5, <1>6, <2>4, <2>6, <2>9 DEF OrderInv
<1> QED BY <1>1, <1>2, <1>7, <1>8, AfterAnswerType

LEMMA OrderStep ==
  ASSUME TypeOK, OrderInv, [Next]_vars
  PROVE  OrderInv'
<1>1. CASE BrokerFills
  <2>1. Sent' = Sent /\ wire' \subseteq wire /\ FateInv'
    BY <1>1 DEF BrokerFills, Sent, Filled, OrderInv, FateInv
  <2> QED BY <1>1, <2>1, QuietKeepsOrders DEF BrokerFills
<1>2. CASE BrokerCloses
  <2>1. Sent' = Sent /\ wire' \subseteq wire /\ FateInv'
    BY <1>2 DEF BrokerCloses, Sent, Filled, OrderInv, FateInv
  <2> QED BY <1>2, <2>1, QuietKeepsOrders DEF BrokerCloses
<1>3. ASSUME UNCHANGED <<loop, decisions, wire, unclear>>, NEW o, CloseCall(o) PROVE OrderInv'
  <2>1. Sent' = Sent /\ wire' \subseteq wire /\ FateInv'
    BY <1>3 DEF CloseCall, Sent, Filled, OrderInv, FateInv
  <2> QED BY <1>3, <2>1, QuietKeepsOrders
<1>4. ASSUME UNCHANGED <<decisions, wire, open, gone, unclear>>,
             UNCHANGED loop \/ (~Sending /\ ~Sending')
      PROVE  OrderInv'
  <2>1. Sent' = Sent /\ wire' \subseteq wire /\ FateInv'
    BY <1>4 DEF Sent, Filled, OrderInv, FateInv
  <2> QED BY <1>4, <2>1, QuietKeepsOrders
<1>5. ASSUME NEW b \in Bots, BeginStep(b) PROVE OrderInv'
  BY <1>4, <1>5 DEF BeginStep, Sending, market
<1>6. CASE EndStep
  BY <1>4, <1>6 DEF EndStep, Sending, IdleLoop, market
<1>7. CASE ManageClose
  BY <1>3, <1>7 DEF ManageClose
<1>8. CASE StopClose
  BY <1>3, <1>8 DEF StopClose
<1>9. CASE BeginStop \/ StopRead \/ StopPause \/ Resume
  BY <1>4, <1>9 DEF BeginStop, StopRead, StopPause, Resume, market
<1>10. CASE UNCHANGED vars
  BY <1>4, <1>10 DEF vars
<1> QED BY <1>1, <1>2, <1>5, <1>6, <1>7, <1>8, <1>9, <1>10, DecideKeepsOrders, SendKeepsOrders,
           AnswerKeepsOrders DEF Next, LoopStep, StopStep

LEMMA OrderInit == Init => OrderInv
BY DEF Init, OrderInv, DecisionInv, FateInv, LastInv, SettledInv, OneOrderWhileSettled,
       Sent, Filled, Sending, IdleLoop

\* One entry decision becomes at most one filled order and leaves no request
\* behind, as long as its requests were answered with a fill or a refusal.
THEOREM OneOrderPerDecision == Safe => []OneOrderWhileSettled
<1>1. TypeOK /\ OrderInv /\ [Next]_vars => OrderInv'
  BY OrderStep
<1>2. OrderInv => OneOrderWhileSettled
  BY DEF OrderInv
<1> QED BY OrderInit, <1>1, <1>2, TradingTypes, PTL DEF Safe

---------------------------------------------------------------------------
(* The per-symbol cap *)

LEMMA FiniteMarket == Safe => [](IsFiniteSet(wire) /\ IsFiniteSet(open))
<1> DEFINE Fin == IsFiniteSet(wire) /\ IsFiniteSet(open)
<1>1. Init => Fin
  BY FS_EmptySet DEF Init
<1>2. ASSUME Fin, [Next]_vars PROVE Fin'
  <2>1. ASSUME wire' \subseteq wire, open' \subseteq open PROVE Fin'
    BY <1>2, <2>1, FS_Subset
  <2>2. CASE BrokerFills
    <3>1. PICK o \in wire : wire' = wire \ {o} /\ open' = open \union {o}
      BY <2>2 DEF BrokerFills
    <3> QED BY <1>2, <3>1, FS_AddElement, FS_RemoveElement
  <2>3. CASE SendOrder
    BY <1>2, <2>3, FS_AddElement DEF SendOrder
  <2>4. CASE ReceiveAnswer
    <3>1. PICK a \in Answer : Answers(Current, a)
      BY <2>4 DEF ReceiveAnswer
    <3>2. wire' \subseteq wire /\ open' = open
      BY <2>4, <3>1 DEF Answers, ReceiveAnswer
    <3> QED BY <2>1, <3>2
  <2>5. ASSUME NEW b \in Bots, BeginStep(b) PROVE Fin'
    BY <2>1, <2>5 DEF BeginStep, market
  <2>6. CASE BrokerCloses \/ ManageClose \/ StopClose
    BY <2>1, <2>6 DEF BrokerCloses, ManageClose, StopClose, CloseCall
  <2>7. CASE EndStep \/ Decide \/ BeginStop \/ StopRead \/ StopPause \/ Resume
    BY <2>1, <2>7 DEF EndStep, Decide, BeginStop, StopRead, StopPause, Resume, market
  <2>8. CASE UNCHANGED vars
    BY <2>1, <2>8 DEF vars
  <2> QED BY <1>2, <2>2, <2>3, <2>4, <2>5, <2>6, <2>7, <2>8 DEF Next, LoopStep, StopStep
<1> HIDE DEF Fin
<1>3. Safe => []Fin
  BY <1>1, <1>2, PTL DEF Safe
<1>4. Fin <=> IsFiniteSet(wire) /\ IsFiniteSet(open)
  BY DEF Fin
<1> QED BY <1>3, <1>4, PTL

\* A part of a finite set that fits still fits, and one more element takes one place.
LEMMA Fits ==
  ASSUME NEW S, IsFiniteSet(S), NEW T, T \subseteq S, NEW n \in Int, Cardinality(S) <= n
  PROVE  Cardinality(T) <= n /\ Cardinality(T) \in Nat
<1>1. IsFiniteSet(T) /\ Cardinality(T) <= Cardinality(S)
  BY FS_Subset
<1>2. Cardinality(T) \in Nat /\ Cardinality(S) \in Nat
  BY <1>1, FS_CardinalityType
<1> QED BY <1>1, <1>2

LEMMA FitsOneMore ==
  ASSUME NEW S, IsFiniteSet(S), NEW x, NEW n \in Int, Cardinality(S \ {x}) <= n - 1
  PROVE  Cardinality(S) <= n
<1>1. IsFiniteSet(S \ {x}) /\ Cardinality(S \ {x}) \in Nat
  BY FS_Subset, FS_CardinalityType
<1>2. Cardinality((S \ {x}) \union {x}) = Cardinality(S \ {x}) + 1
  BY <1>1, FS_AddElement
<1>3. CASE x \in S
  <2>1. S = (S \ {x}) \union {x}
    BY <1>3
  <2>2. Cardinality(S) = Cardinality(S \ {x}) + 1
    BY <1>2, <2>1, Zenon
  <2> QED BY <1>1, <2>2
<1>4. CASE x \notin S
  <2>1. S \ {x} = S
    BY <1>4
  <2> QED BY <1>1, <2>1
<1> QED BY <1>3, <1>4

LEMMA CapStep ==
  ASSUME TypeOK, OrderInv, IsFiniteSet(wire), IsFiniteSet(open), CapInv, [Next]_vars
  PROVE  CapInv'
<1> SUFFICES ASSUME NEW b \in Bots, Settled(b)'
             PROVE  (IF Busy(b) THEN Cardinality(Held(b) \ {Current}) <= SymbolCap - 1
                                ELSE Cardinality(Held(b)) <= SymbolCap)'
  BY DEF CapInv
<1> USE BotTradingAssumption
<1>0. unclear \subseteq unclear' /\ blind \subseteq blind'
  <2>1. CASE ReceiveAnswer
    BY <2>1 DEF ReceiveAnswer, Answers
  <2>2. CASE Decide
    BY <2>2 DEF Decide, market
  <2>3. ASSUME NEW c \in Bots, BeginStep(c) PROVE UNCHANGED <<unclear, blind>>
    BY <2>3 DEF BeginStep, market
  <2>4. CASE BrokerFills \/ BrokerCloses \/ ManageClose \/ StopClose
    BY <2>4 DEF BrokerFills, BrokerCloses, ManageClose, StopClose
  <2>5. CASE EndStep \/ SendOrder \/ UNCHANGED vars
    BY <2>5 DEF EndStep, SendOrder, market, vars
  <2>6. CASE BeginStop \/ StopRead \/ StopPause \/ Resume
    BY <2>6 DEF BeginStop, StopRead, StopPause, Resume, market
  <2> QED BY <2>1, <2>2, <2>3, <2>4, <2>5, <2>6 DEF Next, LoopStep, StopStep
<1>1. Settled(b)
  BY <1>0 DEF Settled, OrdersOf
<1>2. /\ Busy(b) => Cardinality(Held(b) \ {Current}) <= SymbolCap - 1
      /\ ~Busy(b) => Cardinality(Held(b)) <= SymbolCap
  BY <1>1 DEF CapInv
<1>3. IsFiniteSet(Held(b)) /\ IsFiniteSet(Held(b) \ {Current})
  <2>1. IsFiniteSet(wire \union open)
    BY FS_Union
  <2>2. Held(b) \subseteq wire \union open /\ Held(b) \ {Current} \subseteq wire \union open
    BY DEF Held, OrdersOf
  <2> QED BY <2>1, <2>2, FS_Subset
<1>4. SymbolCap \in Int /\ SymbolCap - 1 \in Int
  OBVIOUS
<1>5. ASSUME Held(b)' \subseteq Held(b), ~Busy(b), ~Busy(b)'
      PROVE  Cardinality(Held(b)') <= SymbolCap
  BY <1>2, <1>3, <1>4, <1>5, Fits
<1>6. ASSUME Held(b)' \ {Current'} \subseteq Held(b) \ {Current}, Busy(b)
      PROVE  Cardinality(Held(b)' \ {Current'}) <= SymbolCap - 1
  BY <1>2, <1>3, <1>4, <1>6, Fits
<1>7. ASSUME Held(b)' \subseteq Held(b), UNCHANGED loop
      PROVE  (IF Busy(b) THEN Cardinality(Held(b) \ {Current}) <= SymbolCap - 1
                         ELSE Cardinality(Held(b)) <= SymbolCap)'
  <2>1. UNCHANGED <<Current, Busy(b)>>
    BY <1>7 DEF Current, Busy, Sending
  <2> QED BY <1>5, <1>6, <1>7, <2>1
<1>8. ASSUME UNCHANGED <<wire, open>>, ~Busy(b), ~Busy(b)'
      PROVE  (IF Busy(b) THEN Cardinality(Held(b) \ {Current}) <= SymbolCap - 1
                         ELSE Cardinality(Held(b)) <= SymbolCap)'
  <2>1. Held(b)' \subseteq Held(b)
    BY <1>8 DEF Held, OrdersOf
  <2> QED BY <1>5, <1>8, <2>1
<1>9. CASE BrokerFills
  BY <1>7, <1>9 DEF BrokerFills, Held, OrdersOf
<1>10. CASE BrokerCloses \/ ManageClose \/ StopClose
  BY <1>7, <1>10 DEF BrokerCloses, ManageClose, StopClose, CloseCall, Held, OrdersOf
<1>11. ASSUME NEW c \in Bots, BeginStep(c) PROVE ~Busy(b) /\ ~Busy(b)' /\ UNCHANGED <<wire, open>>
  BY <1>11 DEF BeginStep, Busy, Sending, market
<1>12. CASE EndStep
  BY <1>8, <1>12 DEF EndStep, Busy, Sending, IdleLoop, market
<1>13. CASE BeginStop \/ StopRead \/ StopPause \/ Resume \/ UNCHANGED vars
  BY <1>7, <1>13 DEF BeginStop, StopRead, StopPause, Resume, market, vars, Held, OrdersOf
<1>14. CASE Decide
  <2>1. ~Sending /\ loop.bot \in Bots /\ loop'.bot = loop.bot /\ UNCHANGED <<wire, open, unclear>>
    BY <1>14 DEF Decide, Sending, TypeOK, IdleLoop, market
  <2>2. CASE loop.bot # b
    BY <1>8, <2>1, <2>2 DEF Busy
  <2>3. CASE loop.bot = b
    <3>1. Cardinality(OrdersOf(open, b)) < SymbolCap
      BY <1>14, <2>3 DEF Decide, RoomFor, Settled
    <3>2. OrdersOf(wire, b) = {}
      <4> SUFFICES ASSUME NEW o \in wire, o.bot = b PROVE FALSE
        BY DEF OrdersOf
      <4>1. DecisionOf(o) \in unclear /\ DecisionOf(o).bot = b
        BY <2>1 DEF OrderInv, SettledInv, DecisionOf
      <4> QED BY <1>1, <4>1 DEF Settled, OrdersOf
    <3>3. Held(b)' \ {Current'} \subseteq OrdersOf(open, b)
      BY <2>1, <3>2 DEF Held, OrdersOf
    <3>4. IsFiniteSet(OrdersOf(open, b))
      <4>1. OrdersOf(open, b) \subseteq open
        BY DEF OrdersOf
      <4> QED BY <4>1, FS_Subset
    <3>5. Cardinality(OrdersOf(open, b)) <= SymbolCap - 1
      BY <3>1, <3>4, FS_CardinalityType
    <3>6. Cardinality(Held(b)' \ {Current'}) <= SymbolCap - 1
      BY <1>4, <3>3, <3>4, <3>5, Fits
    <3>7. Busy(b)'
      BY <1>14, <2>1, <2>3 DEF Decide, Busy, Sending
    <3> QED BY <3>6, <3>7
  <2> QED BY <2>2, <2>3
<1>15. CASE SendOrder
  <2>1. /\ Busy(b)' <=> Busy(b)
        /\ UNCHANGED Current /\ wire' = wire \union {Current} /\ UNCHANGED open
        /\ Current.bot = loop.bot /\ Sending
    BY <1>15 DEF SendOrder, Busy, Sending, Current, TypeOK, IdleLoop
  <2>2. CASE Busy(b)
    <3>1. Held(b)' \ {Current'} \subseteq Held(b) \ {Current}
      BY <2>1 DEF Held, OrdersOf
    <3> QED BY <1>6, <2>1, <2>2, <3>1
  <2>3. CASE ~Busy(b)
    <3>1. Held(b)' \subseteq Held(b)
      BY <2>1, <2>3 DEF Held, OrdersOf, Busy
    <3> QED BY <1>5, <2>1, <2>3, <3>1
  <2> QED BY <2>2, <2>3
<1>16. CASE ReceiveAnswer
  <2>1. PICK a \in Answer : Answers(Current, a) /\ loop' = AfterAnswer(a)
    BY <1>16 DEF ReceiveAnswer
  <2>2. /\ loop.pc = "wait" /\ Sending /\ loop.bot \in Bots /\ UNCHANGED open
        /\ Current.bot = loop.bot /\ wire' \subseteq wire
    BY <1>16, <2>1 DEF ReceiveAnswer, Sending, TypeOK, IdleLoop, Current, Answers
  <2>3. Held(b)' \subseteq Held(b)
    BY <2>2 DEF Held, OrdersOf
  <2>4. CASE ~Busy(b)
    <3>1. ~Busy(b)'
      BY <2>1, <2>2, <2>4, AfterAnswerType DEF Busy, Sending, Resend, IdleLoop
    <3> QED BY <1>5, <2>3, <2>4, <3>1
  <2>5. CASE Busy(b)
    <3>1. a \notin Unsettled
      <4> SUFFICES ASSUME a \in Unsettled PROVE FALSE
        OBVIOUS
      <4>1. DecisionOf(Current) \in unclear' /\ DecisionOf(Current).bot = b
        BY <2>1, <2>2, <2>5 DEF Answers, Unsettled, DecisionOf, Busy
      <4> QED BY <4>1 DEF Settled, OrdersOf
    <3>2. CASE loop' = IdleLoop
      <4>1. ~Busy(b)'
        BY <3>2 DEF Busy, Sending, IdleLoop
      <4>2. Cardinality(Held(b)) <= SymbolCap
        BY <1>2, <1>3, <1>4, <2>5, FitsOneMore
      <4>3. Cardinality(Held(b)') <= SymbolCap
        BY <1>3, <1>4, <2>3, <4>2, Fits
      <4> QED BY <4>1, <4>3
    <3>3. CASE \E t \in 1..Attempts, n \in 0..Alternatives : loop' = Resend(t, n) /\ a # "done"
      <4>1. wire' = wire \ {Current} /\ Current \in wire
        BY <2>1, <3>1, <3>3 DEF Answers, Unsettled
      <4>2. Current \notin open
        BY <4>1 DEF OrderInv, FateInv, Filled
      <4>3. Held(b)' \ {Current'} \subseteq Held(b) \ {Current}
        BY <2>2, <4>1, <4>2 DEF Held, OrdersOf
      <4>4. Busy(b)'
        BY <2>5, <3>3 DEF Busy, Sending, Resend
      <4> QED BY <1>6, <2>5, <4>3, <4>4
    <3> QED BY <2>1, <2>2, <3>2, <3>3, AfterAnswerType
  <2> QED BY <2>4, <2>5
<1> QED BY <1>8, <1>9, <1>10, <1>11, <1>12, <1>13, <1>14, <1>15, <1>16
        DEF Next, LoopStep, StopStep

\* A symbol never holds more positions and requests than its cap, as long as its
\* requests were answered with a fill or a refusal and its positions were read.
THEOREM CapHolds == Safe => []CapWhileSettled
<1>1. Init => CapInv
  <2> SUFFICES ASSUME Init PROVE CapInv
    OBVIOUS
  <2>1. \A b \in Bots : Held(b) = {} /\ ~Busy(b)
    BY DEF Init, Held, OrdersOf, Busy, Sending, IdleLoop
  <2> QED BY <2>1, FS_EmptySet, BotTradingAssumption DEF CapInv
<1>2. TypeOK /\ OrderInv /\ IsFiniteSet(wire) /\ IsFiniteSet(open) /\ CapInv /\ [Next]_vars => CapInv'
  BY CapStep
<1>3. TypeOK /\ IsFiniteSet(wire) /\ IsFiniteSet(open) /\ CapInv => CapWhileSettled
  <2> SUFFICES ASSUME IsFiniteSet(wire), IsFiniteSet(open), CapInv, NEW b \in Bots, Settled(b)
               PROVE  Cardinality(Held(b)) <= SymbolCap
    BY DEF CapWhileSettled, Settled, Held
  <2>1. Held(b) \subseteq wire \union open /\ IsFiniteSet(wire \union open)
    BY FS_Union DEF Held, OrdersOf
  <2>2. IsFiniteSet(Held(b)) /\ SymbolCap \in Int
    BY <2>1, FS_Subset, BotTradingAssumption
  <2> QED BY <2>2, FitsOneMore DEF CapInv
<1>4. Safe => []OrderInv
  BY OrderInit, OrderStep, TradingTypes, PTL DEF Safe
<1> QED BY <1>1, <1>2, <1>3, <1>4, FiniteMarket, TradingTypes, PTL DEF Safe
=============================================================================
