---------------------------- MODULE Rules_proofs ----------------------------
(***************************************************************************)
(* Proofs about the rules that decide whether, where and how far a         *)
(* position may go.  The components share no state, so each has an         *)
(* inductive invariant of its own, kept by its own steps and trivially by  *)
(* those of the others; the theorems at the end take what they need.       *)
(***************************************************************************)
EXTENDS Rules, FiniteSetTheorems, SequenceTheorems, TLAPS

-----------------------------------------------------------------------------
(* A step of the composition is a step of each component, or leaves it.    *)

LEMMA EntriesStep == [Next]_vars => [Entries!Next]_entryVars
  BY DEF Next, vars, entryVars

LEMMA GateStep == [Next]_vars => [Gate!Next]_gateVars
  BY DEF Next, vars, gateVars

LEMMA MarketStep == [Next]_vars => [Market!Next]_marketVars
  BY DEF Next, vars, marketVars

LEMMA StopsStep == [Next]_vars => [Stops!Next]_stopVars
  BY DEF Next, vars, stopVars

-----------------------------------------------------------------------------
(* Arithmetic.                                                             *)

LEMMA RoundedDown ==
  ASSUME NEW n \in Int, NEW m \in Int, m > 0
  PROVE  n \div m \in Int /\ (n \div m) * m <= n
  OBVIOUS

(* A share of a bonus is no more than the bonus.                           *)
LEMMA ShareOf ==
  ASSUME NEW bonus \in Nat, NEW part \in Int, NEW whole \in Int, whole > 0, part <= whole
  PROVE  (bonus * part) \div whole \in Int /\ (bonus * part) \div whole <= bonus
<1>1. bonus * part <= bonus * whole
  OBVIOUS
<1>2. ((bonus * part) \div whole) * whole <= bonus * whole
  BY <1>1, RoundedDown
<1> DEFINE q == (bonus * part) \div whole
<1>3. q \in Int
  BY RoundedDown
<1> HIDE DEF q
<1>4. q * whole <= bonus * whole => q <= bonus
  BY <1>3
<1> QED BY <1>2, <1>3, <1>4 DEF q

-----------------------------------------------------------------------------
(* The entry rules: types.                                                 *)

Held == [ticket : Entries!Tickets, direction : Entries!Directions, profit : Profits]
Seen == [ticket : Entries!Tickets, direction : Entries!Directions, last : Profits]
States == {Entries!ACTIVE, Entries!LOCKING, Entries!REACHED}

EntryTypes ==
    /\ pc \in {"idle", "manage", "bar", "enter"}
    /\ bar \in 0..MaxBar /\ day \in 1..MaxDay /\ target \in Targets
    /\ tracker \in [day : 0..MaxDay, state : States]
    /\ position = Entries!None \/ position \in Held
    /\ track = Entries!None \/ track \in Seen
    /\ until \in [Entries!Directions -> Nat] /\ lossBar \in [Entries!Directions -> Int]
    /\ pnls \in Seq(Int) /\ Len(pnls) <= History
    /\ trades \in Seq([day : 1..MaxDay, pnl : Profits]) /\ Len(trades) <= MaxClosed
    /\ pc = "enter" => signal.direction \in Entries!Directions /\ signal.nn \in Gains
    /\ lockedDay \in 0..MaxDay

LEMMA EntryConstants ==
    /\ CooldownBars \in Nat /\ History \in Nat /\ Buffer \in Nat /\ NewsAround \in Nat
    /\ MaxBar \in Nat /\ MaxDay \in Nat /\ MaxDay > 0 /\ MaxClosed \in Nat
    /\ Targets \subseteq Nat /\ Targets # {} /\ Profits \subseteq Int
  BY RulesAssumption DEF RulesAssumption, Entries!EntryAssumption

(* The newest trades of a list, no more of them than asked for.            *)
LEMMA NewestTrades ==
  ASSUME NEW seq \in Seq(Int), NEW n \in Nat
  PROVE  Entries!LastOf(seq, n) \in Seq(Int) /\ Len(Entries!LastOf(seq, n)) <= n
<1> DEFINE head == Entries!Larger(1, Len(seq) - n + 1)
<1>1. head \in Int /\ 1 <= head /\ Len(seq) - n + 1 <= head
  BY DEF Entries!Larger
<1>2. \A i \in head..Len(seq) : seq[i] \in Int
  BY <1>1
<1> HIDE DEF head
<1>3. /\ SubSeq(seq, head, Len(seq)) \in Seq(Int)
      /\ Len(SubSeq(seq, head, Len(seq))) =
           IF head <= Len(seq) THEN Len(seq) - head + 1 ELSE 0
  BY <1>1, <1>2, SubSeqProperties
<1>4. Len(SubSeq(seq, head, Len(seq))) <= n
  BY <1>1, <1>3
<1> QED BY <1>3, <1>4 DEF head, Entries!LastOf

LEMMA RecordedClose ==
  ASSUME EntryTypes, position # Entries!None, NEW saved \in BOOLEAN,
         saved => Len(trades) < MaxClosed, Entries!RecordClose(saved)
  PROVE  /\ position' = Entries!None
         /\ pnls' \in Seq(Int) /\ Len(pnls') <= History
         /\ trades' \in Seq([day : 1..MaxDay, pnl : Profits]) /\ Len(trades') <= MaxClosed
<1>1. position.profit \in Profits /\ position.profit \in Int
  BY EntryConstants DEF EntryTypes, Held
<1>2. pnls' = Entries!LastOf(Append(pnls, position.profit), History)
  BY DEF Entries!RecordClose
<1>3. Append(pnls, position.profit) \in Seq(Int)
  BY <1>1, AppendProperties DEF EntryTypes
<1>4. pnls' \in Seq(Int) /\ Len(pnls') <= History
  BY <1>2, <1>3, NewestTrades, EntryConstants
<1> DEFINE Row == [day : 1..MaxDay, pnl : Profits]
           row == [day |-> day, pnl |-> position.profit]
<1>5. row \in Row
  BY <1>1 DEF EntryTypes
<1>6. trades' = IF saved THEN Append(trades, row) ELSE trades
  BY DEF Entries!RecordClose
<1>7. trades \in Seq(Row) /\ Len(trades) \in Int /\ Len(trades) <= MaxClosed
  BY DEF EntryTypes
<1> HIDE DEF Row, row
<1>8. Append(trades, row) \in Seq(Row) /\ Len(Append(trades, row)) = Len(trades) + 1
  BY <1>5, <1>7, AppendProperties
<1>9. trades' \in Seq(Row) /\ Len(trades') <= MaxClosed
  BY <1>6, <1>7, <1>8, EntryConstants
<1> QED BY <1>4, <1>9 DEF Entries!RecordClose, Row

LEMMA TriedClose ==
  ASSUME EntryTypes, position # Entries!None, Entries!TryClose
  PROVE  /\ position' = Entries!None \/ position' = position
         /\ pnls' \in Seq(Int) /\ Len(pnls') <= History
         /\ trades' \in Seq([day : 1..MaxDay, pnl : Profits]) /\ Len(trades') <= MaxClosed
<1>1. CASE Entries!KeepPosition
  BY <1>1 DEF Entries!KeepPosition, EntryTypes
<1>2. CASE ~Entries!KeepPosition
  <2>1. PICK saved \in BOOLEAN : (saved => Len(trades) < MaxClosed) /\ Entries!RecordClose(saved)
    BY <1>2 DEF Entries!TryClose
  <2> QED BY <2>1, RecordedClose
<1> QED BY <1>1, <1>2

-----------------------------------------------------------------------------
(* The entry rules: the size of an entry.                                  *)

LEMMA SizingConstants ==
    /\ \A gain \in Gains : gain.confidence \in Int
    /\ Symbol.tickSize \in Int /\ Symbol.tickValue \in Int
    /\ Symbol.volMin \in Int /\ Symbol.volMax \in Int /\ Symbol.volStep \in Int
    /\ S.riskPermille \in Int /\ S.adxLow \in Int /\ S.adxHigh \in Int
    /\ S.scaleLow \in Int /\ S.scaleHigh \in Int /\ S.highTier \in Int /\ S.lowTier \in Int
    /\ S.minEdge \in Int /\ S.maxOvershoot \in Int /\ S.nnThreshold \in Int /\ S.maxBoost \in Int
    /\ S.equity \in Int /\ S.stopDistance \in Int /\ S.adx \in Int /\ S.aiConf \in Int
    /\ (S.stopDistance > 0 /\ Entries!Complete(Symbol)) =>
          Entries!LossPerUnit(S.stopDistance, Symbol) > 0
  BY RulesAssumption DEF RulesAssumption, Entries!EntryAssumption

(* The network's boost is never more than the setting allows.              *)
LEMMA BoostBounded ==
  ASSUME NEW nn \in Gains, NEW direction
  PROVE  LET factor == Entries!NNSizeFactor(nn, direction, S.nnThreshold, S.maxBoost)
         IN  factor \in Int /\ factor <= 100 + Entries!Larger(0, S.maxBoost)
<1> DEFINE part == Entries!Smaller(nn.confidence - S.nnThreshold, 100 - S.nnThreshold)
           bonus == (S.maxBoost * part) \div (100 - S.nnThreshold)
           factor == Entries!NNSizeFactor(nn, direction, S.nnThreshold, S.maxBoost)
<1>1. factor = 100 \/ (factor = 100 + bonus /\ S.maxBoost > 0 /\ S.nnThreshold < 100)
  BY SizingConstants DEF Entries!NNSizeFactor
<1>2. part \in Int /\ part <= 100 - S.nnThreshold
  BY SizingConstants DEF Entries!Smaller
<1> HIDE DEF part, factor
<1>3. ASSUME S.maxBoost > 0, S.nnThreshold < 100
      PROVE  bonus \in Int /\ bonus <= S.maxBoost
  BY <1>2, <1>3, ShareOf, SizingConstants
<1> HIDE DEF bonus
<1>4. factor \in Int /\ factor <= 100 + Entries!Larger(0, S.maxBoost)
  BY <1>1, <1>3, SizingConstants DEF Entries!Larger
<1> QED BY <1>4 DEF factor

(* A losing streak or a reduced rung halves the size, both quarter it, and *)
(* the boost lifts a full size only.                                       *)
LEMMA MultiplierBounds ==
  ASSUME NEW rung \in {50, 100}, NEW streakSizing \in BOOLEAN, signal.nn \in Gains
  PROVE  LET mult == Entries!Multiplier(rung, streakSizing)
             losing == Entries!LossesCounted(streakSizing) >= 2
         IN  /\ mult \in Int
             /\ (losing \/ rung < 100) => mult <= 50
             /\ (losing /\ rung < 100) => mult <= 25
             /\ mult <= 100 + Entries!Larger(0, S.maxBoost)
<1> DEFINE factor == Entries!NNSizeFactor(signal.nn, signal.direction, S.nnThreshold, S.maxBoost)
           streak50 == IF streakSizing THEN Entries!StreakMultiplier(pnls, 2, 50) ELSE 100
           base == (rung * streak50) \div 100
           losing == Entries!LossesCounted(streakSizing) >= 2
<1>1. streak50 = IF losing THEN 50 ELSE 100
  BY DEF Entries!StreakMultiplier, Entries!LossesCounted
<1>2. factor \in Int /\ factor <= 100 + Entries!Larger(0, S.maxBoost)
  BY BoostBounded
<1>3. Entries!Multiplier(rung, streakSizing) = Entries!ApplyNNBoost(base, factor)
  BY DEF Entries!Multiplier
<1> HIDE DEF factor, streak50, losing
<1>4. base = IF losing THEN IF rung = 100 THEN 50 ELSE 25 ELSE rung
  BY <1>1
<1>5. Entries!Larger(0, S.maxBoost) >= 0
  BY SizingConstants DEF Entries!Larger
<1> HIDE DEF base
<1>6. CASE base < 100 \/ factor <= 100
  <2>1. Entries!Multiplier(rung, streakSizing) = base
    BY <1>3, <1>6 DEF Entries!ApplyNNBoost
  <2> QED BY <2>1, <1>4, <1>5, SizingConstants DEF losing, Entries!Larger
<1>7. CASE ~(base < 100 \/ factor <= 100)
  <2>1. base = 100 /\ ~losing /\ rung = 100
    BY <1>4, <1>7
  <2>2. Entries!Multiplier(rung, streakSizing) = (100 * factor) \div 100
    BY <1>3, <1>7, <2>1 DEF Entries!ApplyNNBoost
  <2>3. Entries!Multiplier(rung, streakSizing) = factor
    BY <2>2, <1>2
  <2> QED BY <2>1, <2>3, <1>2 DEF losing
<1> QED BY <1>6, <1>7

LEMMA BudgetIsNumber ==
  ASSUME NEW mult \in Int
  PROVE  Entries!BudgetOf(S.equity, S.adx, S.aiConf, mult, S) \in Int
<1>1. Entries!RiskScale(S.adx, S) \in Int
  BY SizingConstants DEF Entries!RiskScale
<1>2. Entries!ConfidenceScale(S.aiConf, S) \in Int /\ Entries!Larger(0, mult) \in Int
  BY DEF Entries!ConfidenceScale, Entries!Larger
<1> DEFINE scale == IF S.dynamicRisk THEN Entries!RiskScale(S.adx, S) ELSE 100
<1>3. scale \in Int
  BY <1>1
<1> HIDE DEF scale
<1>4. scale * Entries!ConfidenceScale(S.aiConf, S) * Entries!Larger(0, mult) \in Int
  BY <1>2, <1>3
<1>5. S.equity * S.riskPermille \in Int
  BY SizingConstants
<1> QED BY <1>4, <1>5 DEF Entries!BudgetOf, scale

(* core/risk/sizing.py: a volume costs no more than the budget at the      *)
(* stop, unless it is the smallest one, and then no more than the allowed  *)
(* multiple of the budget.                                                 *)
LEMMA SizeKeepsBudget ==
  ASSUME NEW budget \in Int,
         LET size == Entries!SizeWithinBudget(budget, S.stopDistance, Symbol, S.maxOvershoot)
         IN  size.volume # Entries!NoVolume
  PROVE  LET size == Entries!SizeWithinBudget(budget, S.stopDistance, Symbol, S.maxOvershoot)
             risk == size.volume * Entries!LossPerUnit(S.stopDistance, Symbol)
         IN  \/ risk <= budget
             \/ /\ size.volume = Symbol.volMin
                /\ S.maxOvershoot > 0 => risk <= S.maxOvershoot * budget
<1> DEFINE loss == Entries!LossPerUnit(S.stopDistance, Symbol)
           steps == Entries!StepsWithin(budget, loss, Symbol)
           bought == Entries!Smaller(steps, Symbol.volMax)
           forced == bought < Symbol.volMin
           size == Entries!SizeWithinBudget(budget, S.stopDistance, Symbol, S.maxOvershoot)
<1>1. ~(S.stopDistance <= 0 \/ ~Entries!Complete(Symbol) \/ budget <= 0
          \/ Symbol.volMax < Symbol.volMin)
  BY DEF Entries!SizeWithinBudget
<1>2. loss \in Int /\ loss > 0
  <2>1. Symbol.tickSize > 0 /\ S.stopDistance > 0 /\ Entries!Complete(Symbol)
    BY <1>1, SizingConstants DEF Entries!Complete
  <2>2. loss = (S.stopDistance * Symbol.tickValue * 100000) \div Symbol.tickSize
    BY DEF Entries!LossPerUnit, Entries!Grains
  <2> QED BY <2>1, <2>2, SizingConstants, RoundedDown
<1>3. /\ size.volume = IF forced THEN Symbol.volMin ELSE bought
      /\ ~(forced /\ S.maxOvershoot > 0 /\ Symbol.volMin * loss > budget * S.maxOvershoot)
  <2> DEFINE volume == IF forced THEN Symbol.volMin ELSE bought
  <2>1. size = IF forced /\ S.maxOvershoot > 0 /\ volume * loss > budget * S.maxOvershoot
               THEN [volume |-> Entries!NoVolume, forced |-> TRUE]
               ELSE [volume |-> volume, forced |-> forced]
    BY <1>1 DEF Entries!SizeWithinBudget
  <2>2. size.volume # Entries!NoVolume
    OBVIOUS
  <2> HIDE DEF bought, loss, size
  <2> QED BY <2>1, <2>2
<1> HIDE DEF loss, size
<1>4. CASE forced
  <2>1. size.volume = Symbol.volMin
    BY <1>3, <1>4
  <2>2. S.maxOvershoot > 0 => ~(Symbol.volMin * loss > budget * S.maxOvershoot)
    BY <1>3, <1>4
  <2>3. S.maxOvershoot > 0 => size.volume * loss <= S.maxOvershoot * budget
    BY <2>1, <2>2, <1>2, SizingConstants
  <2> QED BY <2>1, <2>3 DEF loss, size
<1>5. CASE ~forced
  <2>1. Symbol.volStep \in Int /\ Symbol.volStep > 0
    BY <1>1, SizingConstants DEF Entries!Complete
  <2> DEFINE n == loss * Symbol.volStep
             q == budget \div n
  <2>2. n \in Int /\ n > 0
    BY <1>2, <2>1
  <2> HIDE DEF n
  <2>3. q \in Int /\ q * n <= budget
    BY <2>2, RoundedDown
  <2>4. steps = q * Symbol.volStep
    BY DEF Entries!StepsWithin, n
  <2> HIDE DEF q
  <2>5. steps * loss = q * n
    BY <2>4, <2>3, <2>1, <1>2 DEF n
  <2>6. steps \in Int
    BY <2>4, <2>3, <2>1
  <2> HIDE DEF steps
  <2>7. bought \in Int /\ bought <= steps
    BY <2>6, SizingConstants DEF Entries!Smaller
  <2>8. size.volume = bought
    BY <1>3, <1>5
  <2> HIDE DEF bought
  <2>9. bought * loss <= steps * loss
    BY <2>6, <2>7, <1>2
  <2>10. size.volume * loss <= budget
    BY <2>3, <2>5, <2>6, <2>7, <2>8, <2>9, <1>2, <2>2
  <2> QED BY <2>10 DEF loss, size
<1> QED BY <1>4, <1>5

-----------------------------------------------------------------------------
(* The entry rules: the inductive invariant.                               *)

(* A day seen to reach its target is one the tracker is still locked for.  *)
LockKept ==
    /\ lockedDay <= day
    /\ lockedDay = day => tracker.day = day /\ tracker.state # Entries!ACTIVE

(* A loss that is remembered pauses its direction for as long as it must;  *)
(* the bar it was noted on is over before an entry is considered.          *)
PauseKept ==
    \A d \in Entries!Directions :
        /\ lossBar[d] <= bar /\ (pc = "enter" => lossBar[d] < bar)
        /\ \/ lossBar[d] = -CooldownBars - 1
           \/ CooldownBars = 0
           \/ lossBar[d] >= 0 /\ until[d] >= lossBar[d] + CooldownBars

EntrySafe ==
    Entries!LosingDirectionPauses /\ Entries!NoEntryAfterLock /\ Entries!EntryRiskIsBounded

EntryInv == EntryTypes /\ LockKept /\ PauseKept /\ EntrySafe

(* No step but Enter makes an entry.                                       *)
LEMMA NoNewEntry ==
  ASSUME EntrySafe, entry' = entry \/ entry' = Entries!None
  PROVE  EntrySafe'
  BY DEF EntrySafe, Entries!LosingDirectionPauses, Entries!NoEntryAfterLock,
     Entries!EntryRiskIsBounded

LEMMA EntryInit == Entries!Init => EntryInv
<1> SUFFICES ASSUME Entries!Init PROVE EntryInv
  OBVIOUS
<1>1. /\ pc = "idle" /\ bar = 0 /\ day = 1 /\ target \in Targets
      /\ tracker = [day |-> 0, state |-> Entries!ACTIVE]
      /\ position = Entries!None /\ track = Entries!None
      /\ until = [d \in Entries!Directions |-> 0]
      /\ pnls = <<>> /\ trades = <<>> /\ entry = Entries!None
      /\ lossBar = [d \in Entries!Directions |-> -CooldownBars - 1] /\ lockedDay = 0
  BY EntryConstants DEF Entries!Init
<1>2. EntryTypes
  BY <1>1, EntryConstants DEF EntryTypes, States
<1>3. LockKept
  BY <1>1 DEF LockKept
<1>4. PauseKept
  BY <1>1, EntryConstants DEF PauseKept
<1>5. EntrySafe
  BY <1>1 DEF EntrySafe, Entries!LosingDirectionPauses, Entries!NoEntryAfterLock,
     Entries!EntryRiskIsBounded
<1> QED BY <1>2, <1>3, <1>4, <1>5 DEF EntryInv

LEMMA EntryBeginStep ==
  ASSUME EntryInv, Entries!BeginStep
  PROVE  EntryInv'
<1> DEFINE net == Entries!RealizedToday + Entries!Floating
           open0 == position # Entries!None
<1>1. /\ pc' = "manage" /\ entry' = Entries!None
      /\ UNCHANGED <<bar, day, target, track, until, lossBar>>
  BY DEF Entries!BeginStep
<1>2. \/ Entries!KeepPosition /\ UNCHANGED <<tracker, lockedDay>>
      \/ /\ tracker' = Entries!TrackerAfter(net, open0)
         /\ lockedDay' = IF net >= target THEN day ELSE lockedDay
         /\ Entries!KeepPosition \/ (position # Entries!None /\ Entries!TryClose)
  BY DEF Entries!BeginStep
<1> HIDE DEF net, open0
<1>3. /\ position' = Entries!None \/ position' = position
      /\ pnls' \in Seq(Int) /\ Len(pnls') <= History
      /\ trades' \in Seq([day : 1..MaxDay, pnl : Profits]) /\ Len(trades') <= MaxClosed
  <2>1. CASE Entries!KeepPosition
    BY <2>1 DEF Entries!KeepPosition, EntryInv, EntryTypes
  <2>2. CASE position # Entries!None /\ Entries!TryClose
    BY <2>2, TriedClose DEF EntryInv
  <2> QED BY <1>2, <2>1, <2>2
<1>4. /\ tracker \in [day : 0..MaxDay, state : States] /\ day \in 1..MaxDay
      /\ lockedDay \in 0..MaxDay
  BY DEF EntryInv, EntryTypes
<1>5. ASSUME tracker' = Entries!TrackerAfter(net, open0)
      PROVE  /\ tracker' \in [day : 0..MaxDay, state : States] /\ tracker'.day = day
             /\ net >= target => tracker'.state # Entries!ACTIVE
             /\ (tracker.day = day /\ tracker.state # Entries!ACTIVE)
                  => tracker'.state # Entries!ACTIVE
  BY <1>4, <1>5, EntryConstants DEF Entries!TrackerAfter, States, Entries!ACTIVE, Entries!LOCKING,
     Entries!REACHED
<1>6. tracker' \in [day : 0..MaxDay, state : States] /\ lockedDay' \in 0..MaxDay
  BY <1>2, <1>4, <1>5, EntryConstants
<1>7. EntryTypes'
  BY <1>1, <1>3, <1>6 DEF EntryInv, EntryTypes
<1>8. LockKept'
  <2>1. lockedDay <= day /\ lockedDay' = day' => day' = day
    BY <1>1
  <2>2. lockedDay' <= day'
    BY <1>1, <1>2, <1>4 DEF EntryInv, LockKept
  <2> QED BY <1>1, <1>2, <1>5, <2>2 DEF EntryInv, LockKept
<1>9. PauseKept'
  BY <1>1 DEF EntryInv, PauseKept
<1> QED BY <1>1, <1>7, <1>8, <1>9, NoNewEntry DEF EntryInv

LEMMA EntryManage ==
  ASSUME EntryInv, Entries!Manage
  PROVE  EntryInv'
<1>1. /\ pc' = "bar"
      /\ track' = IF position = Entries!None THEN Entries!None
                  ELSE [ticket |-> position.ticket, direction |-> position.direction,
                        last |-> position.profit]
      /\ UNCHANGED <<bar, day, target, tracker, position, pnls, trades, signal, entry, lockedDay>>
  BY DEF Entries!Manage
<1>2. \/ UNCHANGED <<until, lossBar>>
      \/ /\ track # Entries!None
         /\ until' = [until EXCEPT ![track.direction] =
                        IF CooldownBars = 0 THEN @ ELSE Entries!PausedUntil(@)]
         /\ lossBar' = [lossBar EXCEPT ![track.direction] = bar]
  BY DEF Entries!Manage
<1>3. /\ bar \in Nat /\ until \in [Entries!Directions -> Nat]
      /\ lossBar \in [Entries!Directions -> Int]
      /\ track # Entries!None => track.direction \in Entries!Directions
  BY EntryConstants DEF EntryInv, EntryTypes, Seen
<1>4. \A u \in Nat : /\ Entries!PausedUntil(u) \in Nat
                     /\ Entries!PausedUntil(u) >= bar + CooldownBars
  BY <1>3, EntryConstants DEF Entries!PausedUntil, Entries!Larger
<1>5. until' \in [Entries!Directions -> Nat] /\ lossBar' \in [Entries!Directions -> Int]
  BY <1>2, <1>3, <1>4
<1>6. track' = Entries!None \/ track' \in Seen
  BY <1>1 DEF EntryInv, EntryTypes, Held, Seen
<1>7. EntryTypes'
  BY <1>1, <1>5, <1>6 DEF EntryInv, EntryTypes
<1>8. LockKept'
  BY <1>1 DEF EntryInv, LockKept
<1>9. ASSUME NEW d \in Entries!Directions
      PROVE  \/ until'[d] = until[d] /\ lossBar'[d] = lossBar[d]
             \/ lossBar'[d] = bar /\ (CooldownBars # 0 => until'[d] >= bar + CooldownBars)
  BY <1>2, <1>3, <1>4
<1>10. PauseKept'
  BY <1>1, <1>3, <1>9 DEF EntryInv, PauseKept
<1> QED BY <1>1, <1>7, <1>8, <1>10, NoNewEntry DEF EntryInv

LEMMA EntryCloseBar ==
  ASSUME EntryInv, Entries!CloseBar
  PROVE  EntryInv'
<1>1. UNCHANGED <<tracker, track, until, entry, lossBar, lockedDay, day, target>>
  BY DEF Entries!CloseBar
<1>2. \/ pc' = "idle" /\ Entries!KeepPosition /\ UNCHANGED <<bar, signal>>
      \/ /\ bar < MaxBar /\ bar' = bar + 1
         /\ \/ pc' = "idle" /\ UNCHANGED signal
            \/ /\ pc' = "enter"
               /\ \E d \in Entries!Directions, nn \in Gains : signal' = [direction |-> d, nn |-> nn]
         /\ Entries!KeepPosition \/ (position # Entries!None /\ Entries!TryClose)
  BY DEF Entries!CloseBar
<1>3. /\ position' = Entries!None \/ position' = position
      /\ pnls' \in Seq(Int) /\ Len(pnls') <= History
      /\ trades' \in Seq([day : 1..MaxDay, pnl : Profits]) /\ Len(trades') <= MaxClosed
  <2>1. CASE Entries!KeepPosition
    BY <2>1 DEF Entries!KeepPosition, EntryInv, EntryTypes
  <2>2. CASE position # Entries!None /\ Entries!TryClose
    BY <2>2, TriedClose DEF EntryInv
  <2> QED BY <1>2, <2>1, <2>2
<1>4. bar \in 0..MaxBar /\ lossBar \in [Entries!Directions -> Int]
  BY DEF EntryInv, EntryTypes
<1>5. /\ bar' \in 0..MaxBar /\ bar <= bar' /\ (pc' = "enter" => bar < bar')
      /\ pc' \in {"idle", "enter"}
  BY <1>2, <1>4, EntryConstants
<1>6. pc' = "enter" => signal'.direction \in Entries!Directions /\ signal'.nn \in Gains
  BY <1>2
<1>7. EntryTypes'
  BY <1>1, <1>3, <1>5, <1>6 DEF EntryInv, EntryTypes
<1>8. LockKept'
  BY <1>1 DEF EntryInv, LockKept
<1>9. \A d \in Entries!Directions : lossBar'[d] = lossBar[d] /\ until'[d] = until[d]
                                    /\ lossBar[d] \in Int
  BY <1>1, <1>4
<1>10. PauseKept'
  BY <1>4, <1>5, <1>9 DEF EntryInv, PauseKept
<1> QED BY <1>1, <1>7, <1>8, <1>10, NoNewEntry DEF EntryInv

(* What an entry is allowed under is what the theorems say of it.          *)
LEMMA EntryEnter ==
  ASSUME EntryInv, Entries!Enter
  PROVE  EntryInv'
<1>1. /\ pc = "enter" /\ pc' = "idle"
      /\ UNCHANGED <<bar, tracker, track, until, pnls, trades, signal, lossBar, lockedDay,
                     day, target, dealNet>>
  BY DEF Entries!Enter, Entries!world
<1>2. /\ signal.direction \in Entries!Directions /\ signal.nn \in Gains /\ bar \in Nat
      /\ until \in [Entries!Directions -> Nat] /\ lossBar \in [Entries!Directions -> Int]
  BY <1>1, EntryConstants DEF EntryInv, EntryTypes
<1>3. PICK rung \in {0, 50, 100}, nnRequired \in BOOLEAN, streakSizing \in BOOLEAN,
           filled \in BOOLEAN, opening \in Profits :
        LET mult == Entries!Multiplier(rung, streakSizing)
            size == Entries!SizeLot(S.equity, S.stopDistance, Symbol, S.adx, S.aiConf, mult, S)
        IN  IF Entries!EntryAllowed(rung, nnRequired) /\ size.volume # Entries!NoVolume /\ filled
            THEN /\ position' = [ticket |-> Entries!NewTicket, direction |-> signal.direction,
                                 profit |-> opening]
                 /\ entry' = [direction |-> signal.direction, rung |-> rung, mult |-> mult,
                              volume |-> size.volume, losses |-> Entries!LossesCounted(streakSizing),
                              sinceLoss |-> bar - lossBar[signal.direction],
                              locked |-> lockedDay = day]
            ELSE UNCHANGED <<position, entry>>
  BY DEF Entries!Enter
<1> DEFINE mult == Entries!Multiplier(rung, streakSizing)
           size == Entries!SizeLot(S.equity, S.stopDistance, Symbol, S.adx, S.aiConf, mult, S)
           Entered == Entries!EntryAllowed(rung, nnRequired) /\ size.volume # Entries!NoVolume
                        /\ filled
<1>4. position' = Entries!None \/ position' = position
        \/ position' = [ticket |-> Entries!NewTicket, direction |-> signal.direction,
                        profit |-> opening]
  BY <1>3
<1>5. EntryTypes'
  <2>1. Entries!NewTicket \in Entries!Tickets
    BY DEF Entries!NewTicket, Entries!Tickets
  <2>2. position' = Entries!None \/ position' \in Held
    BY <1>2, <1>4, <2>1 DEF EntryInv, EntryTypes, Held
  <2> QED BY <1>1, <2>2 DEF EntryInv, EntryTypes
<1>6. LockKept' /\ PauseKept'
  BY <1>1 DEF EntryInv, LockKept, PauseKept
<1>7. CASE ~Entered
  BY <1>3, <1>5, <1>6, <1>7, NoNewEntry DEF EntryInv
<1>8. CASE Entered
  <2>1. /\ entry'.rung = rung /\ entry'.mult = mult /\ entry'.volume = size.volume
        /\ entry'.losses = Entries!LossesCounted(streakSizing)
        /\ entry'.sinceLoss = bar - lossBar[signal.direction]
    BY <1>3, <1>8
  <2>2. entry'.locked = (lockedDay = day)
    <3> DEFINE rest == [direction |-> signal.direction, rung |-> rung, mult |-> mult,
                        volume |-> size.volume, losses |-> Entries!LossesCounted(streakSizing),
                        sinceLoss |-> bar - lossBar[signal.direction],
                        locked |-> lockedDay = day]
    <3>1. entry' = rest
      BY <1>3, <1>8
    <3>2. rest.locked = (lockedDay = day)
      BY Zenon
    <3> QED BY <3>1, <3>2
  <2>3. rung \in {50, 100} /\ tracker.state = Entries!ACTIVE
        /\ Entries!CooldownLeft(signal.direction) = 0
    BY <1>8 DEF Entries!EntryAllowed
  <2>4. Entries!NoEntryAfterLock'
    BY <2>2, <2>3 DEF EntryInv, LockKept, Entries!NoEntryAfterLock
  <2>5. entry'.sinceLoss > CooldownBars
    <3> DEFINE d == signal.direction
    <3>1. until[d] = 0 \/ until[d] - bar + 1 <= 0
      BY <1>2, <2>3 DEF Entries!CooldownLeft, Entries!Larger
    <3>2. lossBar[d] < bar /\ until[d] \in Nat /\ lossBar[d] \in Int
          /\ (lossBar[d] = -CooldownBars - 1 \/ CooldownBars = 0
                \/ (lossBar[d] >= 0 /\ until[d] >= lossBar[d] + CooldownBars))
      BY <1>1, <1>2 DEF EntryInv, PauseKept
    <3> HIDE DEF d
    <3>3. bar - lossBar[d] > CooldownBars
      BY <1>2, <3>1, <3>2, EntryConstants
    <3> QED BY <2>1, <3>3 DEF d
  <2>6. Entries!LosingDirectionPauses'
    BY <2>5 DEF Entries!LosingDirectionPauses
  <2>7. /\ mult \in Int
        /\ (entry'.losses >= 2 \/ entry'.rung < 100) => mult <= 50
        /\ (entry'.losses >= 2 /\ entry'.rung < 100) => mult <= 25
        /\ mult <= 100 + Entries!Larger(0, S.maxBoost)
    BY <1>2, <2>1, <2>3, MultiplierBounds
  <2> DEFINE budget == Entries!BudgetOf(S.equity, S.adx, S.aiConf, mult, S)
  <2>8. size = Entries!SizeWithinBudget(budget, S.stopDistance, Symbol, S.maxOvershoot)
    BY DEF Entries!SizeLot
  <2>9. size.volume # Entries!NoVolume
    BY <1>8
  <2> HIDE DEF mult, size
  <2>10. budget \in Int
    BY <2>7, BudgetIsNumber
  <2> HIDE DEF budget
  <2>11. LET risk == size.volume * Entries!LossPerUnit(S.stopDistance, Symbol)
         IN  \/ risk <= budget
             \/ /\ size.volume = Symbol.volMin
                /\ S.maxOvershoot > 0 => risk <= S.maxOvershoot * budget
    BY <2>8, <2>9, <2>10, SizeKeepsBudget
  <2>12. Entries!EntryRiskIsBounded'
    BY <2>1, <2>7, <2>11 DEF budget, Entries!EntryRiskIsBounded
  <2> QED BY <1>5, <1>6, <2>4, <2>6, <2>12 DEF EntryInv, EntrySafe
<1> QED BY <1>7, <1>8

(* The world moves: none of it makes an entry or forgets a pause.          *)
LEMMA EntryWorld ==
  ASSUME EntryInv, \/ Entries!BrokerCloses \/ Entries!MarketMoves \/ Entries!NextDay
                   \/ Entries!DashboardEditsTarget
  PROVE  EntryInv'
<1>1. /\ UNCHANGED <<pc, bar, tracker, track, until, pnls, trades, signal, entry, lossBar,
                     lockedDay>>
      /\ target' \in Targets
      /\ day' = day \/ (day < MaxDay /\ day' = day + 1)
      /\ \/ position' = position \/ position' = Entries!None
         \/ /\ position # Entries!None
            /\ \E p \in Profits : position' = [position EXCEPT !.profit = p]
  BY DEF EntryInv, EntryTypes, Entries!BrokerCloses, Entries!MarketMoves, Entries!NextDay,
     Entries!DashboardEditsTarget, Entries!world
<1>2. position' = Entries!None \/ position' \in Held
  BY <1>1 DEF EntryInv, EntryTypes, Held
<1>3. day \in 1..MaxDay /\ day' \in 1..MaxDay
  BY <1>1, EntryConstants DEF EntryInv, EntryTypes
<1>4. EntryTypes'
  BY <1>1, <1>2, <1>3 DEF EntryInv, EntryTypes
<1>5. LockKept'
  <2>1. day' = day \/ lockedDay < day'
    BY <1>1, EntryConstants DEF EntryInv, EntryTypes, LockKept
  <2>2. lockedDay \in Int /\ lockedDay <= day /\ day' >= day
    BY <1>1, EntryConstants DEF EntryInv, EntryTypes, LockKept
  <2> QED BY <1>1, <1>3, <2>1, <2>2 DEF EntryInv, LockKept
<1>6. PauseKept'
  BY <1>1 DEF EntryInv, PauseKept
<1> QED BY <1>1, <1>4, <1>5, <1>6, NoNewEntry DEF EntryInv

LEMMA EntryRestart ==
  ASSUME EntryInv, Entries!Restart
  PROVE  EntryInv'
<1>1. /\ pc' = "idle" /\ bar' = 0 /\ tracker' = [day |-> 0, state |-> Entries!ACTIVE]
      /\ track' = Entries!None /\ until' = [d \in Entries!Directions |-> 0]
      /\ entry' = Entries!None /\ lockedDay' = 0
      /\ lossBar' = [d \in Entries!Directions |-> -CooldownBars - 1]
      /\ UNCHANGED <<trades, position, day, target>>
  BY DEF Entries!Restart
<1>2. pnls' = Entries!LastOf([i \in 1..Len(trades) |-> trades[i].pnl], History)
  BY DEF Entries!Restart
<1>3. [i \in 1..Len(trades) |-> trades[i].pnl] \in Seq(Int)
  <2> DEFINE Row == [day : 1..MaxDay, pnl : Profits]
  <2>1. trades \in Seq(Row)
    BY DEF EntryInv, EntryTypes
  <2> HIDE DEF Row
  <2>2. Len(trades) \in Nat /\ \A i \in 1..Len(trades) : trades[i] \in Row
    BY <2>1
  <2>3. \A row \in Row : row.pnl \in Int
    BY EntryConstants DEF Row
  <2>4. \A i \in 1..Len(trades) : trades[i].pnl \in Int
    BY <2>2, <2>3
  <2> QED BY <2>2, <2>4
<1>4. pnls' \in Seq(Int) /\ Len(pnls') <= History
  BY <1>2, <1>3, NewestTrades, EntryConstants
<1>5. EntryTypes'
  <2>1. tracker' \in [day : 0..MaxDay, state : States]
    BY <1>1, EntryConstants DEF States
  <2>2. until' \in [Entries!Directions -> Nat] /\ lossBar' \in [Entries!Directions -> Int]
    BY <1>1, EntryConstants
  <2> QED BY <1>1, <1>4, <2>1, <2>2, EntryConstants DEF EntryInv, EntryTypes
<1>6. LockKept'
  BY <1>1 DEF EntryInv, EntryTypes, LockKept
<1>7. PauseKept'
  BY <1>1, EntryConstants DEF PauseKept
<1> QED BY <1>1, <1>5, <1>6, <1>7, NoNewEntry DEF EntryInv

LEMMA EntryInductive == EntryInv /\ [Entries!Next]_entryVars => EntryInv'
<1> SUFFICES ASSUME EntryInv, [Entries!Next]_entryVars PROVE EntryInv'
  OBVIOUS
<1>1. CASE UNCHANGED entryVars
  BY <1>1 DEF entryVars, EntryInv, EntryTypes, LockKept, PauseKept, EntrySafe,
     Entries!LosingDirectionPauses, Entries!NoEntryAfterLock, Entries!EntryRiskIsBounded
<1>2. CASE Entries!BeginStep
  BY <1>2, EntryBeginStep
<1>3. CASE Entries!Manage
  BY <1>3, EntryManage
<1>4. CASE Entries!CloseBar
  BY <1>4, EntryCloseBar
<1>5. CASE Entries!Enter
  BY <1>5, EntryEnter
<1>6. CASE \/ Entries!BrokerCloses \/ Entries!MarketMoves \/ Entries!NextDay
           \/ Entries!DashboardEditsTarget
  BY <1>6, EntryWorld
<1>7. CASE Entries!Restart
  BY <1>7, EntryRestart
<1> QED BY <1>1, <1>2, <1>3, <1>4, <1>5, <1>6, <1>7 DEF Entries!Next

-----------------------------------------------------------------------------
(* The risk gate.                                                          *)

Asked == {"stop", "count", "cooldown", "done"}
CallFields == {"step", "verdict", "proposal", "open", "margin", "equity", "daily", "week", "peak",
               "lot"}
CallOK(k) == /\ k.step \in Asked \cup {"none"}
             /\ k.step # "none" => DOMAIN k = CallFields /\ k.open \in Nat

(* What the engine remembers.                                              *)
Readings ==
    /\ now \in 0..MaxNow /\ stop \in BOOLEAN
    /\ peak \in Nat /\ sessionStart \in Nat /\ dailyStart \in Nat /\ weekStart \in Nat
    /\ dailyDate \in Int /\ weekDate \in Int /\ tradeDate \in Int
    /\ streak \in Nat /\ cooldownUntil \in Nat /\ tradesToday \in Nat
    /\ DOMAIN limits = DOMAIN Limits
    /\ \A k \in DOMAIN Ranges : limits[k] \in Ranges[k]

Stages == {"idle", "positions", "approve", "send", "sent", "filled"}

(* What the threads are at; one that asks has a symbol it asks about.      *)
Asking ==
    /\ stage \in [Callers -> Stages]
    /\ DOMAIN call = Callers /\ DOMAIN plan = Callers
    /\ \A c \in Callers :
         /\ CallOK(call[c])
         /\ stage[c] = "approve" <=> call[c].step # "none"
         /\ stage[c] # "idle" => plan[c].symbol \in Symbols
    /\ open \in [Symbols -> 0..MaxPositions]
    /\ late \in [Symbols -> 0..MaxLate] /\ strays \in [Symbols -> Nat]

(* A call that got past the kill switch and has not been refused.          *)
Cleared(k) == k.step \in {"count", "cooldown"} \/ (k.step = "done" /\ k.verdict = "APPROVED")

(* A thread that sent an order under the switch has no other left that was *)
(* cleared before it, and can get none while it is on.                     *)
SwitchKept ==
    /\ sentInStop \in [Callers -> 0..1]
    /\ \A c \in Callers : /\ ~stop => sentInStop[c] = 0
                          /\ sentInStop[c] # 0 => ~Cleared(call[c]) /\ stage[c] # "send"

Top == CHOOSE most \in Ranges["maxOpen"] : \A cap \in Ranges["maxOpen"] : cap <= most

(* The threads that asked about a symbol when it was below the largest     *)
(* cap, or whose order for it is on its way.  Positions and these threads  *)
(* together stay within the cap, the other threads and the strays: a       *)
(* thread that joins saw fewer positions than the cap, and one whose order *)
(* opens a position leaves.                                                *)
Claims(s) == {c \in Callers : /\ plan[c].symbol = s
                              /\ \/ stage[c] \in {"send", "sent"}
                                 \/ call[c].step # "none" /\ call[c].open < Top}

CapKept ==
    /\ \A c \in Callers : Cleared(call[c]) => call[c].open < Top
    /\ \A s \in Symbols :
          open[s] + Cardinality(Claims(s)) <= Top + Cardinality(Callers) - 1 + strays[s]

GateInv == Readings /\ Asking /\ SwitchKept /\ CapKept

(* The component counts with its own instance of the library.              *)
LEMMA SameCounting ==
    \A T : (Gate!IsFiniteSet(T) <=> IsFiniteSet(T)) /\ Gate!Cardinality(T) = Cardinality(T)
<1>1. \A T : Gate!IsFiniteSet(T) <=> IsFiniteSet(T)
  BY DEF Gate!IsFiniteSet, IsFiniteSet
<1>2. \A T : Gate!Cardinality(T) = Cardinality(T)
  BY DEF Gate!Cardinality, Cardinality
<1> QED BY <1>1, <1>2

LEMMA GateConstants ==
    /\ Callers # {} /\ IsFiniteSet(Callers)
    /\ TicksPerDay \in Nat \ {0} /\ MaxNow \in Nat /\ CooldownTicks \in Nat
    /\ Equities \subseteq Nat /\ Pnls \subseteq Int
    /\ {"maxOpen", "maxLosses"} \subseteq DOMAIN Ranges
    /\ \A k \in DOMAIN Ranges :
          k \in DOMAIN Limits /\ Limits[k] \in Ranges[k] /\ Ranges[k] \subseteq Nat
    /\ MaxPositions \in Nat /\ MaxLate \in Nat
<1>1. Gate!EngineAssumption /\ {MaxPositions, MaxLate} \subseteq Nat
  BY RulesAssumption DEF RulesAssumption, Gate!GateAssumption
<1>2. Callers # {} /\ IsFiniteSet(Callers) /\ Equities \subseteq Nat /\ Pnls \subseteq Int
  BY <1>1, SameCounting DEF Gate!EngineAssumption
<1>3. TicksPerDay \in Nat \ {0} /\ MaxNow \in Nat /\ CooldownTicks \in Nat
  BY <1>1 DEF Gate!EngineAssumption
<1>4. /\ {"maxOpen", "maxLosses"} \subseteq DOMAIN Ranges
      /\ \A k \in DOMAIN Ranges :
            k \in DOMAIN Limits /\ Limits[k] \in Ranges[k] /\ Ranges[k] \subseteq Nat
  BY <1>1 DEF Gate!EngineAssumption
<1> QED BY <1>1, <1>2, <1>3, <1>4

LEMMA TopIsLargest ==
    Top \in Ranges["maxOpen"] /\ Top \in Nat /\ \A cap \in Ranges["maxOpen"] : cap <= Top
<1>1. \E most \in Ranges["maxOpen"] : \A cap \in Ranges["maxOpen"] : cap <= most
  BY RulesAssumption DEF RulesAssumption, Gate!GateAssumption, Gate!EngineAssumption
<1>2. Top \in Ranges["maxOpen"] /\ \A cap \in Ranges["maxOpen"] : cap <= Top
  BY <1>1 DEF Top
<1> QED BY <1>2, GateConstants

LEMMA ClaimsAreFew ==
    \A s : /\ IsFiniteSet(Claims(s)) /\ Cardinality(Claims(s)) \in Nat
           /\ Cardinality(Claims(s)) <= Cardinality(Callers)
<1> TAKE s
<1>1. Claims(s) \subseteq Callers
  BY DEF Claims
<1>2. IsFiniteSet(Claims(s)) /\ Cardinality(Claims(s)) <= Cardinality(Callers)
  BY <1>1, GateConstants, FS_Subset
<1> QED BY <1>2, FS_CardinalityType

LEMMA ThreadsAreSome == Cardinality(Callers) \in Nat /\ Cardinality(Callers) >= 1
<1>1. Cardinality(Callers) \in Nat /\ Cardinality(Callers) # 0
  BY GateConstants, FS_CardinalityType, FS_EmptySet
<1> QED BY <1>1

LEMMA GateInit == Gate!Init => GateInv
<1> SUFFICES ASSUME Gate!Init PROVE GateInv
  OBVIOUS
<1>1. /\ now = 0 /\ stop = FALSE /\ peak = 0 /\ sessionStart = 0
      /\ dailyStart = 0 /\ dailyDate = -1 /\ weekStart = 0 /\ weekDate = -1
      /\ streak = 0 /\ cooldownUntil = 0 /\ tradesToday = 0 /\ tradeDate = -1
      /\ limits = Limits
  BY DEF Gate!Init, Gate!EngineInit, Gate!Never
<1>2. /\ call = [c \in Callers |-> Gate!NoCall] /\ stage = [c \in Callers |-> "idle"]
      /\ plan = [c \in Callers |-> Gate!NoPlan] /\ open = [s \in Symbols |-> 0]
      /\ late = [s \in Symbols |-> 0] /\ strays = [s \in Symbols |-> 0]
      /\ sentInStop = [c \in Callers |-> 0]
  BY DEF Gate!Init, Gate!EngineInit
<1>3. Readings
  <2>1. DOMAIN limits = DOMAIN Limits /\ \A k \in DOMAIN Ranges : limits[k] \in Ranges[k]
    BY <1>1, GateConstants
  <2>2. now \in 0..MaxNow
    BY <1>1, GateConstants
  <2>3. stop \in BOOLEAN
    BY <1>1, Zenon
  <2> QED BY <1>1, <2>1, <2>2, <2>3 DEF Readings
<1>4. \A c \in Callers : call[c].step = "none"
  BY <1>2 DEF Gate!NoCall
<1>5. Asking
  BY <1>2, <1>4, GateConstants DEF Asking, CallOK, Stages
<1>6. SwitchKept
  BY <1>2, <1>4 DEF SwitchKept, Cleared
<1>7. CapKept
  <2>1. \A s \in Symbols : open[s] = 0 /\ strays[s] = 0
    BY <1>2
  <2>2. \A s : Cardinality(Claims(s)) = 0
    <3>1. \A s : Claims(s) = {}
      BY <1>2, <1>4 DEF Claims
    <3> QED BY <3>1, FS_EmptySet
  <2>3. \A s \in Symbols :
          open[s] + Cardinality(Claims(s)) <= Top + Cardinality(Callers) - 1 + strays[s]
    BY <2>1, <2>2, TopIsLargest, ThreadsAreSome
  <2> QED BY <1>4, <2>3 DEF CapKept, Cleared
<1> QED BY <1>3, <1>5, <1>6, <1>7 DEF GateInv

(* Steps that leave the threads, or the switch, alone.                     *)
LEMMA CapUnmoved ==
  ASSUME CapKept, UNCHANGED <<stage, call, plan, open, strays>>
  PROVE  CapKept'
<1>1. \A s : Claims(s)' = Claims(s)
  BY DEF Claims
<1> QED BY <1>1 DEF CapKept

LEMMA FewerClaims ==
  ASSUME CapKept, UNCHANGED <<open, strays>>, \A q : Claims(q)' \subseteq Claims(q),
         open \in [Symbols -> 0..MaxPositions], strays \in [Symbols -> Nat],
         \A d \in Callers : Cleared(call'[d]) => call'[d].open < Top
  PROVE  CapKept'
<1>1. ASSUME NEW q \in Symbols
      PROVE  open[q] + Cardinality(Claims(q)') <= Top + Cardinality(Callers) - 1 + strays[q]
  <2>1. IsFiniteSet(Claims(q)) /\ Claims(q)' \subseteq Claims(q)
    BY ClaimsAreFew
  <2>2. IsFiniteSet(Claims(q)') /\ Cardinality(Claims(q)') <= Cardinality(Claims(q))
    BY <2>1, FS_Subset
  <2>3. Cardinality(Claims(q)') \in Nat /\ Cardinality(Claims(q)) \in Nat
    BY <2>1, <2>2, FS_CardinalityType
  <2>4. open[q] \in Int /\ strays[q] \in Int
    BY GateConstants
  <2>5. open[q] + Cardinality(Claims(q)) <= Top + Cardinality(Callers) - 1 + strays[q]
    BY DEF CapKept
  <2> QED BY <2>2, <2>3, <2>4, <2>5, TopIsLargest, ThreadsAreSome
<1> QED BY <1>1 DEF CapKept

LEMMA SwitchUnmoved ==
  ASSUME SwitchKept, UNCHANGED <<stage, call, stop, sentInStop>>
  PROVE  SwitchKept'
  BY DEF SwitchKept

LEMMA ReadingsUnmoved ==
  ASSUME Readings, UNCHANGED Gate!references, UNCHANGED Gate!counters,
         UNCHANGED <<now, stop, limits>>
  PROVE  Readings'
  BY DEF Readings, Gate!references, Gate!counters

(* Steps of the engine alone: the monitor's, the operator's and the clock. *)
LEMMA EngineStep ==
  ASSUME Readings, \/ Gate!UpdateEquity \/ Gate!RecordTradeResult \/ Gate!OnTradeOpened
                   \/ Gate!TriggerStop \/ Gate!ResetStop \/ Gate!UpdateConfig \/ Gate!Tick
  PROVE  Readings' /\ UNCHANGED call
<1> USE DEF Gate!references, Gate!counters
<1>1. CASE Gate!UpdateEquity
  <2>1. PICK equity \in Equities :
          /\ dailyDate' \in {dailyDate, Gate!Today} /\ tradeDate' \in {tradeDate, Gate!Today}
          /\ weekDate' \in {weekDate, Gate!Today}
          /\ dailyStart' \in {dailyStart, equity} /\ weekStart' \in {weekStart, equity}
          /\ tradesToday' \in {tradesToday, 0} /\ peak' = Gate!Larger(peak, equity)
          /\ sessionStart' \in {sessionStart, equity}
    BY <1>1 DEF Gate!UpdateEquity
  <2>2. UNCHANGED <<now, stop, streak, cooldownUntil, limits, call>>
    BY <1>1 DEF Gate!UpdateEquity
  <2>3. equity \in Nat /\ Gate!Today \in Int
    BY GateConstants DEF Gate!Today, Readings
  <2>4. peak' \in Nat
    BY <2>1, <2>3 DEF Gate!Larger, Readings
  <2> QED BY <2>1, <2>2, <2>3, <2>4 DEF Readings
<1>2. CASE Gate!RecordTradeResult
  <2>1. /\ streak' \in {0, streak + 1}
        /\ cooldownUntil' \in {cooldownUntil, now + CooldownTicks}
        /\ UNCHANGED <<now, stop, Gate!references, tradesToday, tradeDate, limits, call>>
    BY <1>2 DEF Gate!RecordTradeResult
  <2>2. now \in Nat /\ now + CooldownTicks \in Nat
    BY GateConstants DEF Readings
  <2> QED BY <2>1, <2>2 DEF Readings
<1>3. CASE Gate!OnTradeOpened
  BY <1>3 DEF Gate!OnTradeOpened, Readings
<1>4. CASE Gate!TriggerStop \/ Gate!ResetStop
  <2>1. stop' \in BOOLEAN
    BY <1>4, Zenon DEF Gate!TriggerStop, Gate!ResetStop
  <2>2. UNCHANGED <<now, Gate!references, Gate!counters, limits, call>>
    BY <1>4 DEF Gate!TriggerStop, Gate!ResetStop
  <2> QED BY <2>1, <2>2 DEF Readings
<1>5. CASE Gate!UpdateConfig
  <2>1. PICK edit \in Edits :
          limits' = IF \A k \in DOMAIN edit : k \in DOMAIN Ranges /\ edit[k] \in Ranges[k]
                    THEN [k \in DOMAIN limits |-> IF k \in DOMAIN edit THEN edit[k] ELSE limits[k]]
                    ELSE limits
    BY <1>5 DEF Gate!UpdateConfig
  <2>2. UNCHANGED <<now, stop, Gate!references, Gate!counters, call>>
    BY <1>5 DEF Gate!UpdateConfig
  <2>3. DOMAIN limits' = DOMAIN Limits /\ \A k \in DOMAIN Ranges : limits'[k] \in Ranges[k]
    BY <2>1, GateConstants DEF Readings
  <2> QED BY <2>2, <2>3 DEF Readings
<1>6. CASE Gate!Tick
  BY <1>6, GateConstants DEF Gate!Tick, Readings
<1> QED BY <1>1, <1>2, <1>3, <1>4, <1>5, <1>6

LEMMA GateMonitor ==
  ASSUME GateInv, Gate!Monitor
  PROVE  GateInv'
<1>1. \/ Gate!UpdateEquity \/ Gate!RecordTradeResult \/ Gate!OnTradeOpened
  BY DEF Gate!Monitor
<1>2. Readings' /\ UNCHANGED call
  BY <1>1, EngineStep DEF GateInv
<1>3. UNCHANGED stop
  BY <1>1 DEF Gate!UpdateEquity, Gate!RecordTradeResult, Gate!OnTradeOpened
<1>4. UNCHANGED <<stage, plan, open, late, strays, sentInStop>>
  BY DEF Gate!Monitor, Gate!pipelineVars
<1> QED BY <1>2, <1>3, <1>4, CapUnmoved, SwitchUnmoved DEF GateInv, Asking

(* A reset forgets what was sent under the switch.                         *)
LEMMA GateOperator ==
  ASSUME GateInv, Gate!Operator
  PROVE  GateInv'
<1>1. \/ Gate!TriggerStop \/ Gate!ResetStop \/ Gate!UpdateConfig
  BY DEF Gate!Operator
<1>2. Readings' /\ UNCHANGED call
  BY <1>1, EngineStep DEF GateInv
<1>3. UNCHANGED <<stage, plan, open, late, strays>>
  BY DEF Gate!Operator, Gate!pipelineVars
<1>4. SwitchKept'
  <2>1. CASE Gate!TriggerStop /\ UNCHANGED sentInStop
    BY <1>2, <2>1, Zenon DEF Gate!TriggerStop, GateInv, SwitchKept
  <2>2. CASE sentInStop' = [c \in Callers |-> 0]
    BY <1>2, <2>2 DEF SwitchKept
  <2>3. CASE Gate!UpdateConfig /\ UNCHANGED sentInStop
    BY <1>2, <1>3, <2>3, SwitchUnmoved DEF Gate!UpdateConfig, GateInv
  <2> QED BY <2>1, <2>2, <2>3 DEF Gate!Operator, Gate!pipelineVars
<1> QED BY <1>2, <1>3, <1>4, CapUnmoved DEF GateInv, Asking

LEMMA GateTick ==
  ASSUME GateInv, Gate!Tick, UNCHANGED Gate!pipelineVars
  PROVE  GateInv'
<1>1. Readings' /\ UNCHANGED call
  BY EngineStep DEF GateInv
<1>2. UNCHANGED <<stop, stage, plan, open, late, strays, sentInStop>>
  BY DEF Gate!Tick, Gate!pipelineVars
<1> QED BY <1>1, <1>2, CapUnmoved, SwitchUnmoved DEF GateInv, Asking

(* The broker closes a position: there is more room than before.           *)
LEMMA GateBrokerCloses ==
  ASSUME GateInv, Gate!BrokerCloses
  PROVE  GateInv'
<1>1. PICK s \in Symbols : open[s] > 0 /\ open' = [open EXCEPT ![s] = @ - 1]
  BY DEF Gate!BrokerCloses
<1>2. /\ UNCHANGED <<stage, plan, late, strays, sentInStop, call, now, stop, limits>>
      /\ UNCHANGED Gate!references /\ UNCHANGED Gate!counters
  BY DEF Gate!BrokerCloses, Gate!engineVars
<1>3. open \in [Symbols -> 0..MaxPositions] /\ MaxPositions \in Nat
  BY GateConstants DEF GateInv, Asking
<1>4. open' \in [Symbols -> 0..MaxPositions] /\ \A q \in Symbols : open'[q] <= open[q]
  BY <1>1, <1>3
<1>5. Asking'
  BY <1>2, <1>4 DEF GateInv, Asking
<1>6. \A q : Claims(q)' = Claims(q)
  BY <1>2 DEF Claims
<1>7. \A q \in Symbols : open[q] \in Int /\ open'[q] \in Int /\ strays[q] \in Int
  BY <1>3, <1>4 DEF GateInv, Asking
<1>8. CapKept'
  BY <1>2, <1>4, <1>6, <1>7, ClaimsAreFew, TopIsLargest, ThreadsAreSome DEF GateInv, CapKept
<1> QED BY <1>2, <1>5, <1>8, ReadingsUnmoved, SwitchUnmoved DEF GateInv

LEMMA GateAnalyse ==
  ASSUME GateInv, NEW c \in Callers, Gate!Analyse(c)
  PROVE  GateInv'
<1>1. /\ stage[c] = "idle"
      /\ UNCHANGED <<call, open, late, strays, sentInStop, now, stop, limits>>
      /\ UNCHANGED Gate!references /\ UNCHANGED Gate!counters
  BY DEF Gate!Analyse, Gate!engineVars
<1>2. PICK s \in Symbols, m \in Markets :
        \/ Gate!Finish(c)
        \/ /\ stage' = [stage EXCEPT ![c] = "positions"]
           /\ plan' = [plan EXCEPT ![c] = [symbol |-> s, market |-> m]]
  BY DEF Gate!Analyse
<1>3. call[c].step = "none"
  BY <1>1 DEF GateInv, Asking
<1>4. /\ DOMAIN plan' = Callers /\ \A d \in Callers \ {c} : plan'[d] = plan[d]
      /\ stage' \in [Callers -> Stages]
      /\ \A d \in Callers \ {c} : stage'[d] = stage[d]
      /\ \/ stage'[c] = "idle"
         \/ stage'[c] = "positions" /\ plan'[c].symbol = s
  BY <1>2 DEF Gate!Finish, GateInv, Asking, Stages
<1>5. Asking'
  <2>1. ASSUME NEW d \in Callers
        PROVE  /\ CallOK(call'[d]) /\ (stage'[d] = "approve" <=> call'[d].step # "none")
               /\ stage'[d] # "idle" => plan'[d].symbol \in Symbols
    BY <1>1, <1>3, <1>4 DEF GateInv, Asking
  <2> QED BY <1>1, <1>4, <2>1 DEF GateInv, Asking
<1>6. \A q : Claims(q)' = Claims(q)
  BY <1>1, <1>3, <1>4 DEF Claims
<1>7. CapKept'
  BY <1>1, <1>6 DEF GateInv, CapKept
<1>8. SwitchKept'
  BY <1>1, <1>4 DEF GateInv, SwitchKept
<1> QED BY <1>1, <1>5, <1>7, <1>8, ReadingsUnmoved DEF GateInv

(* A thread whose lookup shows room joins the claims, one that sees the    *)
(* cap reached does not.                                                   *)
LEMMA GateLookUp ==
  ASSUME GateInv, NEW c \in Callers, Gate!LookUpPositions(c)
  PROVE  GateInv'
<1>1. /\ stage[c] = "positions"
      /\ UNCHANGED <<open, late, strays, sentInStop, now, stop, limits>>
      /\ UNCHANGED Gate!references /\ UNCHANGED Gate!counters
  BY DEF Gate!LookUpPositions
<1>2. call[c].step = "none" /\ plan[c].symbol \in Symbols
  BY <1>1 DEF GateInv, Asking
<1>3. CASE Gate!Finish(c) /\ UNCHANGED call
  <2>1. /\ DOMAIN plan' = Callers /\ \A d \in Callers \ {c} : plan'[d] = plan[d]
        /\ stage' \in [Callers -> Stages] /\ stage'[c] = "idle"
        /\ \A d \in Callers \ {c} : stage'[d] = stage[d]
    BY <1>3 DEF Gate!Finish, GateInv, Asking, Stages
  <2>2. Asking'
    <3>1. ASSUME NEW d \in Callers
          PROVE  /\ CallOK(call'[d]) /\ (stage'[d] = "approve" <=> call'[d].step # "none")
                 /\ stage'[d] # "idle" => plan'[d].symbol \in Symbols
      BY <1>2, <1>3, <2>1 DEF GateInv, Asking
    <3> QED BY <1>1, <1>3, <2>1, <3>1 DEF GateInv, Asking
  <2>3. \A q : Claims(q)' = Claims(q)
    BY <1>1, <1>2, <1>3, <2>1 DEF Claims
  <2>4. CapKept'
    BY <1>1, <1>3, <2>3 DEF GateInv, CapKept
  <2>5. SwitchKept'
    BY <1>1, <1>3, <2>1 DEF GateInv, SwitchKept
  <2> QED BY <1>1, <1>3, <2>2, <2>4, <2>5, ReadingsUnmoved DEF GateInv
<1>4. CASE ~(Gate!Finish(c) /\ UNCHANGED call)
  <2> DEFINE s == plan[c].symbol
  <2>1. /\ stage' = [stage EXCEPT ![c] = "approve"] /\ UNCHANGED plan
        /\ \E p : Gate!ApproveBegin(c, p, open[s], 0)
    BY <1>4 DEF Gate!LookUpPositions
  <2>2. PICK p : Gate!ApproveBegin(c, p, open[s], 0)
    BY <2>1
  <2>3. s \in Symbols /\ open[s] \in Nat /\ DOMAIN call = Callers /\ DOMAIN plan = Callers
        /\ open \in [Symbols -> 0..MaxPositions]
    BY <1>2, GateConstants DEF GateInv, Asking
  <2> HIDE DEF s
  <2>4. /\ DOMAIN call' = Callers /\ \A d \in Callers \ {c} : call'[d] = call[d]
        /\ call'[c].step = "stop" /\ call'[c].open = open[s] /\ DOMAIN call'[c] = CallFields
    BY <2>2, <2>3 DEF Gate!ApproveBegin, CallFields
  <2>5. CallOK(call'[c])
    BY <2>3, <2>4 DEF CallOK, Asked
  <2>6. Asking'
    <3>1. /\ stage' \in [Callers -> Stages] /\ stage'[c] = "approve"
          /\ \A d \in Callers \ {c} : stage'[d] = stage[d]
      BY <2>1 DEF GateInv, Asking, Stages
    <3>2. ASSUME NEW d \in Callers
          PROVE  /\ CallOK(call'[d]) /\ (stage'[d] = "approve" <=> call'[d].step # "none")
                 /\ stage'[d] # "idle" => plan'[d].symbol \in Symbols
      BY <1>2, <2>1, <2>4, <2>5, <3>1 DEF GateInv, Asking
    <3> QED BY <1>1, <2>1, <2>4, <3>1, <3>2 DEF GateInv, Asking
  <2>7. SwitchKept'
    <3>1. ~Cleared(call'[c])
      BY <2>4 DEF Cleared
    <3> QED BY <1>1, <2>1, <2>4, <3>1 DEF GateInv, SwitchKept
  <2> DEFINE After(q) == {d \in Callers : /\ plan'[d].symbol = q
                                          /\ \/ stage'[d] \in {"send", "sent"}
                                             \/ call'[d].step # "none" /\ call'[d].open < Top}
  <2>8. /\ After(s) = IF open[s] < Top THEN Claims(s) \cup {c} ELSE Claims(s)
        /\ \A q : q # s => After(q) = Claims(q)
    BY <1>1, <1>2, <2>1, <2>4 DEF Claims, s, GateInv, Asking
  <2>9. IsFiniteSet(After(s)) /\ Cardinality(After(s)) <= Cardinality(Callers)
    <3>1. After(s) \subseteq Callers
      OBVIOUS
    <3> QED BY <3>1, GateConstants, FS_Subset
  <2>10. \A q \in Symbols :
           open[q] + Cardinality(After(q)) <= Top + Cardinality(Callers) - 1 + strays[q]
    <3> HIDE DEF After
    <3>1. CASE open[s] < Top
      <4>1. Cardinality(After(s)) \in Int
        BY <2>9, FS_CardinalityType
      <4>2. open[s] + Cardinality(After(s)) <= Top + Cardinality(Callers) - 1 + strays[s]
        <5>1. strays[s] \in Nat
          BY <2>3 DEF GateInv, Asking
        <5> QED BY <2>3, <2>9, <3>1, <4>1, <5>1, TopIsLargest, ThreadsAreSome
      <4> QED BY <2>8, <4>2 DEF GateInv, CapKept
    <3>2. CASE ~(open[s] < Top)
      <4>1. \A q : After(q) = Claims(q)
        BY <2>8, <3>2
      <4> QED BY <4>1 DEF GateInv, CapKept
    <3> QED BY <3>1, <3>2
  <2>11. CapKept'
    <3>1. \A d \in Callers : Cleared(call'[d]) => call'[d].open < Top
      BY <2>4 DEF GateInv, CapKept, Cleared
    <3> QED BY <1>1, <2>10, <3>1 DEF CapKept, Claims
  <2> QED BY <1>1, <2>6, <2>7, <2>11, ReadingsUnmoved DEF GateInv
<1> QED BY <1>3, <1>4

(* Moving a call on, or refusing it, keeps what it has read.               *)
LEMMA GateProgress ==
  ASSUME GateInv, NEW c \in Callers, call[c].step # "none",
         UNCHANGED <<stage, plan, open, late, strays, sentInStop, stop>>, Readings',
         DOMAIN call' = Callers, \A d \in Callers \ {c} : call'[d] = call[d],
         call'[c].step \in Asked, DOMAIN call'[c] = DOMAIN call[c], call'[c].open = call[c].open,
         Cleared(call'[c]) => /\ Cleared(call[c]) \/ ~stop
                              /\ call[c].open < Top
  PROVE  GateInv'
<1>1. CallOK(call'[c]) /\ call'[c].step # "none"
  BY DEF GateInv, Asking, CallOK, Asked
<1>2. Asking'
  <2>1. ASSUME NEW d \in Callers
        PROVE  /\ CallOK(call'[d]) /\ (stage'[d] = "approve" <=> call'[d].step # "none")
               /\ stage'[d] # "idle" => plan'[d].symbol \in Symbols
    BY <1>1 DEF GateInv, Asking
  <2> QED BY <2>1 DEF GateInv, Asking
<1>3. SwitchKept'
  <2>1. ASSUME NEW d \in Callers, sentInStop[d] # 0
        PROVE  ~Cleared(call'[d])
    BY <2>1 DEF GateInv, SwitchKept
  <2> QED BY <2>1 DEF GateInv, SwitchKept
<1>4. \A q : Claims(q)' = Claims(q)
  BY <1>1 DEF Claims
<1>5. CapKept'
  <2>1. \A d \in Callers : Cleared(call'[d]) => call'[d].open < Top
    BY DEF GateInv, CapKept
  <2> QED BY <1>4, <2>1 DEF GateInv, CapKept
<1> QED BY <1>2, <1>3, <1>5 DEF GateInv

LEMMA Refused ==
  ASSUME GateInv, NEW c \in Callers, call[c].step # "none", NEW reason, Gate!Reject(c, reason)
  PROVE  /\ DOMAIN call' = Callers /\ \A d \in Callers \ {c} : call'[d] = call[d]
         /\ call'[c].step = "done" /\ call'[c].verdict = reason
         /\ DOMAIN call'[c] = DOMAIN call[c] /\ call'[c].open = call[c].open
<1>1. DOMAIN call = Callers /\ DOMAIN call[c] = CallFields
  BY DEF GateInv, Asking, CallOK
<1> QED BY <1>1 DEF Gate!Reject, CallFields

LEMMA Advanced ==
  ASSUME GateInv, NEW c \in Callers, call[c].step # "none", NEW step,
         call' = [call EXCEPT ![c].step = step]
  PROVE  /\ DOMAIN call' = Callers /\ \A d \in Callers \ {c} : call'[d] = call[d]
         /\ call'[c].step = step
         /\ DOMAIN call'[c] = DOMAIN call[c] /\ call'[c].open = call[c].open
<1>1. DOMAIN call = Callers /\ DOMAIN call[c] = CallFields
  BY DEF GateInv, Asking, CallOK
<1> QED BY <1>1 DEF CallFields

LEMMA GateApprove ==
  ASSUME GateInv, NEW c \in Callers, Gate!Approve(c)
  PROVE  GateInv'
<1>1. UNCHANGED <<stage, plan, open, late, strays, sentInStop>>
  BY DEF Gate!Approve, Gate!pipelineVars
<1>2. CASE Gate!ApproveStop(c)
  <2>1. /\ call[c].step = "stop" /\ UNCHANGED <<now, stop, limits>>
        /\ UNCHANGED Gate!references /\ UNCHANGED Gate!counters
    BY <1>2 DEF Gate!ApproveStop
  <2>2. Readings'
    BY <2>1, ReadingsUnmoved DEF GateInv
  <2>3. \/ \E reason \in {"emergency stop active", "stop_loss_required", "sl_invalid", "rr_ratio",
                          "max_positions"} : Gate!Reject(c, reason)
        \/ /\ ~stop /\ ~(call[c].open >= limits.maxOpen)
           /\ call' = [call EXCEPT ![c].step = "count"]
    BY <1>2 DEF Gate!ApproveStop
  <2>4. CASE \E reason \in {"emergency stop active", "stop_loss_required", "sl_invalid",
                            "rr_ratio", "max_positions"} : Gate!Reject(c, reason)
    <3>1. PICK reason \in {"emergency stop active", "stop_loss_required", "sl_invalid",
                           "rr_ratio", "max_positions"} : Gate!Reject(c, reason)
      BY <2>4
    <3>2. /\ DOMAIN call' = Callers /\ \A d \in Callers \ {c} : call'[d] = call[d]
          /\ call'[c].step = "done" /\ call'[c].verdict = reason
          /\ DOMAIN call'[c] = DOMAIN call[c] /\ call'[c].open = call[c].open
      BY <2>1, <3>1, Refused
    <3> QED BY <1>1, <2>1, <2>2, <3>2, GateProgress DEF Cleared, Asked
  <2>5. CASE /\ ~stop /\ ~(call[c].open >= limits.maxOpen)
             /\ call' = [call EXCEPT ![c].step = "count"]
    <3>1. /\ DOMAIN call' = Callers /\ \A d \in Callers \ {c} : call'[d] = call[d]
          /\ call'[c].step = "count"
          /\ DOMAIN call'[c] = DOMAIN call[c] /\ call'[c].open = call[c].open
      BY <2>1, <2>5, Advanced
    <3>2. call[c].open < Top
      <4>1. call[c].open \in Nat /\ limits.maxOpen \in Nat /\ limits.maxOpen <= Top
        BY <2>1, GateConstants, TopIsLargest DEF GateInv, Asking, CallOK, Readings
      <4> QED BY <2>5, <4>1, TopIsLargest
    <3> QED BY <1>1, <2>1, <2>2, <2>5, <3>1, <3>2, GateProgress DEF Cleared, Asked
  <2> QED BY <2>3, <2>4, <2>5
<1>3. CASE Gate!ApproveCount(c)
  <2>1. /\ call[c].step = "count" /\ UNCHANGED <<now, stop, streak, cooldownUntil, limits>>
        /\ UNCHANGED Gate!references
        /\ tradesToday' \in {0, tradesToday} /\ tradeDate' = Gate!Today
    BY <1>3 DEF Gate!ApproveCount
  <2>2. Readings'
    <3>1. Gate!Today \in Int
      BY GateConstants DEF Gate!Today, GateInv, Readings
    <3> QED BY <2>1, <3>1 DEF GateInv, Readings, Gate!references
  <2>3. \/ \E reason \in {"max_trades_per_day", "daily_loss_limit", "weekly_loss_limit",
                          "max_drawdown"} : Gate!Reject(c, reason)
        \/ call' = [call EXCEPT ![c].step = "cooldown"]
    BY <1>3 DEF Gate!ApproveCount
  <2>4. CASE \E reason \in {"max_trades_per_day", "daily_loss_limit", "weekly_loss_limit",
                            "max_drawdown"} : Gate!Reject(c, reason)
    <3>1. PICK reason \in {"max_trades_per_day", "daily_loss_limit", "weekly_loss_limit",
                           "max_drawdown"} : Gate!Reject(c, reason)
      BY <2>4
    <3>2. /\ DOMAIN call' = Callers /\ \A d \in Callers \ {c} : call'[d] = call[d]
          /\ call'[c].step = "done" /\ call'[c].verdict = reason
          /\ DOMAIN call'[c] = DOMAIN call[c] /\ call'[c].open = call[c].open
      BY <2>1, <3>1, Refused
    <3> QED BY <1>1, <2>1, <2>2, <3>2, GateProgress DEF Cleared, Asked
  <2>5. CASE call' = [call EXCEPT ![c].step = "cooldown"]
    <3>1. /\ DOMAIN call' = Callers /\ \A d \in Callers \ {c} : call'[d] = call[d]
          /\ call'[c].step = "cooldown"
          /\ DOMAIN call'[c] = DOMAIN call[c] /\ call'[c].open = call[c].open
      BY <2>1, <2>5, Advanced
    <3>2. Cleared(call[c]) /\ call[c].open < Top
      BY <2>1 DEF Cleared, GateInv, CapKept
    <3> QED BY <1>1, <2>1, <2>2, <3>1, <3>2, GateProgress DEF Asked
  <2> QED BY <2>3, <2>4, <2>5
<1>4. CASE Gate!ApproveCooldown(c)
  <2>1. /\ call[c].step = "cooldown" /\ UNCHANGED <<now, stop, limits>>
        /\ UNCHANGED Gate!references /\ UNCHANGED Gate!counters
    BY <1>4 DEF Gate!ApproveCooldown
  <2>2. Readings'
    BY <2>1, ReadingsUnmoved DEF GateInv
  <2>3. \/ \E reason : Gate!Reject(c, reason)
        \/ \E lot : call' = [call EXCEPT ![c] = [@ EXCEPT !.step = "done", !.verdict = "APPROVED",
                                                          !.lot = lot]]
    BY <1>4 DEF Gate!ApproveCooldown
  <2>4. Cleared(call[c]) /\ call[c].open < Top
    BY <2>1 DEF Cleared, GateInv, CapKept
  <2>5. /\ DOMAIN call' = Callers /\ \A d \in Callers \ {c} : call'[d] = call[d]
        /\ call'[c].step = "done"
        /\ DOMAIN call'[c] = DOMAIN call[c] /\ call'[c].open = call[c].open
    <3>1. DOMAIN call = Callers /\ DOMAIN call[c] = CallFields
      BY <2>1 DEF GateInv, Asking, CallOK
    <3>2. ASSUME NEW reason, Gate!Reject(c, reason)
          PROVE  /\ DOMAIN call' = Callers /\ \A d \in Callers \ {c} : call'[d] = call[d]
                 /\ call'[c].step = "done"
                 /\ DOMAIN call'[c] = DOMAIN call[c] /\ call'[c].open = call[c].open
      BY <2>1, <3>2, Refused
    <3>3. ASSUME NEW lot,
                 call' = [call EXCEPT ![c] = [@ EXCEPT !.step = "done", !.verdict = "APPROVED",
                                                       !.lot = lot]]
          PROVE  /\ DOMAIN call' = Callers /\ \A d \in Callers \ {c} : call'[d] = call[d]
                 /\ call'[c].step = "done"
                 /\ DOMAIN call'[c] = DOMAIN call[c] /\ call'[c].open = call[c].open
      BY <3>1, <3>3 DEF CallFields
    <3> QED BY <2>3, <3>2, <3>3
  <2> QED BY <1>1, <2>1, <2>2, <2>4, <2>5, GateProgress DEF Asked
<1> QED BY <1>2, <1>3, <1>4 DEF Gate!Approve

(* A verdict: a thread whose order is on its way keeps its claim.          *)
LEMMA GateConclude ==
  ASSUME GateInv, NEW c \in Callers, Gate!Conclude(c)
  PROVE  GateInv'
<1>1. /\ stage[c] = "approve" /\ call[c].step = "done"
      /\ call' = [call EXCEPT ![c] = Gate!NoCall]
      /\ UNCHANGED <<now, stop, limits, open, late, strays, sentInStop>>
      /\ UNCHANGED Gate!references /\ UNCHANGED Gate!counters
  BY DEF Gate!Conclude
<1>2. \/ /\ Gate!Approved(c) /\ UNCHANGED plan
         /\ stage' = [stage EXCEPT ![c] = "send"]
      \/ Gate!Finish(c)
  BY DEF Gate!Conclude
<1>3. /\ DOMAIN call' = Callers /\ DOMAIN plan' = Callers
      /\ call'[c].step = "none" /\ stage' \in [Callers -> Stages]
      /\ \/ stage'[c] = "send" /\ Gate!Approved(c) /\ plan'[c] = plan[c]
         \/ stage'[c] = "idle"
      /\ \A d \in Callers \ {c} : call'[d] = call[d] /\ plan'[d] = plan[d] /\ stage'[d] = stage[d]
  BY <1>1, <1>2 DEF Gate!Finish, Gate!NoCall, GateInv, Asking, Stages
<1>4. Gate!Approved(c) => Cleared(call[c])
  BY DEF Gate!Approved, Cleared
<1>5. Asking'
  <2>1. ASSUME NEW d \in Callers
        PROVE  /\ CallOK(call'[d]) /\ (stage'[d] = "approve" <=> call'[d].step # "none")
               /\ stage'[d] # "idle" => plan'[d].symbol \in Symbols
    BY <1>1, <1>3 DEF GateInv, Asking, CallOK
  <2> QED BY <1>1, <1>3, <2>1 DEF GateInv, Asking
<1>6. SwitchKept'
  BY <1>1, <1>3, <1>4 DEF GateInv, SwitchKept, Cleared
<1>7. \A q : Claims(q)' \subseteq Claims(q)
  <2>1. Gate!Approved(c) => call[c].open < Top
    BY <1>4 DEF GateInv, CapKept
  <2> QED BY <1>1, <1>3, <2>1 DEF Claims
<1>8. CapKept'
  <2>1. \A d \in Callers : Cleared(call'[d]) => call'[d].open < Top
    BY <1>3 DEF GateInv, CapKept, Cleared
  <2> QED BY <1>1, <1>7, <2>1, FewerClaims DEF GateInv, Asking
<1> QED BY <1>1, <1>5, <1>6, <1>8, ReadingsUnmoved DEF GateInv

(* The order leaves, and may leave again.                                  *)
LEMMA GateRequest ==
  ASSUME GateInv, NEW c \in Callers, Gate!Request(c) \/ Gate!Requote(c)
  PROVE  GateInv'
<1>1. /\ stage[c] \in {"send", "sent"} /\ stage'[c] = "sent"
      /\ stage' \in [Callers -> Stages] /\ \A d \in Callers \ {c} : stage'[d] = stage[d]
  BY DEF Gate!Request, Gate!Requote, GateInv, Asking, Stages
<1>2. /\ UNCHANGED <<call, plan, open, late, strays, now, stop, limits>>
      /\ UNCHANGED Gate!references /\ UNCHANGED Gate!counters
  BY DEF Gate!Request, Gate!Requote, Gate!engineVars
<1>3. Asking'
  BY <1>1, <1>2 DEF GateInv, Asking
<1>4. SwitchKept'
  <2>1. sentInStop \in [Callers -> 0..1] /\ (stage[c] = "send" => sentInStop[c] = 0)
    BY DEF GateInv, SwitchKept
  <2>2. call[c].step = "none"
    BY <1>1 DEF GateInv, Asking
  <2>3. \/ stage[c] = "send" /\ sentInStop' = [sentInStop EXCEPT ![c] =
                                IF stop THEN Gate!Smaller(@ + 1, 2) ELSE @]
        \/ sentInStop' = [sentInStop EXCEPT ![c] = IF stop THEN Gate!Larger(@, 1) ELSE @]
    BY DEF Gate!Request, Gate!Requote
  <2>4. /\ sentInStop' \in [Callers -> 0..1]
        /\ \A d \in Callers \ {c} : sentInStop'[d] = sentInStop[d]
        /\ ~stop => sentInStop'[c] = sentInStop[c]
    BY <2>1, <2>3 DEF Gate!Smaller, Gate!Larger
  <2> QED BY <1>1, <1>2, <2>2, <2>4 DEF GateInv, SwitchKept, Cleared
<1>5. \A q : Claims(q)' = Claims(q)
  BY <1>1, <1>2 DEF Claims
<1>6. CapKept'
  BY <1>2, <1>5 DEF GateInv, CapKept
<1> QED BY <1>2, <1>3, <1>4, <1>6, ReadingsUnmoved DEF GateInv

(* A thread whose order opens a position gives up its claim.               *)
LEMMA GateExecution ==
  ASSUME GateInv, NEW c \in Callers, Gate!Execution(c)
  PROVE  GateInv'
<1> DEFINE s == plan[c].symbol
<1>1. /\ stage[c] = "sent" /\ open[s] < MaxPositions /\ open' = [open EXCEPT ![s] = @ + 1]
      /\ stage' = [stage EXCEPT ![c] = "filled"]
      /\ UNCHANGED <<call, plan, late, strays, sentInStop, now, stop, limits>>
      /\ UNCHANGED Gate!references /\ UNCHANGED Gate!counters
  BY DEF Gate!Execution, Gate!Opens, Gate!engineVars
<1>2. /\ s \in Symbols /\ open \in [Symbols -> 0..MaxPositions] /\ MaxPositions \in Nat
      /\ call[c].step = "none"
  BY <1>1, GateConstants DEF GateInv, Asking
<1> HIDE DEF s
<1>3. /\ stage' \in [Callers -> Stages] /\ stage'[c] = "filled"
      /\ \A d \in Callers \ {c} : stage'[d] = stage[d]
  BY <1>1 DEF GateInv, Asking, Stages
<1>4. /\ open' \in [Symbols -> 0..MaxPositions] /\ open'[s] = open[s] + 1
      /\ \A q \in Symbols \ {s} : open'[q] = open[q]
  BY <1>1, <1>2
<1>5. Asking'
  BY <1>1, <1>3, <1>4, s \in Symbols DEF GateInv, Asking, s
<1>6. SwitchKept'
  BY <1>1, <1>3 DEF GateInv, SwitchKept
<1> DEFINE After(q) == {d \in Callers : /\ plan'[d].symbol = q
                                        /\ \/ stage'[d] \in {"send", "sent"}
                                           \/ call'[d].step # "none" /\ call'[d].open < Top}
<1>7. c \in Claims(s) /\ After(s) = Claims(s) \ {c} /\ \A q : q # s => After(q) = Claims(q)
  BY <1>1, <1>2, <1>3 DEF Claims, s
<1> HIDE DEF After
<1>8. IsFiniteSet(Claims(s)) /\ Cardinality(Claims(s)) \in Nat
  BY ClaimsAreFew
<1>9. Cardinality(After(s)) = Cardinality(Claims(s)) - 1
  BY <1>7, <1>8, FS_RemoveElement
<1>10. \A q \in Symbols : open[q] + Cardinality(Claims(q)) <= Top + Cardinality(Callers) - 1 + strays[q]
  BY DEF GateInv, CapKept
<1>11. open'[s] + Cardinality(After(s)) = open[s] + Cardinality(Claims(s))
  BY <1>2, <1>4, <1>8, <1>9
<1>12. \A q \in Symbols :
          open'[q] + Cardinality(After(q)) <= Top + Cardinality(Callers) - 1 + strays'[q]
  BY <1>1, <1>2, <1>4, <1>7, <1>10, <1>11
<1>13. CapKept'
  BY <1>1, <1>12 DEF GateInv, CapKept, Claims, After
<1> QED BY <1>1, <1>5, <1>6, <1>13, ReadingsUnmoved DEF GateInv

LEMMA GateAnswer ==
  ASSUME GateInv, NEW c \in Callers, Gate!Answer(c)
  PROVE  GateInv'
<1>1. /\ stage[c] \in {"sent", "filled"} /\ Gate!Finish(c)
      /\ UNCHANGED <<call, open, strays, sentInStop, now, stop, limits>>
      /\ UNCHANGED Gate!references /\ UNCHANGED Gate!counters
  BY DEF Gate!Answer, Gate!engineVars
<1>2. /\ DOMAIN plan' = Callers /\ stage' \in [Callers -> Stages] /\ stage'[c] = "idle"
      /\ \A d \in Callers \ {c} : plan'[d] = plan[d] /\ stage'[d] = stage[d]
  BY <1>1 DEF Gate!Finish, GateInv, Asking, Stages
<1>3. late' \in [Symbols -> 0..MaxLate]
  <2>1. \/ UNCHANGED late
        \/ \E q \in Symbols : /\ late[q] + strays[q] < MaxLate
                               /\ late' = [late EXCEPT ![q] = @ + 1]
    BY <1>1 DEF Gate!Answer, GateInv, Asking
  <2>2. late \in [Symbols -> 0..MaxLate] /\ strays \in [Symbols -> Nat] /\ MaxLate \in Nat
    BY GateConstants DEF GateInv, Asking
  <2> QED BY <2>1, <2>2
<1>4. Asking'
  BY <1>1, <1>2, <1>3 DEF GateInv, Asking
<1>5. SwitchKept'
  BY <1>1, <1>2 DEF GateInv, SwitchKept
<1>6. call[c].step = "none"
  BY <1>1 DEF GateInv, Asking
<1>7. \A q : Claims(q)' \subseteq Claims(q)
  BY <1>1, <1>2, <1>6 DEF Claims
<1>8. CapKept'
  <2>1. \A d \in Callers : Cleared(call'[d]) => call'[d].open < Top
    BY <1>1 DEF GateInv, CapKept
  <2> QED BY <1>1, <1>7, <2>1, FewerClaims DEF GateInv, Asking
<1> QED BY <1>1, <1>4, <1>5, <1>8, ReadingsUnmoved DEF GateInv

(* A stray execution makes room for itself.                                *)
LEMMA GateLateExecution ==
  ASSUME GateInv, Gate!LateExecution
  PROVE  GateInv'
<1>1. PICK s \in Symbols : /\ late[s] > 0 /\ late' = [late EXCEPT ![s] = @ - 1]
                            /\ strays' = [strays EXCEPT ![s] = @ + 1]
                            /\ open[s] < MaxPositions /\ open' = [open EXCEPT ![s] = @ + 1]
  BY DEF Gate!LateExecution, Gate!Opens
<1>2. /\ UNCHANGED <<stage, plan, sentInStop, call, now, stop, limits>>
      /\ UNCHANGED Gate!references /\ UNCHANGED Gate!counters
  BY DEF Gate!LateExecution, Gate!engineVars
<1>3. /\ open \in [Symbols -> 0..MaxPositions] /\ late \in [Symbols -> 0..MaxLate]
      /\ strays \in [Symbols -> Nat] /\ MaxPositions \in Nat /\ MaxLate \in Nat
  BY GateConstants DEF GateInv, Asking
<1>4. /\ open' \in [Symbols -> 0..MaxPositions] /\ late' \in [Symbols -> 0..MaxLate]
      /\ strays' \in [Symbols -> Nat]
  BY <1>1, <1>3
<1>5. \A q \in Symbols : open'[q] - strays'[q] = open[q] - strays[q]
  BY <1>1, <1>3
<1>6. Asking'
  BY <1>2, <1>4 DEF GateInv, Asking
<1>7. \A q : Claims(q)' = Claims(q)
  BY <1>2 DEF Claims
<1>8. CapKept'
  <2>1. ASSUME NEW q \in Symbols
        PROVE  open'[q] + Cardinality(Claims(q)) <= Top + Cardinality(Callers) - 1 + strays'[q]
    <3>1. open[q] + Cardinality(Claims(q)) <= Top + Cardinality(Callers) - 1 + strays[q]
      BY DEF GateInv, CapKept
    <3>2. /\ open[q] \in Int /\ open'[q] \in Int /\ strays[q] \in Int /\ strays'[q] \in Int
          /\ Cardinality(Claims(q)) \in Int
      BY <1>3, <1>4, ClaimsAreFew
    <3> QED BY <1>5, <3>1, <3>2, TopIsLargest, ThreadsAreSome
  <2> QED BY <1>2, <1>7, <2>1 DEF GateInv, CapKept
<1> QED BY <1>2, <1>6, <1>8, ReadingsUnmoved, SwitchUnmoved DEF GateInv

LEMMA GateInductive == GateInv /\ [Gate!Next]_gateVars => GateInv'
<1> SUFFICES ASSUME GateInv, [Gate!Next]_gateVars PROVE GateInv'
  OBVIOUS
<1>1. CASE UNCHANGED gateVars
  <2>1. UNCHANGED <<now, stop, limits, stage, call, plan, open, late, strays, sentInStop>>
        /\ UNCHANGED Gate!references /\ UNCHANGED Gate!counters
    BY <1>1 DEF gateVars, Gate!references, Gate!counters
  <2> QED BY <2>1, ReadingsUnmoved, SwitchUnmoved, CapUnmoved DEF GateInv, Asking
<1>2. ASSUME NEW c \in Callers,
             \/ Gate!Analyse(c) \/ Gate!LookUpPositions(c) \/ Gate!Approve(c) \/ Gate!Conclude(c)
             \/ Gate!Request(c) \/ Gate!Requote(c) \/ Gate!Execution(c) \/ Gate!Answer(c)
      PROVE  GateInv'
  BY <1>2, GateAnalyse, GateLookUp, GateApprove, GateConclude, GateRequest, GateExecution, GateAnswer
<1>3. CASE Gate!Monitor \/ Gate!Operator \/ Gate!BrokerCloses \/ Gate!LateExecution
  BY <1>3, GateMonitor, GateOperator, GateBrokerCloses, GateLateExecution
<1>4. CASE Gate!Tick /\ UNCHANGED Gate!pipelineVars
  BY <1>4, GateTick
<1> QED BY <1>1, <1>2, <1>3, <1>4 DEF Gate!Next

LEMMA GateSound == GateInv => RiskGateIsSound /\ Gate!TypeOK
<1> SUFFICES ASSUME GateInv PROVE RiskGateIsSound /\ Gate!TypeOK
  OBVIOUS
<1>1. Gate!StopAdmitsOnlyRunningCalls
  BY DEF GateInv, SwitchKept, Gate!StopAdmitsOnlyRunningCalls
<1>2. Gate!CapOvershootIsBounded
  <2>1. ASSUME NEW s \in Symbols
        PROVE  open[s] <= Top + Gate!Cardinality(Callers) - 1 + strays[s]
    <3>1. open[s] \in Int /\ strays[s] \in Int
      BY <2>1, GateConstants DEF GateInv, Asking
    <3>2. open[s] + Cardinality(Claims(s)) <= Top + Cardinality(Callers) - 1 + strays[s]
      BY <2>1 DEF GateInv, CapKept
    <3>3. Cardinality(Callers) = Gate!Cardinality(Callers)
      BY SameCounting
    <3> QED BY <3>1, <3>2, <3>3, ClaimsAreFew, TopIsLargest, ThreadsAreSome
  <2> QED BY <2>1, TopIsLargest DEF Gate!CapOvershootIsBounded
<1>3. Gate!EngineTypeOK
  <2>1. \A c \in Callers : call[c].step \in {"none", "stop", "count", "cooldown", "done"}
    BY DEF GateInv, Asking, CallOK, Asked
  <2> QED BY <2>1 DEF GateInv, Readings, Gate!EngineTypeOK
<1>4. Gate!TypeOK
  <2>1. sentInStop \in [Callers -> 0..2]
    BY DEF GateInv, SwitchKept
  <2> QED BY <1>3, <2>1 DEF GateInv, Asking, Stages, Gate!TypeOK
<1> QED BY <1>1, <1>2, <1>4 DEF RiskGateIsSound

-----------------------------------------------------------------------------
(* The stop of a position and its two writers.                             *)

Levels == Nat \ {0}
Positions == [direction : Stops!Directions, open : {Open}, sl : Nat, manual : BOOLEAN]
ManagerOrders == [step : {"gate", "send"}, sl : Levels]
ReasonerOrders == [step : {"send"}, sl : Levels]

StopTypes ==
    /\ price \in Prices \cup {Open}
    /\ managed = Stops!NoPosition \/ managed \in Positions
    /\ policy \in Stops!Policies \cup {"untracked"}
    /\ manager = Stops!Idle \/ manager \in ManagerOrders
    /\ reasoner = Stops!Idle \/ reasoner \in ReasonerOrders
    /\ first \in Nat /\ bestProfit \in Nat

(* A level no looser than the first stop.                                  *)
Kept(sl) == (sl - first) * managed.direction >= 0

(* What is on its way keeps to the first stop, too.  The manager only acts *)
(* on a position that has a stop; the reasoner may be about to set the     *)
(* first one, and then nobody else can.                                    *)
StopKept ==
    managed # Stops!NoPosition =>
        /\ first = 0 <=> managed.sl = 0
        /\ first # 0 => Kept(managed.sl)
        /\ manager # Stops!Idle => first # 0 /\ Kept(manager.sl)
        /\ reasoner # Stops!Idle => first = 0 \/ Kept(reasoner.sl)

StopInv == StopTypes /\ StopKept

LEMMA StopConstants ==
    /\ Open \in Nat \ {0} /\ Prices \subseteq Nat \ {0} /\ Lows \subseteq Int
    /\ FirstStops \subseteq 0..Open /\ StopsLevel \in Nat
    /\ \A p \in Prices \cup {Open} : p \in Nat \ {0} /\ Open < 2 * p /\ 2 * p < 3 * Open
<1>1. Stops!PositionAssumption
  BY RulesAssumption DEF RulesAssumption
<1> QED BY <1>1 DEF Stops!PositionAssumption

(* A set of proposals, one of which is the tightest.                       *)
Settled(set, d) == set \subseteq Int
                   /\ (set = {} \/ \E p \in set : \A q \in set : (p - q) * d >= 0)

LEMMA SettledGrows ==
  ASSUME NEW set, NEW d \in {-1, 1}, Settled(set, d), NEW x \in Int, NEW condition
  PROVE  Settled(set \cup Stops!When(condition, x), d)
<1>1. CASE ~condition
  <2>1. Stops!When(condition, x) = {}
    BY <1>1 DEF Stops!When
  <2> QED BY <2>1 DEF Settled
<1>2. CASE condition
  <2>1. Stops!When(condition, x) = {x}
    BY <1>2 DEF Stops!When
  <2>2. CASE set = {}
    BY <2>1, <2>2 DEF Settled
  <2>3. CASE set # {}
    <3>1. PICK p \in set : \A q \in set : (p - q) * d >= 0
      BY <2>3 DEF Settled
    <3>2. set \subseteq Int /\ p \in Int
      BY <3>1 DEF Settled
    <3>3. CASE (p - x) * d >= 0
      BY <2>1, <3>1, <3>2, <3>3 DEF Settled
    <3>4. CASE ~((p - x) * d >= 0)
      <4>1. \A q \in set \cup {x} : (x - q) * d >= 0
        BY <3>1, <3>2, <3>4
      <4> QED BY <2>1, <3>2, <4>1 DEF Settled
    <3> QED BY <3>3, <3>4
  <2> QED BY <2>2, <2>3
<1> QED BY <1>1, <1>2

LEMMA TightestIsNumber ==
  ASSUME NEW proposals, NEW d \in {-1, 1}, Settled(proposals, d), NEW current \in Int
  PROVE  /\ Stops!Tightest(d, current, proposals) \in Int
         /\ proposals = {} => Stops!Tightest(d, current, proposals) = current
<1> DEFINE better == {p \in proposals : Stops!Tighter(d, p, current)}
<1>1. CASE better = {}
  BY <1>1 DEF Stops!Tightest
<1>2. CASE better # {}
  <2>1. PICK p \in proposals : \A q \in proposals : (p - q) * d >= 0
    BY <1>2 DEF Settled
  <2>2. proposals \subseteq Int
    BY DEF Settled
  <2>3. PICK q \in proposals : Stops!Tighter(d, q, current)
    BY <1>2
  <2>4. Stops!Tighter(d, p, current)
    BY <2>1, <2>2, <2>3 DEF Stops!Tighter
  <2>5. \E b \in better : \A r \in better : (b - r) * d >= 0
    BY <2>1, <2>4
  <2>6. Stops!Tightest(d, current, proposals)
          = CHOOSE b \in better : \A r \in better : (b - r) * d >= 0
    BY <1>2 DEF Stops!Tightest
  <2>7. Stops!Tightest(d, current, proposals) \in better
    BY <2>5, <2>6
  <2> QED BY <2>2, <2>7, <1>2
<1> QED BY <1>1, <1>2

LEMMA GridIsNumber == \A p \in Int : Stops!OnGrid(p) \in Int
  BY DEF Stops!OnGrid, Stops!Tick

(* What the manager sends is a tighter stop for a position that has one.   *)
LEMMA ManagerTightens ==
  ASSUME NEW pos \in Positions, NEW p \in Prices \cup {Open}, Stops!ManagerStop(pos, p) # 0
  PROVE  /\ Stops!ManagerStop(pos, p) \in Levels /\ pos.sl # 0
         /\ (Stops!ManagerStop(pos, p) - pos.sl) * pos.direction > 0
<1> DEFINE d == pos.direction
           proposals == Stops!ManagerProposals(pos, p)
           chosen == Stops!Tightest(d, pos.sl, proposals)
           stop0 == Stops!OnGrid(chosen)
           be == pos.open + 2 * Stops!Tick * d
           trail == p - (Stops!RiskUnit(pos) \div 2) * d
           half == 2 * Stops!Profit(pos, p) >= Stops!RiskUnit(pos)
           whole == Stops!Profit(pos, p) >= Stops!RiskUnit(pos)
<1>1. d \in {-1, 1} /\ pos.open = Open /\ pos.sl \in Nat /\ p \in Nat \ {0} /\ Open \in Nat \ {0}
      /\ Open < 2 * p /\ 2 * p < 3 * Open
  BY StopConstants DEF Positions, Stops!Directions
<1>2. Stops!RiskUnit(pos) = IF Open >= pos.sl THEN Open - pos.sl ELSE pos.sl - Open
  BY <1>1 DEF Stops!RiskUnit, Stops!Distance
<1>3. Stops!RiskUnit(pos) \in Nat
  BY <1>1, <1>2
<1>4. be \in Int /\ trail \in Int
  BY <1>1, <1>3 DEF Stops!Tick
<1>5. Stops!ManagerStop(pos, p) = stop0 /\ stop0 # pos.sl /\ Stops!Tighter(d, stop0, pos.sl)
      /\ ~((p - stop0) * d <= 0)
  BY DEF Stops!ManagerStop
<1>6. proposals = Stops!When(half, be) \cup Stops!When(whole, trail)
  BY DEF Stops!ManagerProposals
<1>7. Stops!Profit(pos, p) = (p - Open) * d
  BY <1>1 DEF Stops!Profit
<1> HIDE DEF d, be, trail
<1>8. Settled(proposals, d)
  <2>1. Settled({}, d)
    BY DEF Settled
  <2>2. Settled({} \cup Stops!When(half, be), d)
    BY <1>1, <1>4, <2>1, SettledGrows
  <2>3. Settled(({} \cup Stops!When(half, be)) \cup Stops!When(whole, trail), d)
    BY <1>1, <1>4, <2>2, SettledGrows
  <2>4. ({} \cup Stops!When(half, be)) \cup Stops!When(whole, trail) = proposals
    BY <1>6
  <2> QED BY <2>3, <2>4
<1>9. chosen \in Int /\ (proposals = {} => chosen = pos.sl)
  BY <1>1, <1>8, TightestIsNumber
<1>10. pos.sl # 0
  <2> SUFFICES ASSUME pos.sl = 0 PROVE FALSE
    OBVIOUS
  <2>1. ~half /\ ~whole
    BY <1>1, <1>2, <1>7
  <2>2. proposals = {}
    BY <1>6, <2>1 DEF Stops!When
  <2>3. stop0 = Stops!OnGrid(0)
    BY <1>9, <2>2
  <2>4. Stops!OnGrid(0) = 0
    BY DEF Stops!OnGrid, Stops!Tick
  <2> QED BY <1>5, <2>3, <2>4
<1> HIDE DEF chosen
<1>11. stop0 \in Int
  BY <1>9, GridIsNumber
<1> HIDE DEF stop0
<1>12. (stop0 - pos.sl) * d > 0
  BY <1>5, <1>10 DEF Stops!Tighter
<1>13. stop0 > 0
  BY <1>1, <1>5, <1>11, <1>12
<1> QED BY <1>5, <1>10, <1>11, <1>12, <1>13 DEF d, Levels

LEMMA ProposalsSettled ==
  ASSUME NEW pos \in Positions, NEW p \in Int, NEW extreme \in Int, NEW pinbar \in BOOLEAN,
         NEW most \in Int
  PROVE  Settled(Stops!ReasonerProposals(pos, p, extreme, pinbar, most), pos.direction)
<1> DEFINE d == pos.direction
           profit == Stops!Profit(pos, p)
           top == Stops!Larger(most, profit)
           locked == pos.open + (6 + (profit - 18) \div 2) * d
           A == {} \cup Stops!When(profit >= 18, pos.open + 6 * d)
           B == A \cup Stops!When(profit > 18, locked)
           C == B \cup Stops!When((p - (extreme - 4 * d)) * d > 0, extreme - 4 * d)
           D == C \cup Stops!When(profit >= 16 /\ pinbar, p - 8 * d)
           E == D \cup Stops!When(top >= Stops!ATR /\ (top - profit) * 100 >= 30 * top, p - 6 * d)
<1>1. d \in {-1, 1} /\ pos.open \in Int
  BY StopConstants DEF Positions, Stops!Directions
<1>2. profit \in Int
  BY <1>1 DEF Stops!Profit
<1>3. /\ pos.open + 6 * d \in Int /\ extreme - 4 * d \in Int /\ p - 8 * d \in Int
      /\ p - 6 * d \in Int
  BY <1>1
<1>4. locked \in Int
  <2>1. (profit - 18) \div 2 \in Int
    BY <1>2
  <2> QED BY <1>1, <2>1
<1>5. Stops!ReasonerProposals(pos, p, extreme, pinbar, most) = E
  BY DEF Stops!ReasonerProposals
<1> HIDE DEF d, profit, top, locked
<1>6. Settled({}, d)
  BY DEF Settled
<1>7. Settled(A, d)
  BY <1>1, <1>3, <1>6, SettledGrows
<1> HIDE DEF A
<1>8. Settled(B, d)
  BY <1>1, <1>4, <1>7, SettledGrows
<1> HIDE DEF B
<1>9. Settled(C, d)
  BY <1>1, <1>3, <1>8, SettledGrows
<1> HIDE DEF C
<1>10. Settled(D, d)
  BY <1>1, <1>3, <1>9, SettledGrows
<1> HIDE DEF D
<1>11. Settled(E, d)
  BY <1>1, <1>3, <1>10, SettledGrows
<1> QED BY <1>5, <1>11 DEF d

(* What the reasoner sends is tighter, if there is a stop at all.          *)
LEMMA ReasonerTightens ==
  ASSUME NEW pos \in Positions, NEW p \in Int, NEW extreme \in Int, NEW pinbar \in BOOLEAN,
         NEW most \in Int, Stops!ReasonerStop(pos, p, extreme, pinbar, most) # 0
  PROVE  LET stop0 == Stops!ReasonerStop(pos, p, extreme, pinbar, most)
         IN  /\ stop0 \in Levels
             /\ pos.sl # 0 => (stop0 - pos.sl) * pos.direction > 0
<1> DEFINE d == pos.direction
           chosen == Stops!Tightest(d, pos.sl,
                       Stops!ReasonerProposals(pos, p, extreme, pinbar, most))
           candidate == Stops!WithCorrectionBuffer(pos, p, chosen)
           onGrid == Stops!OnGrid(candidate)
           stop0 == Stops!ReasonerStop(pos, p, extreme, pinbar, most)
<1>1. d \in {-1, 1} /\ pos.sl \in Int
  BY DEF Positions, Stops!Directions
<1>2. chosen \in Int
  BY <1>1, ProposalsSettled, TightestIsNumber
<1> HIDE DEF chosen
<1>3. candidate \in Int
  BY <1>1, <1>2 DEF Stops!WithCorrectionBuffer
<1>4. stop0 = Stops!ValidateNewSl(pos, p, candidate)
  BY DEF Stops!ReasonerStop, chosen
<1> HIDE DEF candidate, stop0
<1>5. stop0 = onGrid /\ ~(onGrid <= 0) /\ Stops!Tighter(d, onGrid, pos.sl)
  BY <1>4 DEF Stops!ValidateNewSl, stop0
<1>6. onGrid \in Int
  BY <1>3, GridIsNumber
<1> HIDE DEF onGrid
<1>7. stop0 \in Levels /\ (pos.sl # 0 => (stop0 - pos.sl) * d > 0)
  BY <1>5, <1>6 DEF Stops!Tighter, Levels
<1> QED BY <1>7 DEF stop0

(* Going one way twice is going that way.                                  *)
LEMMA KeptByTightening ==
  ASSUME NEW a \in Int, NEW b \in Int, NEW c \in Int, NEW d \in {-1, 1},
         (a - b) * d >= 0, (b - c) * d >= 0
  PROVE  (a - c) * d >= 0
  OBVIOUS

LEMMA StopInit == Stops!Init => StopInv
<1> SUFFICES ASSUME Stops!Init PROVE StopInv
  OBVIOUS
<1> QED BY DEF Stops!Init, StopInv, StopTypes, StopKept

LEMMA StopOpens ==
  ASSUME StopInv, Stops!OpenPosition
  PROVE  StopInv'
<1>1. PICK d \in Stops!Directions, distance \in FirstStops, manual \in BOOLEAN :
        LET sl == IF distance = 0 THEN 0 ELSE Open - distance * d
        IN  /\ managed' = [direction |-> d, open |-> Open, sl |-> sl, manual |-> manual]
            /\ first' = sl
  BY DEF Stops!OpenPosition
<1> DEFINE sl == IF distance = 0 THEN 0 ELSE Open - distance * d
<1>2. /\ bestProfit' = 0 /\ policy' = "untracked" /\ manager' = Stops!Idle
      /\ reasoner' = Stops!Idle /\ UNCHANGED price
  BY DEF Stops!OpenPosition
<1>3. sl \in Nat
  BY StopConstants DEF Stops!Directions
<1>4. managed' = [direction |-> d, open |-> Open, sl |-> sl, manual |-> manual] /\ first' = sl
  BY <1>1
<1> HIDE DEF sl
<1>5. managed' \in Positions /\ managed'.sl = sl /\ managed'.direction = d
  BY <1>3, <1>4 DEF Positions
<1>6. StopTypes'
  BY <1>2, <1>3, <1>4, <1>5 DEF StopInv, StopTypes
<1>7. StopKept'
  BY <1>2, <1>3, <1>4, <1>5 DEF StopKept, Kept, Stops!Directions
<1> QED BY <1>6, <1>7 DEF StopInv

LEMMA StopMarketMoves ==
  ASSUME StopInv, Stops!MarketMoves
  PROVE  StopInv'
<1>1. PICK p \in Prices :
        /\ price' = p
        /\ bestProfit' = IF managed = Stops!NoPosition THEN bestProfit
                         ELSE Stops!Larger(bestProfit, Stops!Profit(managed, p))
  BY DEF Stops!MarketMoves
<1>2. UNCHANGED <<managed, policy, manager, reasoner, first>>
  BY DEF Stops!MarketMoves
<1>3. bestProfit' \in Nat
  <2>1. CASE managed = Stops!NoPosition
    BY <1>1, <2>1 DEF StopInv, StopTypes
  <2>2. CASE managed # Stops!NoPosition
    <3>1. Stops!Profit(managed, p) \in Int
      BY <2>2, StopConstants DEF StopInv, StopTypes, Positions, Stops!Profit, Stops!Directions
    <3>2. bestProfit \in Nat
      BY DEF StopInv, StopTypes
    <3> QED BY <1>1, <2>2, <3>1, <3>2 DEF Stops!Larger
  <2> QED BY <2>1, <2>2
<1> QED BY <1>1, <1>2, <1>3 DEF StopInv, StopTypes, StopKept, Kept

LEMMA StopClosed ==
  ASSUME StopInv, managed' = Stops!NoPosition, first' = 0, bestProfit' = 0,
         policy' \in Stops!Policies \cup {"untracked"}, UNCHANGED <<price, manager, reasoner>>
  PROVE  StopInv'
  BY DEF StopInv, StopTypes, StopKept

LEMMA StopUnmoved ==
  ASSUME StopInv, policy' \in Stops!Policies \cup {"untracked"},
         UNCHANGED <<price, managed, manager, reasoner, first, bestProfit>>
  PROVE  StopInv'
  BY DEF StopInv, StopTypes, StopKept, Kept

LEMMA StopManages ==
  ASSUME StopInv, Stops!ManagePositions
  PROVE  StopInv'
<1>1. policy' \in Stops!Policies \cup {"untracked"} /\ manager = Stops!Idle
      /\ UNCHANGED <<price, reasoner>>
  BY DEF Stops!ManagePositions, StopInv, StopTypes, Stops!Policies
<1>2. \/ UNCHANGED <<managed, manager, first, bestProfit>>
      \/ managed' = Stops!NoPosition /\ first' = 0 /\ bestProfit' = 0 /\ UNCHANGED manager
      \/ /\ managed # Stops!NoPosition /\ UNCHANGED <<managed, first, bestProfit>>
         /\ manager' = IF Stops!ManagerStop(managed, price) = 0 THEN Stops!Idle
                       ELSE [step |-> "gate", sl |-> Stops!ManagerStop(managed, price)]
  BY DEF Stops!ManagePositions
<1>3. CASE UNCHANGED <<managed, manager, first, bestProfit>>
  BY <1>1, <1>3, StopUnmoved
<1>4. CASE managed' = Stops!NoPosition /\ first' = 0 /\ bestProfit' = 0 /\ UNCHANGED manager
  BY <1>1, <1>4, StopClosed
<1>5. CASE /\ managed # Stops!NoPosition /\ UNCHANGED <<managed, first, bestProfit>>
           /\ manager' = IF Stops!ManagerStop(managed, price) = 0 THEN Stops!Idle
                         ELSE [step |-> "gate", sl |-> Stops!ManagerStop(managed, price)]
  <2> DEFINE level == Stops!ManagerStop(managed, price)
  <2>1. managed \in Positions /\ price \in Prices \cup {Open} /\ first \in Nat
    BY <1>5 DEF StopInv, StopTypes
  <2>2. level # 0 => /\ level \in Levels /\ managed.sl # 0
                     /\ (level - managed.sl) * managed.direction > 0
    BY <2>1, ManagerTightens
  <2>3. manager' = IF level = 0 THEN Stops!Idle ELSE [step |-> "gate", sl |-> level]
    BY <1>5
  <2> HIDE DEF level
  <2>4. manager' = Stops!Idle \/ (manager' \in ManagerOrders /\ manager'.sl = level /\ level # 0)
    BY <2>2, <2>3 DEF ManagerOrders
  <2>5. level # 0 => first # 0 /\ Kept(level)
    <3> SUFFICES ASSUME level # 0 PROVE first # 0 /\ Kept(level)
      OBVIOUS
    <3>1. first # 0 /\ (managed.sl - first) * managed.direction >= 0
      BY <1>5, <2>2 DEF StopInv, StopKept, Kept
    <3>2. level \in Int /\ managed.sl \in Int /\ managed.direction \in {-1, 1}
      BY <2>1, <2>2 DEF Levels, Positions, Stops!Directions
    <3>3. (level - managed.sl) * managed.direction >= 0
      BY <2>2, <3>2
    <3> QED BY <2>1, <3>1, <3>2, <3>3, KeptByTightening DEF Kept
  <2> QED BY <1>1, <1>5, <2>4, <2>5 DEF StopInv, StopTypes, StopKept, Kept
<1> QED BY <1>2, <1>3, <1>4, <1>5

LEMMA StopModifies ==
  ASSUME StopInv, Stops!ModifyPosition
  PROVE  StopInv'
<1>1. /\ manager' = Stops!Idle \/ manager' = [manager EXCEPT !.step = "send"]
      /\ manager.step = "gate" /\ UNCHANGED <<price, managed, policy, reasoner, first, bestProfit>>
  BY DEF Stops!ModifyPosition
<1>2. manager \in ManagerOrders
  BY <1>1 DEF StopInv, StopTypes, Stops!Idle
<1>3. manager' = Stops!Idle \/ (manager' \in ManagerOrders /\ manager'.sl = manager.sl)
  BY <1>1, <1>2 DEF ManagerOrders
<1>4. manager # Stops!Idle
  BY <1>1 DEF Stops!Idle
<1> QED BY <1>1, <1>3, <1>4 DEF StopInv, StopTypes, StopKept, Kept

(* A stop that keeps to the first one is set, or the first one is.         *)
LEMMA StopSent ==
  ASSUME StopInv, NEW writer, writer.sl \in Levels, Stops!Send(writer),
         managed # Stops!NoPosition => (first = 0 \/ Kept(writer.sl)),
         UNCHANGED <<price, policy, bestProfit>>,
         \/ manager' = Stops!Idle /\ UNCHANGED reasoner
         \/ reasoner' = Stops!Idle /\ UNCHANGED manager,
         first = 0 => reasoner' = Stops!Idle \/ managed = Stops!NoPosition
  PROVE  StopInv'
<1>1. PICK accepted \in BOOLEAN :
        /\ accepted => managed # Stops!NoPosition
        /\ managed' = IF accepted THEN [managed EXCEPT !.sl = writer.sl] ELSE managed
        /\ first' = IF accepted /\ first = 0 THEN writer.sl ELSE first
  BY DEF Stops!Send
<1>2. CASE ~accepted
  BY <1>1, <1>2 DEF StopInv, StopTypes, StopKept, Kept
<1>3. CASE accepted
  <2>1. managed \in Positions
    BY <1>1, <1>3 DEF StopInv, StopTypes
  <2>2. /\ managed' \in Positions /\ managed'.sl = writer.sl
        /\ managed'.direction = managed.direction
    BY <1>1, <1>3, <2>1 DEF Positions, Levels
  <2>3. writer.sl \in Nat /\ writer.sl # 0 /\ first \in Nat /\ first' \in Nat /\ first' # 0
    BY <1>1, <1>3 DEF Levels, StopInv, StopTypes
  <2>4. StopTypes'
    BY <2>2, <2>3 DEF StopInv, StopTypes
  <2>5. CASE first = 0
    <3>1. first' = writer.sl /\ managed # Stops!NoPosition
      BY <1>1, <1>3, <2>5
    <3>2. manager = Stops!Idle /\ reasoner' = Stops!Idle
      BY <2>5, <3>1 DEF StopInv, StopKept
    <3>3. manager' = Stops!Idle
      BY <3>2
    <3>4. managed'.sl # 0 /\ (managed'.sl - first') * managed'.direction >= 0
      BY <2>2, <2>3, <3>1, <2>1 DEF Positions, Stops!Directions
    <3> QED BY <2>2, <2>3, <2>4, <3>1, <3>2, <3>3, <3>4 DEF StopInv, StopKept, Kept
  <2>6. CASE first # 0
    <3>1. first' = first /\ managed # Stops!NoPosition
      BY <1>1, <1>3, <2>6
    <3>2. Kept(writer.sl)
      BY <2>6, <3>1
    <3> QED BY <2>2, <2>3, <2>4, <2>6, <3>1, <3>2 DEF StopInv, StopKept, Kept
  <2> QED BY <2>5, <2>6
<1> QED BY <1>2, <1>3

LEMMA StopEvaluates ==
  ASSUME StopInv, Stops!EvaluatePosition
  PROVE  StopInv'
<1>1. PICK extreme \in Lows, pinbar \in BOOLEAN :
        LET level == Stops!ReasonerStop(managed, price, Open - extreme * managed.direction, pinbar,
                                        bestProfit)
        IN  level # 0 /\ reasoner' = [step |-> "send", sl |-> level]
  BY DEF Stops!EvaluatePosition
<1> DEFINE level == Stops!ReasonerStop(managed, price, Open - extreme * managed.direction, pinbar,
                                       bestProfit)
<1>2. managed # Stops!NoPosition /\ UNCHANGED <<price, managed, policy, manager, first, bestProfit>>
  BY DEF Stops!EvaluatePosition
<1>3. managed \in Positions /\ price \in Int /\ bestProfit \in Int /\ first \in Nat
      /\ Open - extreme * managed.direction \in Int
  BY <1>2, StopConstants DEF StopInv, StopTypes, Positions, Stops!Directions
<1>4. /\ level \in Levels
      /\ managed.sl # 0 => (level - managed.sl) * managed.direction > 0
  BY <1>1, <1>3, ReasonerTightens
<1>5. reasoner' = [step |-> "send", sl |-> level]
  BY <1>1
<1> HIDE DEF level
<1>6. reasoner' \in ReasonerOrders /\ reasoner'.sl = level
  BY <1>4, <1>5 DEF ReasonerOrders
<1>7. first = 0 \/ Kept(level)
  <2> SUFFICES ASSUME first # 0 PROVE Kept(level)
    OBVIOUS
  <2>1. managed.sl # 0 /\ (managed.sl - first) * managed.direction >= 0
    BY <1>2 DEF StopInv, StopKept, Kept
  <2>2. level \in Int /\ managed.sl \in Int /\ managed.direction \in {-1, 1}
    BY <1>3, <1>4 DEF Levels, Positions, Stops!Directions
  <2>3. (level - managed.sl) * managed.direction >= 0
    BY <1>4, <2>1, <2>2
  <2> QED BY <1>3, <2>1, <2>2, <2>3, KeptByTightening DEF Kept
<1> QED BY <1>2, <1>6, <1>7 DEF StopInv, StopTypes, StopKept, Kept

LEMMA StopInductive == StopInv /\ [Stops!Next]_stopVars => StopInv'
<1> SUFFICES ASSUME StopInv, [Stops!Next]_stopVars PROVE StopInv'
  OBVIOUS
<1>1. CASE UNCHANGED stopVars
  BY <1>1 DEF stopVars, StopInv, StopTypes, StopKept, Kept
<1>2. CASE Stops!OpenPosition
  BY <1>2, StopOpens
<1>3. CASE Stops!MarketMoves
  BY <1>3, StopMarketMoves
<1>4. CASE Stops!BrokerCloses
  <2>1. policy \in Stops!Policies \cup {"untracked"}
    BY DEF StopInv, StopTypes
  <2> QED BY <1>4, <2>1, StopClosed DEF Stops!BrokerCloses
<1>5. CASE Stops!SetManualPolicy
  BY <1>5, StopUnmoved DEF Stops!SetManualPolicy
<1>6. CASE Stops!ManagePositions
  BY <1>6, StopManages
<1>7. CASE Stops!ModifyPosition
  BY <1>7, StopModifies
<1>8. CASE Stops!ManagerSends
  <2>1. /\ manager.step = "send" /\ Stops!Send(manager) /\ manager' = Stops!Idle
        /\ UNCHANGED <<price, policy, reasoner, bestProfit>>
    BY <1>8 DEF Stops!ManagerSends
  <2>2. manager # Stops!Idle /\ manager \in ManagerOrders
    BY <2>1 DEF StopInv, StopTypes, Stops!Idle
  <2>3. manager.sl \in Levels
    BY <2>2 DEF ManagerOrders
  <2>4. managed # Stops!NoPosition => first # 0 /\ Kept(manager.sl)
    BY <2>2 DEF StopInv, StopKept
  <2> QED BY <2>1, <2>3, <2>4, StopSent
<1>9. CASE Stops!EvaluatePosition
  BY <1>9, StopEvaluates
<1>10. CASE Stops!ReasonerSends
  <2>1. /\ reasoner.step = "send" /\ Stops!Send(reasoner) /\ reasoner' = Stops!Idle
        /\ UNCHANGED <<price, policy, manager, bestProfit>>
    BY <1>10 DEF Stops!ReasonerSends
  <2>2. reasoner # Stops!Idle /\ reasoner \in ReasonerOrders
    BY <2>1 DEF StopInv, StopTypes, Stops!Idle
  <2>3. reasoner.sl \in Levels
    BY <2>2 DEF ReasonerOrders
  <2>4. managed # Stops!NoPosition => first = 0 \/ Kept(reasoner.sl)
    BY <2>2 DEF StopInv, StopKept
  <2> QED BY <2>1, <2>3, <2>4, StopSent
<1> QED BY <1>1, <1>2, <1>3, <1>4, <1>5, <1>6, <1>7, <1>8, <1>9, <1>10 DEF Stops!Next

(* Every variable of the two writers has its type, and the stop keeps to   *)
(* the first one.                                                          *)
LEMMA StopSound == StopInv => NeverLooserThanFirstStop /\ Stops!TypeOK
<1> SUFFICES ASSUME StopInv PROVE NeverLooserThanFirstStop /\ Stops!TypeOK
  OBVIOUS
<1>1. NeverLooserThanFirstStop
  BY DEF StopInv, StopKept, Kept, NeverLooserThanFirstStop, Stops!NeverLooserThanFirstStop
<1>2. managed # Stops!NoPosition => managed.direction \in Stops!Directions /\ managed.sl >= 0
  BY DEF StopInv, StopTypes, Positions
<1>3. manager.step \in {"idle", "gate", "send"} /\ reasoner.step \in {"idle", "send"}
  BY DEF StopInv, StopTypes, ManagerOrders, ReasonerOrders, Stops!Idle
<1> QED BY <1>1, <1>2, <1>3 DEF StopInv, StopTypes, Stops!TypeOK

-----------------------------------------------------------------------------
(* The location of the market.                                             *)

LEMMA MarketConstants ==
    /\ Left \in Nat /\ Right \in Nat /\ MaxBars \in Nat /\ Window \in Nat \ {0}
    /\ AtrValues \subseteq Nat /\ Ticks \subseteq Nat
  BY RulesAssumption DEF RulesAssumption, Market!LocationAssumption

MarketInv ==
    /\ bars \in Seq(Shapes) /\ Len(bars) <= MaxBars
    /\ bars # <<>> => \E atr \in AtrValues :
         view = [t \in Ticks |-> Market!AnalyseLocation(bars, t, atr)]

LEMMA HostAfterLeft ==
  ASSUME NEW bs, Len(bs) \in Nat
  PROVE  Market!FirstHost(bs) \in Nat /\ Market!FirstHost(bs) >= Left + 1
  BY MarketConstants DEF Market!FirstHost, Market!Oldest, Market!Larger

(* What is a swing is one of its kind at its bar.                          *)
LEMMA SwingsWhere ==
  ASSUME NEW bs, NEW Where, NEW right, NEW swing
  PROVE  swing \in Market!SwingsAmong(bs, Where, right) <=>
           \E kind \in Market!Kinds, i \in Where :
             /\ swing = Market!SwingAt(bs, kind, i)
             /\ Market!Pivot(bs, kind, i, i - Left .. Market!Smaller(i + right, Len(bs)))
<1> DEFINE Judged(kind, i) == Market!Pivot(bs, kind, i, i - Left .. Market!Smaller(i + right, Len(bs)))
           Places == {p \in Market!Kinds \X Where : Judged(p[1], p[2])}
<1>1. Market!SwingsAmong(bs, Where, right) = {Market!SwingAt(bs, p[1], p[2]) : p \in Places}
  BY DEF Market!SwingsAmong
<1> HIDE DEF Judged
<1>2. \A kind \in Market!Kinds, i \in Where : Judged(kind, i) => <<kind, i>> \in Places
  OBVIOUS
<1>3. \A p \in Places : p[1] \in Market!Kinds /\ p[2] \in Where /\ Judged(p[1], p[2])
  OBVIOUS
<1> HIDE DEF Places
<1>4. swing \in Market!SwingsAmong(bs, Where, right) <=>
        \E p \in Places : swing = Market!SwingAt(bs, p[1], p[2])
  BY <1>1
<1>5. \A kind, i : Market!SwingAt(bs, <<kind, i>>[1], <<kind, i>>[2]) = Market!SwingAt(bs, kind, i)
  OBVIOUS
<1>6. swing \in Market!SwingsAmong(bs, Where, right) <=>
        \E kind \in Market!Kinds, i \in Where :
          swing = Market!SwingAt(bs, kind, i) /\ Judged(kind, i)
  BY <1>2, <1>3, <1>4, <1>5
<1> QED BY <1>6 DEF Judged

(* The tail and the confirmed part of a series share no swing.             *)
LEMMA TailApart ==
  ASSUME NEW bs, Len(bs) \in Nat
  PROVE  Market!TailSwings(bs) \cap Market!ConfirmedSwings(bs) = {}
<1> SUFFICES ASSUME NEW s, s \in Market!TailSwings(bs), s \in Market!ConfirmedSwings(bs)
             PROVE  FALSE
  OBVIOUS
<1>1. PICK k \in Market!Kinds,
           i \in Market!Larger(Market!FirstHost(bs), Len(bs) - Right + 1) .. Len(bs) :
        s = Market!SwingAt(bs, k, i)
  <2> DEFINE Where == Market!Larger(Market!FirstHost(bs), Len(bs) - Right + 1) .. Len(bs)
  <2>1. s \in Market!SwingsAmong(bs, Where, Right)
    BY DEF Market!TailSwings
  <2> HIDE DEF Where
  <2>2. \E k \in Market!Kinds, i \in Where : s = Market!SwingAt(bs, k, i)
    BY <2>1, SwingsWhere
  <2> QED BY <2>2 DEF Where
<1>2. PICK m \in Market!Kinds, j \in Market!FirstHost(bs) .. Len(bs) - Right :
        s = Market!SwingAt(bs, m, j)
  <2> DEFINE Where == Market!FirstHost(bs) .. Len(bs) - Right
  <2>1. s \in Market!SwingsAmong(bs, Where, Right)
    BY DEF Market!ConfirmedSwings
  <2> HIDE DEF Where
  <2>2. \E m \in Market!Kinds, j \in Where : s = Market!SwingAt(bs, m, j)
    BY <2>1, SwingsWhere
  <2> QED BY <2>2 DEF Where
<1>3. i = j
  BY <1>1, <1>2 DEF Market!SwingAt
<1>4. i >= Len(bs) - Right + 1
  BY <1>1, MarketConstants, HostAfterLeft DEF Market!Larger
<1> QED BY <1>2, <1>3, <1>4, MarketConstants, HostAfterLeft

(* A confirmed pivot was judged by bars that are closed: another bar       *)
(* changes none of them, and it stays while the window reaches it.         *)
LEMMA ConfirmedStays ==
  ASSUME NEW bs \in Seq(Shapes), NEW b \in Shapes
  PROVE  {s \in Market!ConfirmedSwings(bs) : s.at >= Market!FirstHost(Append(bs, b))}
           \subseteq Market!ConfirmedSwings(Append(bs, b))
<1> DEFINE cs == Append(bs, b)
<1>1. Len(bs) \in Nat /\ Len(cs) = Len(bs) + 1 /\ \A j \in 1..Len(bs) : cs[j] = bs[j]
  BY AppendProperties
<1> HIDE DEF cs
<1> SUFFICES ASSUME NEW s, s \in Market!ConfirmedSwings(bs), s.at >= Market!FirstHost(cs)
             PROVE  s \in Market!ConfirmedSwings(cs)
  BY DEF cs
<1>2. PICK k \in Market!Kinds, i \in Market!FirstHost(bs) .. Len(bs) - Right :
        /\ s = Market!SwingAt(bs, k, i)
        /\ Market!Pivot(bs, k, i, i - Left .. Market!Smaller(i + Right, Len(bs)))
  BY SwingsWhere DEF Market!ConfirmedSwings
<1>3. i \in Left + 1 .. Len(bs) - Right /\ i \in 1..Len(bs) /\ i \in Market!FirstHost(cs) .. Len(cs) - Right
  <2>1. Market!FirstHost(bs) >= Left + 1 /\ Market!FirstHost(bs) \in Nat
        /\ Market!FirstHost(cs) \in Nat /\ Left \in Nat /\ Right \in Nat
    BY <1>1, MarketConstants, HostAfterLeft
  <2>2. i >= Market!FirstHost(cs)
    BY <1>2 DEF Market!SwingAt
  <2> QED BY <1>1, <2>1, <2>2
<1>4. i - Left .. Market!Smaller(i + Right, Len(bs)) = i - Left .. Market!Smaller(i + Right, Len(cs))
  BY <1>1, <1>3, MarketConstants DEF Market!Smaller
<1> DEFINE window == i - Left .. Market!Smaller(i + Right, Len(bs))
<1>5. window \subseteq 1..Len(bs)
  BY <1>1, <1>3, MarketConstants DEF Market!Smaller
<1> HIDE DEF window
<1>6. \A j \in window \cup {i} : Market!Extreme(cs, k, j) = Market!Extreme(bs, k, j)
  BY <1>1, <1>3, <1>5 DEF Market!Extreme
<1>7. Market!Pivot(bs, k, i, window) => Market!Pivot(cs, k, i, window)
  BY <1>6 DEF Market!Pivot
<1>8. Market!SwingAt(cs, k, i) = Market!SwingAt(bs, k, i)
  BY <1>1, <1>3 DEF Market!SwingAt
<1>9. Market!Pivot(cs, k, i, i - Left .. Market!Smaller(i + Right, Len(cs)))
  BY <1>2, <1>4, <1>7 DEF window
<1> QED BY <1>2, <1>3, <1>8, <1>9, SwingsWhere DEF Market!ConfirmedSwings

LEMMA MarketInit == Market!Init => MarketInv
  BY MarketConstants DEF Market!Init, MarketInv

LEMMA MarketInductive == MarketInv /\ [Market!Next]_marketVars => MarketInv'
<1> SUFFICES ASSUME MarketInv, [Market!Next]_marketVars PROVE MarketInv'
  OBVIOUS
<1>1. CASE UNCHANGED marketVars
  BY <1>1 DEF MarketInv, marketVars
<1>2. CASE Market!Next
  <2>1. PICK b \in Shapes, atr \in AtrValues :
          /\ bars' = Append(bars, b)
          /\ view' = [t \in Ticks |-> Market!AnalyseLocation(bars', t, atr)]
    BY <1>2 DEF Market!Next, Market!CloseBar
  <2>2. Len(bars) < MaxBars
    BY <1>2 DEF Market!Next, Market!CloseBar
  <2>3. bars' \in Seq(Shapes) /\ Len(bars') = Len(bars) + 1 /\ Len(bars) \in Nat
    BY <2>1, AppendProperties DEF MarketInv
  <2> QED BY <2>1, <2>2, <2>3, MarketConstants DEF MarketInv
<1> QED BY <1>1, <1>2

LEMMA MarketTyped == MarketInv => Market!TypeOK
<1> SUFFICES ASSUME MarketInv PROVE Market!TypeOK
  OBVIOUS
<1>1. ASSUME bars # <<>>, NEW t \in Ticks
      PROVE  /\ view[t].atr \in AtrValues
             /\ view[t].bias \in {"PREMIUM", "UPPER_MID", "MID", "LOWER_MID", "DISCOUNT",
                                  "UNDEFINED"}
             /\ view[t].structure.bias \in {"BULLISH", "BEARISH", "RANGING", "UNDEFINED"}
  <2>1. PICK atr \in AtrValues : view[t] = Market!AnalyseLocation(bars, t, atr)
    BY <1>1 DEF MarketInv
  <2>2. view[t].bias = Market!RangePosition(bars[Len(bars)].close, Market!ActiveRange(bars, atr))
        /\ view[t].structure = Market!Structure(bars) /\ view[t].atr = atr
    BY <2>1 DEF Market!AnalyseLocation
  <2>3. \A p, r : Market!RangePosition(p, r) \in
          {"PREMIUM", "UPPER_MID", "MID", "LOWER_MID", "DISCOUNT", "UNDEFINED"}
    BY DEF Market!RangePosition
  <2>4. \A h, l : Market!BiasOf(h, l) \in {"BULLISH", "BEARISH", "RANGING", "UNDEFINED"}
    BY DEF Market!BiasOf
  <2>5. Market!Structure(bars).bias \in {"BULLISH", "BEARISH", "RANGING", "UNDEFINED"}
    BY <2>4 DEF Market!Structure
  <2> QED BY <2>2, <2>3, <2>5
<1>2. Market!TailSwings(bars) \cap Market!ConfirmedSwings(bars) = {}
  BY TailApart DEF MarketInv
<1> QED BY <1>1, <1>2 DEF MarketInv, Market!TypeOK

-----------------------------------------------------------------------------
(* What the invariants say, for every value of the constants.              *)

(* _day_pnl and DailyTargetTracker: no trade opens on a day that was seen  *)
(* to reach its target, whatever is banked or edited afterwards.           *)
THEOREM LockedDayStaysShut == Spec => []NoEntryAfterLock
<1>1. Init => EntryInv
  BY EntryInit DEF Init
<1>2. EntryInv /\ [Next]_vars => EntryInv'
  BY EntriesStep, EntryInductive
<1>3. EntryInv => NoEntryAfterLock
  BY DEF EntryInv, EntrySafe, NoEntryAfterLock
<1> QED BY <1>1, <1>2, <1>3, PTL DEF Spec

(* DirectionCooldown: after a losing trade no other opens in its direction *)
(* until the pause is over, however the loss was learnt.                   *)
THEOREM LosersPause == Spec => []LosingDirectionPauses
<1>1. Init => EntryInv
  BY EntryInit DEF Init
<1>2. EntryInv /\ [Next]_vars => EntryInv'
  BY EntriesStep, EntryInductive
<1>3. EntryInv => LosingDirectionPauses
  BY DEF EntryInv, EntrySafe, LosingDirectionPauses
<1> QED BY <1>1, <1>2, <1>3, PTL DEF Spec

(* _size_lot: the loss at the stop keeps to the budget of the scalers, or  *)
(* to the allowed overshoot when the minimum lot is forced; a reduced rung *)
(* and, where the bot counts it, a losing streak halve that budget.        *)
THEOREM EntryKeepsBudget == Spec => []EntryRiskIsBounded
<1>1. Init => EntryInv
  BY EntryInit DEF Init
<1>2. EntryInv /\ [Next]_vars => EntryInv'
  BY EntriesStep, EntryInductive
<1>3. EntryInv => EntryRiskIsBounded
  BY DEF EntryInv, EntrySafe, EntryRiskIsBounded
<1> QED BY <1>1, <1>2, <1>3, PTL DEF Spec

(* approve and the orchestrator: under the kill switch a thread sends at   *)
(* most the order of the call that was running, and a symbol exceeds its   *)
(* cap by at most the other threads and the requests that were executed    *)
(* after an answer that settled nothing.                                   *)
THEOREM GateHolds == Spec => []RiskGateIsSound
<1>1. Init => GateInv
  BY GateInit DEF Init
<1>2. GateInv /\ [Next]_vars => GateInv'
  BY GateStep, GateInductive
<1> QED BY <1>1, <1>2, GateSound, PTL DEF Spec

(* PositionManager and DynamicSLTPReasoner: neither ever loosens the stop  *)
(* past the first one the position had.                                    *)
THEOREM StopNeverLooser == Spec => []NeverLooserThanFirstStop
<1>1. Init => StopInv
  BY StopInit DEF Init
<1>2. StopInv /\ [Next]_vars => StopInv'
  BY StopsStep, StopInductive
<1> QED BY <1>1, <1>2, StopSound, PTL DEF Spec

(* Every variable of the four components has its type.                     *)
THEOREM RulesType == Spec => []TypeOK
<1> DEFINE Inv == EntryInv /\ GateInv /\ MarketInv /\ StopInv
<1>1. Init => Inv
  BY EntryInit, GateInit, MarketInit, StopInit DEF Init
<1>2. Inv /\ [Next]_vars => Inv'
  BY EntriesStep, EntryInductive, GateStep, GateInductive, MarketStep, MarketInductive,
     StopsStep, StopInductive
<1>3. Inv => TypeOK
  <2>1. EntryInv => Entries!TypeOK
    BY DEF EntryInv, EntryTypes, Held, Seen, States, Entries!TypeOK
  <2> QED BY <2>1, GateSound, MarketTyped, StopSound DEF TypeOK
<1> QED BY <1>1, <1>2, <1>3, PTL DEF Spec

=============================================================================
