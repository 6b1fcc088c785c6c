------------------------ MODULE BotRiskLadder_proofs ------------------------
(***************************************************************************)
(* Proofs about BotRiskLadder, for every set of equities, every cap and    *)
(* every bound.                                                            *)
(***************************************************************************)
EXTENDS BotRiskLadder, TLAPS

Halts == {"none", "weekly", "total"}

\* The dates of a clock are integers.
LEMMA DateType == ASSUME NEW t \in Nat PROVE Day(t) \in Int /\ Week(t) \in Int
BY LadderAssumption DEF Day, Week

\* A new process's memory and the content of a missing file have the right type.
LEMMA BlankType == BlankState \in MemType
BY LadderAssumption DEF BlankState, MemType, Never

\* Restoring and recording keep the type; neither invents a halt.
LEMMA RestoredType ==
    ASSUME NEW m \in MemType, NEW st \in MemType, NEW e \in Equities \union {0}, Today \in Int
    PROVE  /\ Restored(m, st, e) \in MemType
           /\ Restored(m, st, e).dailyDate = Today
           /\ Restored(m, st, e).dailyStart =
                IF st.dailyDate = Today /\ st.dailyStart > 0 THEN st.dailyStart ELSE e
           /\ Restored(m, st, e).cooldown =
                IF st.cooldown # Never THEN st.cooldown ELSE m.cooldown
           /\ Restored(m, st, e).peak = IF st.peak > e THEN st.peak ELSE e
           /\ Restored(m, st, e).weekKey = st.weekKey
           /\ Restored(m, st, e).halt = st.halt
<1> DEFINE r == RestoredWithoutHalt(m, st, e)
<1>1. r \in MemType
  <2> DEFINE sameDay == st.dailyDate = Today /\ st.dailyStart > 0
             sameTradeDay == st.tradeDate = Today
             start == IF sameDay THEN st.dailyStart ELSE e
             closed == IF sameDay THEN st.ddClosed ELSE m.ddClosed
             tradeDate == IF sameTradeDay THEN Today ELSE m.tradeDate
             trades == IF sameTradeDay THEN st.trades ELSE m.trades
             cooldown == IF st.cooldown # Never THEN st.cooldown ELSE m.cooldown
             peak == IF st.peak > e THEN st.peak ELSE e
  <2>1. start \in Equities \union {0} /\ closed \in BOOLEAN /\ tradeDate \in Int
    BY DEF MemType
  <2>2. trades \in 0..MaxTrades /\ cooldown \in Int /\ peak \in Equities \union {0}
    BY DEF MemType
  <2>3. r = [m EXCEPT !.dailyDate = Today, !.dailyStart = start, !.ddClosed = closed,
                      !.tradeDate = tradeDate, !.trades = trades, !.streak = st.streak,
                      !.cooldown = cooldown, !.peak = peak, !.weekKey = st.weekKey,
                      !.weekStart = st.weekStart]
    BY DEF RestoredWithoutHalt
  <2> HIDE DEF sameDay, sameTradeDay, start, closed, tradeDate, trades, cooldown, peak, r
  <2> QED
    BY <2>1, <2>2, <2>3 DEF MemType
<1>2. /\ r.dailyDate = Today
      /\ r.dailyStart = IF st.dailyDate = Today /\ st.dailyStart > 0 THEN st.dailyStart ELSE e
      /\ r.cooldown = IF st.cooldown # Never THEN st.cooldown ELSE m.cooldown
      /\ r.peak = IF st.peak > e THEN st.peak ELSE e
      /\ r.weekKey = st.weekKey
  BY DEF RestoredWithoutHalt, MemType
<1>3. Restored(m, st, e) = [r EXCEPT !.halt = st.halt]
  BY DEF Restored
<1> HIDE DEF r
<1> QED
  BY <1>1, <1>2, <1>3 DEF MemType

LEMMA RecordedType ==
    ASSUME NEW m \in MemType, NEW pnl \in {-1, 0, 1}, now \in Nat
    PROVE  /\ Recorded(m, pnl) \in MemType
           /\ Recorded(m, pnl).dailyDate = m.dailyDate
           /\ Recorded(m, pnl).dailyStart = m.dailyStart
           /\ Recorded(m, pnl).peak = m.peak
           /\ Recorded(m, pnl).weekKey = m.weekKey
           /\ Recorded(m, pnl).halt = m.halt
           /\ Recorded(m, pnl).cooldown =
                IF pnl < 0 /\ m.streak + 1 >= MaxStreak THEN now + Cooldown ELSE m.cooldown
<1> USE LadderAssumption DEF MemType
<1>1. CASE pnl > 0
  <2>1. Recorded(m, pnl) = [m EXCEPT !.streak = 0]
    BY <1>1 DEF Recorded
  <2> QED
    BY <1>1, <2>1
<1>2. CASE pnl < 0 /\ m.streak + 1 < MaxStreak
  <2>1. Recorded(m, pnl) = [m EXCEPT !.streak = @ + 1]
    BY <1>2 DEF Recorded
  <2> QED
    BY <1>2, <2>1
<1>3. CASE pnl < 0 /\ m.streak + 1 >= MaxStreak
  <2>1. Recorded(m, pnl) = [m EXCEPT !.streak = 0, !.cooldown = now + Cooldown]
    BY <1>3 DEF Recorded
  <2>2. 0 \in 0..MaxStreak - 1 /\ now + Cooldown \in Int
    OBVIOUS
  <2> QED
    BY <1>3, <2>1, <2>2
<1>4. CASE pnl = 0
  <2>1. Recorded(m, pnl) = m
    BY <1>4 DEF Recorded
  <2> QED
    BY <1>4, <2>1
<1> QED
  BY <1>1, <1>2, <1>3, <1>4

\* What closing the position does to the fields the invariant relates: they move
\* together in memory and on disk, and a cooldown it arms is the latest one.
LEMMA ClosedEffect ==
    ASSUME mem \in MemType, disk \in MemType, cool \in Int, now \in Nat, open \in BOOLEAN,
           NEW closed \in BOOLEAN, Closed(closed)
    PROVE  /\ mem' \in MemType /\ disk' \in MemType /\ cool' \in Int /\ open' \in BOOLEAN
           /\ open' => open
           /\ mem'.dailyDate = mem.dailyDate /\ mem'.dailyStart = mem.dailyStart
           /\ mem'.peak = mem.peak /\ mem'.weekKey = mem.weekKey /\ mem'.halt = mem.halt
           /\ \/ /\ disk'.dailyDate = mem.dailyDate /\ disk'.dailyStart = mem.dailyStart
                 /\ disk'.peak = mem.peak /\ disk'.weekKey = mem.weekKey
                 /\ disk'.halt = mem.halt /\ disk'.cooldown = mem'.cooldown
                 /\ \/ mem'.cooldown = now + Cooldown /\ cool' = now + Cooldown
                    \/ mem'.cooldown = mem.cooldown /\ cool' = cool
              \/ disk' = disk /\ mem'.cooldown = mem.cooldown /\ cool' = cool
<1>1. CASE mem' = [mem EXCEPT !.ddClosed = closed] /\ UNCHANGED <<open, disk, cool>>
  BY <1>1 DEF MemType
<1>2. ASSUME NEW pnl \in {-1, 0, 1}, open, ~open',
             disk' = Recorded(mem, pnl),
             mem' = [Recorded(mem, pnl) EXCEPT !.ddClosed = closed],
             cool' = IF pnl < 0 /\ mem.streak + 1 >= MaxStreak THEN now + Cooldown ELSE cool
      PROVE  /\ mem' \in MemType /\ disk' \in MemType /\ cool' \in Int
             /\ mem'.dailyDate = mem.dailyDate /\ mem'.dailyStart = mem.dailyStart
             /\ mem'.peak = mem.peak /\ mem'.weekKey = mem.weekKey /\ mem'.halt = mem.halt
             /\ disk'.dailyDate = mem.dailyDate /\ disk'.dailyStart = mem.dailyStart
             /\ disk'.peak = mem.peak /\ disk'.weekKey = mem.weekKey
             /\ disk'.halt = mem.halt /\ disk'.cooldown = mem'.cooldown
             /\ \/ mem'.cooldown = now + Cooldown /\ cool' = now + Cooldown
                \/ mem'.cooldown = mem.cooldown /\ cool' = cool
  <2>1. Recorded(mem, pnl) \in MemType
    BY RecordedType
  <2>2. /\ mem' \in MemType
        /\ \A f \in {"dailyDate", "dailyStart", "peak", "weekKey", "halt", "cooldown"} :
             mem'[f] = Recorded(mem, pnl)[f]
    BY <1>2, <2>1 DEF MemType
  <2>3. now + Cooldown \in Int
    BY LadderAssumption
  <2> QED
    BY <1>2, <2>1, <2>2, <2>3, RecordedType
<1> QED
  BY <1>1, <1>2 DEF Closed

---------------------------------------------------------------------------
(* Type correctness *)

\* Counting an upset keeps the counter within its bound.
LEMMA UpsetType ==
    ASSUME upsets \in 0..MaxUpsets, NEW e \in Equities \union {0}, Upset \/ Reads(e)
    PROVE  upsets' \in 0..MaxUpsets
BY LadderAssumption DEF Upset, Reads

\* Constants of the model in the sets the fields range over.
LEMMA Constants ==
    /\ Never \in Int /\ 0 \in 0..MaxStreak - 1 /\ 0 \in 0..MaxTrades /\ 0 \in 0..MaxTime
    /\ 0 \in 0..MaxUpsets
    /\ NoTick \in [eq : Equities \union {0}, hard : {"none", "weekly", "total"}]
BY LadderAssumption DEF Never, NoTick

LEMMA TypeInit == Init => TypeOK
<1> SUFFICES ASSUME Init PROVE TypeOK
  OBVIOUS
<1>1. known \in [day : Int, start : Equities \union {0}, fills : Nat]
  BY Constants DEF Init
<1>2. upsets \in 0..MaxUpsets
  BY Constants DEF Init
<1>3. mem \in MemType /\ disk \in MemType
  BY BlankType DEF Init
<1> QED
  BY <1>1, <1>2, <1>3, Constants DEF Init, TypeOK

LEMMA TypeStep == TypeOK /\ [Next]_vars => TypeOK'
<1> SUFFICES ASSUME TypeOK, [Next]_vars PROVE TypeOK'
  OBVIOUS
<1> USE LadderAssumption DEF TypeOK
<1>0. now \in Nat /\ Today \in Int /\ Week(now) \in Int /\ NoTick \in [eq : Equities \union {0}, hard : Halts]
  BY DateType DEF Today, NoTick, Halts
<1>1. CASE Clock
  BY <1>1 DEF Clock, history
<1>2. CASE BrokerCloses
  <2>1. open' \in BOOLEAN
    BY <1>2 DEF BrokerCloses
  <2>2. UNCHANGED <<now, session, mem, disk, pc, tick, dash, upsets, known, ruined, cool, idleSkip>>
    BY <1>2 DEF BrokerCloses, history
  <2> HIDE LadderAssumption
  <2> QED
    BY <2>1, <2>2
<1>3. CASE SessionDrops
  <2>1. upsets' \in 0..MaxUpsets
    BY <1>3 DEF SessionDrops, Upset
  <2> QED
    BY <1>3, <2>1 DEF SessionDrops, history
<1>4. CASE Crash
  <2>1. mem' \in MemType
    BY <1>4, BlankType DEF Crash
  <2>2. upsets' \in 0..MaxUpsets
    BY <1>4 DEF Crash, Upset
  <2> QED
    BY <1>4, <2>1, <2>2, Constants DEF Crash
<1>5. CASE Connect
  <2>1. PICK e \in Equities \union {0} : Reads(e) /\ mem' = Restored(mem, disk, e)
    BY <1>5 DEF Connect
  <2>4. upsets' \in 0..MaxUpsets
    BY <2>1, UpsetType
  <2>2. mem' \in MemType /\ mem'.dailyDate \in Int /\ mem'.dailyStart \in Equities \union {0}
    BY <2>1, <1>0, RestoredType DEF MemType
  <2>3. known' \in [day : Int, start : Equities \union {0}, fills : Nat]
    BY <1>5, <2>2 DEF Connect, NoteDay
  <2> QED
    BY <1>5, <2>2, <2>3, <2>4 DEF Connect
<1>6. CASE BeginStep
  <2>1. PICK e \in Equities \union {0} :
          /\ Reads(e)
          /\ tick' = [eq |-> e, hard |-> "none"]
          /\ IF mem.dailyDate = Today THEN UNCHANGED <<mem, disk, known>>
             ELSE /\ Persist([mem EXCEPT !.dailyDate = Today, !.dailyStart = e,
                                         !.ddClosed = FALSE])
                  /\ NoteDay(mem')
    BY <1>6 DEF BeginStep
  <2> DEFINE m == [mem EXCEPT !.dailyDate = Today, !.dailyStart = e, !.ddClosed = FALSE]
  <2>5. m \in MemType
    BY <1>0 DEF MemType
  <2>2. mem' \in MemType /\ disk' \in MemType
    <3>1. UNCHANGED <<mem, disk>> \/ (mem' = m /\ disk' = m)
      BY <2>1 DEF Persist
    <3> HIDE DEF m
    <3> QED
      BY <2>5, <3>1
  <2>3. known' \in [day : Int, start : Equities \union {0}, fills : Nat]
    BY <2>1, <2>2 DEF NoteDay, MemType
  <2>4. tick' \in [eq : Equities \union {0}, hard : Halts]
    BY <2>1 DEF Halts
  <2>6. upsets' \in 0..MaxUpsets
    BY <2>1, UpsetType
  <2> QED
    BY <1>6, <2>2, <2>3, <2>4, <2>6 DEF BeginStep, Halts
<1>7. CASE RollWeek
  <2> DEFINE rolled == [mem EXCEPT !.weekKey = Week(now), !.weekStart = tick.eq,
                                   !.halt = IF @ = "weekly" THEN "none" ELSE @]
             fresh == tick.eq > 0 /\ mem.weekKey # Week(now)
             base == IF fresh THEN rolled ELSE mem
  <2>1. rolled \in MemType /\ base \in MemType
    BY <1>0 DEF MemType
  <2>2. /\ mem' = [base EXCEPT !.peak = IF tick.eq > @ THEN tick.eq ELSE @]
        /\ disk' = IF fresh THEN rolled ELSE disk
    BY <1>7 DEF RollWeek
  <2> HIDE DEF rolled, base
  <2>3. mem' \in MemType /\ disk' \in MemType
    BY <2>1, <2>2 DEF MemType
  <2> QED
    BY <1>7, <2>3 DEF RollWeek, history
<1>8. CASE CheckCaps
  BY <1>8 DEF CheckCaps, history
<1>9. CASE Arm
  <2>1. mem' \in MemType /\ disk' \in MemType
    BY <1>9 DEF Arm, Persist, MemType
  <2> QED
    BY <1>9, <2>1 DEF Arm
<1>10. CASE Flatten
  <2>1. CASE mem.ddClosed
    <3>1. mem' \in MemType /\ UNCHANGED <<open, disk, cool>> /\ idleSkip' \in BOOLEAN
      BY <1>10, <2>1 DEF Flatten, MemType
    <3> QED
      BY <1>10, <3>1, <1>0 DEF Flatten, Halts
  <2>2. CASE ~mem.ddClosed
    <3>1. Closed(TRUE) /\ UNCHANGED idleSkip
      BY <1>10, <2>2 DEF Flatten
    <3>2. mem' \in MemType /\ disk' \in MemType /\ cool' \in Int /\ open' \in BOOLEAN
      BY <3>1, <1>0, ClosedEffect
    <3> QED
      BY <1>10, <3>1, <3>2, <1>0 DEF Flatten, Halts
  <2> QED
    BY <2>1, <2>2
<1>11. CASE DailyGuard
  <2>1. \/ UNCHANGED <<open, mem, disk, cool>>
        \/ Closed(TRUE)
    BY <1>11 DEF DailyGuard
  <2>2. mem' \in MemType /\ disk' \in MemType /\ cool' \in Int /\ open' \in BOOLEAN
    BY <2>1, <1>0, ClosedEffect
  <2>3. mem.ddClosed \in BOOLEAN
    BY DEF MemType
  <2>4. /\ idleSkip' \in BOOLEAN
        /\ \/ pc' = "idle" /\ tick' = NoTick
           \/ pc' = "manage" /\ UNCHANGED tick
    BY <1>11, <2>3 DEF DailyGuard
  <2> QED
    BY <1>11, <2>2, <2>4, <1>0 DEF DailyGuard, Halts
<1>12. CASE Manage
  <2>1. \/ UNCHANGED <<open, mem, disk, cool>>
        \/ Closed(mem.ddClosed)
    BY <1>12 DEF Manage
  <2>2. mem.ddClosed \in BOOLEAN
    BY DEF MemType
  <2>3. mem' \in MemType /\ disk' \in MemType /\ cool' \in Int /\ open' \in BOOLEAN
    BY <2>1, <2>2, <1>0, ClosedEffect
  <2> QED
    BY <1>12, <2>3, <1>0 DEF Manage, Halts
<1>13. CASE Enter
  <2> DEFINE m == IF open THEN mem ELSE TradeDay(mem)
             reaches == ~open /\ m.trades < MaxTrades /\ m.halt = "none"
             expired == reaches /\ m.cooldown # Never /\ m.cooldown <= now
             gated == IF expired THEN [m EXCEPT !.cooldown = Never] ELSE m
  <2>1. m \in MemType
    <3>1. TradeDay(mem) \in MemType
      BY <1>0, Constants DEF TradeDay, MemType
    <3> QED
      BY <3>1
  <2>2. gated \in MemType /\ gated.trades = m.trades
    <3> HIDE DEF m
    <3> QED
      BY <2>1, Constants DEF MemType
  <2>3. /\ disk' = IF gated # mem THEN gated ELSE disk
        /\ \/ /\ reaches /\ open' = TRUE
              /\ \/ /\ mem' = [gated EXCEPT !.trades = @ + 1]
                    /\ known' = [known EXCEPT !.fills = IF known.day = Today THEN @ + 1 ELSE @]
                 \/ mem' = gated /\ UNCHANGED known
           \/ mem' = gated /\ UNCHANGED <<open, known>>
    BY <1>13 DEF Enter
  <2>4. reaches => gated.trades + 1 \in 0..MaxTrades
    <3> HIDE DEF gated, m
    <3> QED
      BY <2>1, <2>2 DEF MemType
  <2> HIDE DEF gated, m, reaches, expired
  <2>5. mem' \in MemType /\ disk' \in MemType /\ open' \in BOOLEAN
    <3>1. reaches => [gated EXCEPT !.trades = @ + 1] \in MemType
      BY <2>2, <2>4 DEF MemType
    <3> QED
      BY <2>2, <2>3, <3>1
  <2>6. known' \in [day : Int, start : Equities \union {0}, fills : Nat]
    BY <2>3
  <2> QED
    BY <1>13, <2>5, <2>6, <1>0 DEF Enter, Halts
<1>14. CASE ResetClear
  <2>1. mem' \in MemType
    BY <1>14, Constants DEF ResetClear, MemType
  <2> QED
    <3>1. upsets' \in 0..MaxUpsets
      BY <1>14 DEF ResetClear, Upset
    <3> QED
      BY <1>14, <2>1, <3>1, Constants DEF ResetClear
<1>15. CASE ResetRebase
  <2>1. mem' \in MemType
    <3>1. PICK b \in Equities \union {mem.dailyStart} : mem' = [mem EXCEPT !.peak = b, !.weekKey = Never]
      BY <1>15 DEF ResetRebase
    <3> QED
      BY <3>1, Constants DEF MemType
  <2> QED
    BY <1>15, <2>1 DEF ResetRebase, history
<1>16. CASE ResetSave
  BY <1>16 DEF ResetSave, history
<1>17. CASE UNCHANGED vars
  BY <1>17 DEF vars
<1> QED
  BY <1>1, <1>2, <1>3, <1>4, <1>5, <1>6, <1>7, <1>8, <1>9, <1>10, <1>11, <1>12,
     <1>13, <1>14, <1>15, <1>16, <1>17
     DEF Next, Environment, Step, Reset

\* The types hold always: the trade counter never passes its limit and the loss
\* streak never reaches its own, across every restart (run.py:2781, :3599).
THEOREM LadderTypes == Spec => []TypeOK
<1> QED
  BY TypeInit, TypeStep, PTL DEF Spec

---------------------------------------------------------------------------
(* What holds the saved guard together *)

\* The loop and the reset run only in a living process, the loop only connected.
Threads == /\ pc # "idle" => session = "live"
           /\ dash # "idle" => session # "down"

\* An armed total halt is on disk and in memory, and no path can overwrite it.
RuinInv == ruined => /\ disk.halt = "total"
                     /\ session # "down" => mem.halt = "total"
                     /\ pc # "arm"
                     /\ pc = "flatten" => tick.hard = "total"

\* A cooldown still running is on disk and in memory.
CoolInv == cool > now => /\ disk.cooldown = cool
                         /\ session # "down" => mem.cooldown = cool

\* A day that memory and disk both know has one reference, once a call has read
\* the account.
DayInv == /\ disk.dailyDate # Never => disk.dailyDate <= Today
          /\ session # "down" => /\ disk.dailyDate <= mem.dailyDate /\ mem.dailyDate <= Today
                                 /\ mem.dailyDate >= 0
                                 /\ mem.dailyDate = disk.dailyDate /\ disk.dailyStart > 0 =>
                                      mem.dailyStart = disk.dailyStart

\* Outside a reset, the peak on disk is no higher than the one in memory, and
\* the week is the same.
PeakInv == session # "down" /\ dash = "idle" => mem.peak >= disk.peak
WeekInv == session # "down" /\ dash = "idle" => mem.weekKey = disk.weekKey

LadderInv == TypeOK /\ Threads /\ RuinInv /\ CoolInv /\ DayInv /\ PeakInv /\ WeekInv

\* What one step may never do: the five action properties together.
Guarantee ==
    /\ Enters => ~ruined
    /\ Enters => cool <= now
    /\ disk.dailyDate # Never /\ disk.dailyStart > 0 /\ disk'.dailyDate = disk.dailyDate
         => disk'.dailyStart = disk.dailyStart
    /\ disk'.peak >= disk.peak \/ dash # "idle"
    /\ disk.halt = "weekly" /\ disk'.halt = "weekly"
         => disk'.weekKey = disk.weekKey \/ dash # "idle"

\* Days do not run backwards.
LEMMA DayMonotone == ASSUME NEW t \in Nat PROVE Day(t) <= Day(t + 1) /\ Day(t) >= 0
BY LadderAssumption DEF Day

LEMMA LadderInit == Init => LadderInv
BY TypeInit DEF Init, LadderInv, Threads, RuinInv, CoolInv, DayInv, PeakInv, WeekInv,
   BlankState, Never

LEMMA LadderStep == LadderInv /\ [Next]_vars => LadderInv' /\ Guarantee
<1> SUFFICES ASSUME LadderInv, [Next]_vars PROVE LadderInv' /\ Guarantee
  OBVIOUS
<1> DEFINE Inv == Threads /\ RuinInv /\ CoolInv /\ DayInv /\ PeakInv /\ WeekInv
<1>a. TypeOK /\ TypeOK'
  BY TypeStep DEF LadderInv
<1>b. SUFFICES Inv' /\ Guarantee
  BY <1>a DEF LadderInv
<1>0. /\ now \in Nat /\ Today \in Int /\ Week(now) \in Int /\ Today >= 0
      /\ mem \in MemType /\ disk \in MemType /\ cool \in Int /\ open \in BOOLEAN
  BY <1>a, DateType, DayMonotone, LadderAssumption DEF TypeOK, Today
<1>d. \A q \in Equities \union {0} : q \in Int
  BY LadderAssumption
<1>c. /\ mem.dailyDate \in Int /\ disk.dailyDate \in Int /\ mem.dailyStart \in Int
      /\ disk.dailyStart \in Int /\ mem.peak \in Int /\ disk.peak \in Int
      /\ mem.cooldown \in Int /\ disk.cooldown \in Int
  BY <1>0, <1>d DEF MemType
<1> USE DEF LadderInv, Threads, RuinInv, CoolInv, DayInv, PeakInv, WeekInv, Guarantee, Enters
<1>1. CASE Clock
  <2>1. now' = now + 1 /\ Today <= Today'
    BY <1>1, <1>0, DayMonotone DEF Clock, Today
  <2>2. Today' \in Int
    BY <2>1, <1>0, DateType DEF Today
  <2> QED
    BY <1>1, <1>0, <1>c, <2>1, <2>2 DEF Clock, history
<1>2. CASE BrokerCloses
  BY <1>2, <1>0, <1>c DEF BrokerCloses, history, Today
<1>3. CASE SessionDrops
  BY <1>3, <1>0, <1>c DEF SessionDrops, history, Today
<1>4. CASE Crash
  BY <1>4, <1>0, <1>c DEF Crash, Today
<1>5. CASE Connect
  <2>1. PICK e \in Equities \union {0} : mem' = Restored(mem, disk, e)
    BY <1>5 DEF Connect
  <2>2. /\ mem'.dailyDate = Today
        /\ mem'.dailyStart =
             IF disk.dailyDate = Today /\ disk.dailyStart > 0 THEN disk.dailyStart ELSE e
        /\ mem'.cooldown = IF disk.cooldown # Never THEN disk.cooldown ELSE mem.cooldown
        /\ mem'.peak = IF disk.peak > e THEN disk.peak ELSE e
        /\ mem'.weekKey = disk.weekKey
        /\ mem'.halt = disk.halt
    BY <2>1, <1>0, RestoredType
  <2>3. e \in Nat
    BY LadderAssumption
  <2>4. /\ UNCHANGED <<now, open, disk, pc, tick, dash, ruined, cool>>
        /\ session' = "live" /\ pc = "idle" /\ Today' = Today
    BY <1>5 DEF Connect, Today
  <2>5. disk.dailyDate <= Today
    BY <1>0, <1>c DEF Never
  <2> QED
    BY <1>0, <1>c, <2>2, <2>3, <2>4, <2>5 DEF Never
<1>6. CASE BeginStep
  <2>1. PICK e \in Equities \union {0} :
          IF mem.dailyDate = Today THEN UNCHANGED <<mem, disk>>
          ELSE Persist([mem EXCEPT !.dailyDate = Today, !.dailyStart = e, !.ddClosed = FALSE])
    BY <1>6 DEF BeginStep
  <2>2. /\ UNCHANGED <<now, open, session, dash, ruined, cool>> /\ Today' = Today
        /\ session = "live" /\ pc' = "week"
    BY <1>6 DEF BeginStep, Today
  <2>3. CASE mem.dailyDate = Today
    BY <1>0, <1>c, <2>1, <2>2, <2>3
  <2>4. CASE mem.dailyDate # Today
    <3>1. /\ mem' = disk' /\ mem'.dailyDate = Today /\ mem'.dailyStart = e
          /\ mem'.halt = mem.halt /\ mem'.cooldown = mem.cooldown
          /\ mem'.peak = mem.peak /\ mem'.weekKey = mem.weekKey
      BY <2>1, <2>4, <1>0 DEF Persist, MemType
    <3>2. e \in Nat
      BY LadderAssumption
    <3> QED
      BY <1>0, <1>c, <2>2, <2>4, <3>1, <3>2
  <2> QED
    BY <2>3, <2>4
<1>7. CASE RollWeek
  <2> DEFINE fresh == tick.eq > 0 /\ mem.weekKey # Week(now)
             rolled == [mem EXCEPT !.weekKey = Week(now), !.weekStart = tick.eq,
                                   !.halt = IF @ = "weekly" THEN "none" ELSE @]
             base == IF fresh THEN rolled ELSE mem
  <2>1. /\ mem' = [base EXCEPT !.peak = IF tick.eq > @ THEN tick.eq ELSE @]
        /\ disk' = IF fresh THEN rolled ELSE disk
        /\ UNCHANGED <<now, open, session, tick, dash, ruined, cool>> /\ Today' = Today
        /\ session = "live" /\ pc' = "caps"
    BY <1>7 DEF RollWeek, history, Today
  <2>2. /\ rolled.dailyDate = mem.dailyDate /\ rolled.dailyStart = mem.dailyStart
        /\ rolled.cooldown = mem.cooldown /\ rolled.peak = mem.peak
        /\ rolled.weekKey = Week(now)
        /\ rolled.halt = IF mem.halt = "weekly" THEN "none" ELSE mem.halt
    BY <1>0 DEF MemType
  <2>3. /\ mem'.dailyDate = mem.dailyDate /\ mem'.dailyStart = mem.dailyStart
        /\ mem'.cooldown = mem.cooldown /\ mem'.weekKey = base.weekKey /\ mem'.halt = base.halt
        /\ mem'.peak = IF tick.eq > mem.peak THEN tick.eq ELSE mem.peak
    BY <1>0, <2>1 DEF MemType
  <2>4. tick.eq \in Int
    <3>1. tick.eq \in Equities \union {0}
      BY <1>a DEF TypeOK
    <3> QED
      BY <3>1, <1>d
  <2> HIDE DEF rolled
  <2> QED
    BY <1>0, <1>c, <2>1, <2>2, <2>3, <2>4
<1>8. CASE CheckCaps
  <2>1. UNCHANGED <<now, open, session, mem, disk, dash, ruined, cool>> /\ Today' = Today
    BY <1>8 DEF CheckCaps, history, Today
  <2>2. mem.halt = "total" =>
          \/ pc' = "flatten" /\ tick'.hard = "total"
          \/ pc' = "daily"
    BY <1>8, <1>a DEF CheckCaps, TypeOK
  <2>3. pc = "caps"
    BY <1>8 DEF CheckCaps
  <2> QED
    BY <1>0, <1>c, <2>1, <2>2, <2>3
<1>9. CASE Arm
  <2>1. /\ mem' = disk' /\ mem'.halt = tick.hard
        /\ mem'.dailyDate = mem.dailyDate /\ mem'.dailyStart = mem.dailyStart
        /\ mem'.cooldown = mem.cooldown /\ mem'.peak = mem.peak /\ mem'.weekKey = mem.weekKey
    BY <1>9, <1>0 DEF Arm, Persist, MemType
  <2>2. /\ UNCHANGED <<now, open, session, tick, dash, cool>> /\ Today' = Today
        /\ pc = "arm" /\ pc' = "flatten" /\ ruined' = (ruined \/ tick.hard = "total")
    BY <1>9 DEF Arm, Today
  <2>3. ~ruined /\ session = "live" /\ (ruined' => tick.hard = "total")
    BY <2>2
  <2> QED
    BY <1>0, <1>c, <2>1, <2>2, <2>3
<1>x. ASSUME NEW closed \in BOOLEAN, Closed(closed), session = "live",
             UNCHANGED <<now, session, dash, ruined>>, pc' \in {"idle", "manage", "entry"}
      PROVE  Inv' /\ Guarantee
  <2>1. Today' = Today
    BY <1>x DEF Today
  <2>2. now + Cooldown \in Int /\ now + Cooldown > now
    BY <1>0, LadderAssumption
  <2>3. /\ open' => open
        /\ mem'.dailyDate = mem.dailyDate /\ mem'.dailyStart = mem.dailyStart
        /\ mem'.peak = mem.peak /\ mem'.weekKey = mem.weekKey /\ mem'.halt = mem.halt
    BY <1>x, <1>0, ClosedEffect
  <2>4. CASE /\ disk'.dailyDate = mem.dailyDate /\ disk'.dailyStart = mem.dailyStart
             /\ disk'.peak = mem.peak /\ disk'.weekKey = mem.weekKey
             /\ disk'.halt = mem.halt /\ disk'.cooldown = mem'.cooldown
             /\ \/ mem'.cooldown = now + Cooldown /\ cool' = now + Cooldown
                \/ mem'.cooldown = mem.cooldown /\ cool' = cool
    BY <1>x, <1>0, <1>c, <2>1, <2>2, <2>3, <2>4
  <2>5. CASE disk' = disk /\ mem'.cooldown = mem.cooldown /\ cool' = cool
    BY <1>x, <1>0, <1>c, <2>1, <2>3, <2>5
  <2> QED
    BY <1>x, <1>0, ClosedEffect, <2>4, <2>5
<1>y. ASSUME UNCHANGED <<open, mem, disk, cool>>, session = "live",
             UNCHANGED <<now, session, dash, ruined>>, pc' \in {"idle", "manage", "entry"}
      PROVE  Inv' /\ Guarantee
  BY <1>y, <1>0, <1>c DEF Today
<1>10. CASE Flatten
  <2>1. /\ session = "live" /\ UNCHANGED <<now, session, dash, ruined>> /\ pc = "flatten"
        /\ pc' = "idle" /\ Today' = Today
    BY <1>10 DEF Flatten, Today
  <2>2. CASE ~mem.ddClosed
    BY <1>10, <2>1, <2>2, <1>x DEF Flatten
  <2>3. CASE mem.ddClosed
    <3>1. UNCHANGED <<open, disk, cool>> /\ mem' = [mem EXCEPT !.halt = tick.hard]
      BY <1>10, <2>3 DEF Flatten
    <3>2. /\ mem'.dailyDate = mem.dailyDate /\ mem'.dailyStart = mem.dailyStart
          /\ mem'.cooldown = mem.cooldown /\ mem'.peak = mem.peak
          /\ mem'.weekKey = mem.weekKey /\ mem'.halt = tick.hard
      BY <3>1, <1>0 DEF MemType
    <3> QED
      BY <1>0, <1>c, <2>1, <3>1, <3>2
  <2> QED
    BY <2>2, <2>3
<1>11. CASE DailyGuard
  <2>1. UNCHANGED <<open, mem, disk, cool>> \/ Closed(TRUE)
    BY <1>11 DEF DailyGuard
  <2>2. /\ session = "live" /\ UNCHANGED <<now, session, dash, ruined>>
        /\ pc' \in {"idle", "manage", "entry"}
    BY <1>11 DEF DailyGuard
  <2> QED
    BY <2>1, <2>2, <1>x, <1>y
<1>12. CASE Manage
  <2>1. UNCHANGED <<open, mem, disk, cool>> \/ Closed(mem.ddClosed)
    BY <1>12 DEF Manage
  <2>2. /\ session = "live" /\ UNCHANGED <<now, session, dash, ruined>>
        /\ pc' \in {"idle", "manage", "entry"} /\ mem.ddClosed \in BOOLEAN
    BY <1>12, <1>0 DEF Manage, MemType
  <2> QED
    BY <2>1, <2>2, <1>x, <1>y
<1>13. CASE Enter
  <2> DEFINE m == IF open THEN mem ELSE TradeDay(mem)
             reaches == ~open /\ m.trades < MaxTrades /\ m.halt = "none"
             expired == reaches /\ m.cooldown # Never /\ m.cooldown <= now
             gated == IF expired THEN [m EXCEPT !.cooldown = Never] ELSE m
  <2>1. /\ disk' = IF gated # mem THEN gated ELSE disk
        /\ \/ /\ reaches /\ Gate(gated) /\ open' = TRUE
              /\ mem' = [gated EXCEPT !.trades = @ + 1] \/ mem' = gated
           \/ mem' = gated /\ open' = open
        /\ UNCHANGED <<now, session, dash, ruined, cool>> /\ pc' = "idle" /\ session = "live"
        /\ Today' = Today
    BY <1>13 DEF Enter, Today
  <2>2. /\ m \in MemType
        /\ m.dailyDate = mem.dailyDate /\ m.dailyStart = mem.dailyStart
        /\ m.cooldown = mem.cooldown /\ m.peak = mem.peak
        /\ m.weekKey = mem.weekKey /\ m.halt = mem.halt
    BY <1>0, Constants DEF TradeDay, MemType
  <2>3. /\ gated \in MemType
        /\ gated.dailyDate = mem.dailyDate /\ gated.dailyStart = mem.dailyStart
        /\ gated.peak = mem.peak /\ gated.weekKey = mem.weekKey /\ gated.halt = mem.halt
        /\ gated.cooldown = IF expired THEN Never ELSE mem.cooldown
    <3> HIDE DEF m, reaches
    <3> QED
      BY <2>2, Constants DEF MemType
  <2>4. expired => mem.cooldown <= now
    BY <2>2
  <2>5. reaches => mem.halt = "none"
    BY <2>2
  <2> HIDE DEF m, reaches, expired, gated
  <2>6. /\ mem'.dailyDate = mem.dailyDate /\ mem'.dailyStart = mem.dailyStart
        /\ mem'.peak = mem.peak /\ mem'.weekKey = mem.weekKey /\ mem'.halt = mem.halt
        /\ mem'.cooldown = gated.cooldown
    BY <2>1, <2>3 DEF MemType
  <2>7. Enters => mem.halt = "none" /\ gated.cooldown <= now
    BY <2>1, <2>5 DEF Gate
  <2> QED
    BY <1>0, <1>c, <2>1, <2>3, <2>4, <2>6, <2>7
<1>14. CASE ResetClear
  <2>1. /\ mem'.dailyDate = mem.dailyDate /\ mem'.dailyStart = mem.dailyStart
        /\ mem'.peak = mem.peak /\ mem'.weekKey = mem.weekKey
    BY <1>14, <1>0 DEF ResetClear, MemType
  <2>2. /\ UNCHANGED <<now, open, session, disk, pc, tick>> /\ Today' = Today
        /\ ~ruined' /\ cool' = Never /\ dash' = "rebase" /\ session # "down"
    BY <1>14 DEF ResetClear, Today
  <2> QED
    BY <1>0, <1>c, <2>1, <2>2 DEF Never
<1>15. CASE ResetRebase
  <2>1. PICK b \in Equities \union {mem.dailyStart} : mem' = [mem EXCEPT !.peak = b, !.weekKey = Never]
    BY <1>15 DEF ResetRebase
  <2>2. /\ mem'.dailyDate = mem.dailyDate /\ mem'.dailyStart = mem.dailyStart
        /\ mem'.cooldown = mem.cooldown /\ mem'.halt = mem.halt
    BY <2>1, <1>0 DEF MemType
  <2>3. /\ UNCHANGED <<now, open, session, disk, pc, tick, ruined, cool>> /\ Today' = Today
        /\ dash = "rebase" /\ dash' = "save"
    BY <1>15 DEF ResetRebase, history, Today
  <2> QED
    BY <1>0, <1>c, <2>2, <2>3
<1>16. CASE ResetSave
  <2>1. /\ UNCHANGED <<now, open, session, mem, pc, tick, ruined, cool>> /\ Today' = Today
        /\ dash = "save" /\ dash' = "idle" /\ disk' = mem
    BY <1>16 DEF ResetSave, history, Today
  <2> QED
    BY <1>0, <1>c, <2>1
<1>17. CASE UNCHANGED vars
  BY <1>17, <1>0, <1>c DEF vars, Today
<1> QED
  BY <1>1, <1>2, <1>3, <1>4, <1>5, <1>6, <1>7, <1>8, <1>9, <1>10, <1>11, <1>12,
     <1>13, <1>14, <1>15, <1>16, <1>17
     DEF Next, Environment, Step, Reset

THEOREM LadderHolds == Spec => []LadderInv
<1> QED
  BY LadderInit, LadderStep, PTL DEF Spec

\* A total-drawdown halt, once armed, blocks every entry until an operator's
\* reset, whatever crashes, reconnects and calendar rolls come (run.py:2995).
THEOREM RuinBlocksEntries == Spec => NoEntryWhileRuined
<1>1. LadderInv /\ [Next]_vars => [Enters => ~ruined]_vars
  BY LadderStep DEF Guarantee
<1> QED
  BY <1>1, LadderHolds, PTL DEF Spec, NoEntryWhileRuined

\* A loss-streak cooldown is served whatever restarts happen (run.py:2854).
THEOREM CooldownIsServed == Spec => NoEntryDuringCooldown
<1>1. LadderInv /\ [Next]_vars => [Enters => cool <= now]_vars
  BY LadderStep DEF Guarantee
<1> QED
  BY <1>1, LadderHolds, PTL DEF Spec, NoEntryDuringCooldown

\* The saved reference of a day, once it is one, never moves within the day
\* (run.py:2933), also when the account cannot be read at a connect or a step.
THEOREM DayReferenceFixed == Spec => SavedDayReferenceIsFixed
<1>1. LadderInv /\ [Next]_vars =>
        [disk.dailyDate # Never /\ disk.dailyStart > 0 /\ disk'.dailyDate = disk.dailyDate
           => disk'.dailyStart = disk.dailyStart]_vars
  BY LadderStep DEF Guarantee
<1> QED
  BY <1>1, LadderHolds, PTL DEF Spec, SavedDayReferenceIsFixed

\* Only a reset lowers the saved equity peak (run.py:2947).
THEOREM PeakOnlyRises == Spec => SavedPeakOnlyRises
<1>1. LadderInv /\ [Next]_vars => [disk'.peak >= disk.peak \/ dash # "idle"]_vars
  BY LadderStep DEF Guarantee
<1> QED
  BY <1>1, LadderHolds, PTL DEF Spec, SavedPeakOnlyRises

\* A weekly halt is not carried into another week's baseline (run.py:2985).
THEOREM WeeklyHaltEnds == Spec => WeeklyHaltEndsWithItsWeek
<1>1. LadderInv /\ [Next]_vars =>
        [disk.halt = "weekly" /\ disk'.halt = "weekly"
           => disk'.weekKey = disk.weekKey \/ dash # "idle"]_vars
  BY LadderStep DEF Guarantee
<1> QED
  BY <1>1, LadderHolds, PTL DEF Spec, WeeklyHaltEndsWithItsWeek
=============================================================================
