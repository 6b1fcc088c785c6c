--------------------------- MODULE BotRiskLadder ---------------------------
(***************************************************************************)
(* The capital-preservation ladder of one StandaloneAIBot (run.py): the    *)
(* daily, weekly and peak-to-trough drawdown stops, the loss-streak        *)
(* cooldown and the daily trade counter, their mirror on disk              *)
(* (core/risk/state.py), and what happens to them across midnight, a new   *)
(* week, a reconnect, a crash and an operator's reset.                     *)
(*                                                                         *)
(* Two threads share the fields of `mem`: the manager loop, which runs     *)
(* step() one phase at a time (`pc`), and the dashboard, whose             *)
(* reset_risk_halt() writes them field by field (`dash`).                  *)
(*                                                                         *)
(* account_info() may answer None at any time; the code then reads an      *)
(* equity of 0.0, which connect() and a new day take as the reference.     *)
(*                                                                         *)
(* Abstracted: equities are a small set, dates are indices of a tick       *)
(* clock, a bot holds at most one position (max_pos_per_symbol = 1), and   *)
(* sizing, news and profit-lock reasons for not entering are folded into   *)
(* the choice not to enter.                                                *)
(***************************************************************************)
EXTENDS Integers

CONSTANTS Equities,        \* the account equities the environment can produce
          DailyCap, HaltAt,\* max_daily_dd and halt_at_dd * max_daily_dd, percent
          WeeklyCap,       \* max_weekly_dd, in percent
          TotalCap,        \* max_total_dd, in percent
          MaxStreak,       \* max_consecutive_losses
          Cooldown,        \* loss_streak_cooldown_minutes, in clock ticks
          MaxTrades,       \* max_trades_per_day
          TicksPerDay, DaysPerWeek,
          MaxTime,         \* bound: the clock stops here
          MaxUpsets        \* bound: process deaths, lost terminal sessions,
                           \* accounts not read and operator resets, together

ASSUME LadderAssumption ==
    /\ Equities \subseteq Nat \ {0} /\ Equities # {}
    /\ DailyCap \in 1..100 /\ HaltAt \in 1..DailyCap
    /\ WeeklyCap \in 1..100 /\ TotalCap \in 1..100
    /\ MaxStreak \in Nat \ {0} /\ Cooldown \in Nat \ {0}
    /\ TicksPerDay \in Nat \ {0} /\ DaysPerWeek \in Nat \ {0}
    /\ MaxTrades \in Nat /\ MaxTime \in Nat /\ MaxUpsets \in Nat

VARIABLES
    now,        \* the wall clock, in ticks
    open,       \* the broker holds a position on this symbol
    session,    \* "down", "dropped" (process alive, terminal gone) or "live"
    mem,        \* the guard's persisted fields, on the bot object
    disk,       \* data/state/risk_<symbol>.json
    pc,         \* where the manager loop is inside step()
    tick,       \* step()'s locals: the equity it read, the hard reason it found
    dash,       \* where the dashboard thread is inside reset_risk_halt()
    upsets,     \* how many outages, unread accounts and resets have happened
    known,      \* history: what the guard has established about the current day
    ruined,     \* history: a total-drawdown halt was armed and not yet reset
    cool,       \* history: end of the last cooldown armed and not yet reset
    idleSkip    \* history: the last step was skipped by the guard, which closed nothing

vars == <<now, open, session, mem, disk, pc, tick, dash, upsets,
          known, ruined, cool, idleSkip>>
history == <<known, ruined, cool, idleSkip>>

Never == -1                          \* None, for a date or a time

Day(t)  == t \div TicksPerDay
Week(t) == Day(t) \div DaysPerWeek
Today == Day(now)

\* (reference - e) / reference >= cap
Breaches(reference, e, cap) == reference > 0 /\ (reference - e) * 100 >= cap * reference

\* RiskState(): what load_state() returns when there is no file
BlankState ==
    [dailyDate |-> Never, dailyStart |-> 0, ddClosed |-> FALSE,
     tradeDate |-> Never, trades |-> 0, streak |-> 0, cooldown |-> Never,
     peak |-> 0, weekKey |-> Never, weekStart |-> 0, halt |-> "none"]

NoTick == [eq |-> 0, hard |-> "none"]   \* between two steps

Init ==
    /\ now = 0 /\ open = FALSE /\ session = "down"
    /\ mem = BlankState /\ disk = BlankState
    /\ pc = "idle" /\ tick = NoTick /\ dash = "idle"
    /\ upsets = 0
    /\ known = [day |-> Never, start |-> 0, fills |-> 0]
    /\ ruined = FALSE /\ cool = Never /\ idleSkip = FALSE

---------------------------------------------------------------------------
(* Helpers *)

\* _persist_risk_state: every field of the new memory goes to the file.
Persist(m) == mem' = m /\ disk' = m

\* The first reference the guard takes in a day is that day's; 0 is none.
NoteDay(m) ==
    known' = IF known.day = m.dailyDate
             THEN [known EXCEPT !.start = IF @ > 0 THEN @ ELSE m.dailyStart]
             ELSE [day |-> m.dailyDate, start |-> m.dailyStart, fills |-> 0]

\* _restore_risk_state, after connect() has re-based the day on equity e.
RestoredWithoutHalt(m, st, e) ==
    LET sameDay == st.dailyDate = Today /\ st.dailyStart > 0
        sameTradeDay == st.tradeDate = Today
    IN  [m EXCEPT
          !.dailyDate = Today,
          !.dailyStart = IF sameDay THEN st.dailyStart ELSE e,
          !.ddClosed   = IF sameDay THEN st.ddClosed ELSE m.ddClosed,
          !.tradeDate  = IF sameTradeDay THEN Today ELSE m.tradeDate,
          !.trades     = IF sameTradeDay THEN st.trades ELSE m.trades,
          !.streak     = st.streak,
          !.cooldown   = IF st.cooldown # Never THEN st.cooldown ELSE m.cooldown,
          !.peak       = IF st.peak > e THEN st.peak ELSE e,
          !.weekKey    = st.weekKey,
          !.weekStart  = st.weekStart]
RestoredPeakFromEquity(m, st, e) ==
    [RestoredWithoutHalt(m, st, e) EXCEPT !.halt = st.halt, !.peak = e]
RestoredDayFromEquity(m, st, e) ==
    [RestoredWithoutHalt(m, st, e) EXCEPT !.halt = st.halt, !.dailyStart = e]
RestoredWithoutCooldown(m, st, e) ==
    [RestoredWithoutHalt(m, st, e) EXCEPT !.halt = st.halt, !.cooldown = m.cooldown]
Restored(m, st, e) == [RestoredWithoutHalt(m, st, e) EXCEPT !.halt = st.halt]

\* _record_trade_result: the loss-streak breaker, without the persist.
RecordedPastLimit(m, pnl) ==
    CASE pnl > 0 -> [m EXCEPT !.streak = 0]
      [] pnl < 0 /\ m.streak < MaxStreak -> [m EXCEPT !.streak = @ + 1]
      [] pnl < 0 /\ m.streak >= MaxStreak ->
            [m EXCEPT !.streak = 0, !.cooldown = now + Cooldown]
      [] OTHER -> m
Recorded(m, pnl) ==
    CASE pnl > 0 -> [m EXCEPT !.streak = 0]
      [] pnl < 0 /\ m.streak + 1 < MaxStreak -> [m EXCEPT !.streak = @ + 1]
      [] pnl < 0 /\ m.streak + 1 >= MaxStreak ->
            [m EXCEPT !.streak = 0, !.cooldown = now + Cooldown]
      [] OTHER -> m

\* _close_position on the open position, if there is one: the broker closes it
\* and the result is recorded and persisted, or every attempt fails. The caller
\* then sets _dd_positions_closed to `closed`, in memory only.
Closed(closed) ==
    \/ /\ open /\ open' = FALSE
       /\ \E pnl \in {-1, 0, 1} :
            LET m == Recorded(mem, pnl)
            IN  /\ disk' = m
                /\ mem' = [m EXCEPT !.ddClosed = closed]
                /\ cool' = IF pnl < 0 /\ mem.streak + 1 >= MaxStreak
                           THEN now + Cooldown ELSE cool
    \/ mem' = [mem EXCEPT !.ddClosed = closed] /\ UNCHANGED <<open, disk, cool>>

Upset == upsets < MaxUpsets /\ upsets' = upsets + 1

\* account_info() gives the equity e, or None, which the code reads as 0.0.
Reads(e) ==
    \/ e \in Equities /\ UNCHANGED upsets
    \/ e = 0 /\ Upset

---------------------------------------------------------------------------
(* The environment *)

\* Time passes; the broker's own stop or target closes the position, which no
\* bot thread records. (The account's equity is read only where a step or a
\* connect reads it, so it is an input of those two and not a variable.)
Clock == now < MaxTime /\ now' = now + 1
         /\ UNCHANGED <<open, session, mem, disk, pc, tick,
                        dash, upsets, history>>
BrokerCloses == /\ open /\ open' = FALSE
                /\ UNCHANGED <<now, session, mem, disk, pc,
                               tick, dash, upsets, history>>
SessionDrops == /\ session = "live" /\ pc = "idle" /\ Upset
                /\ session' = "dropped"
                /\ UNCHANGED <<now, open, mem, disk, pc, tick,
                               dash, history>>
Crash == /\ session # "down" /\ Upset
         /\ session' = "down" /\ mem' = BlankState
         /\ pc' = "idle" /\ dash' = "idle" /\ tick' = NoTick
         /\ idleSkip' = FALSE
         /\ UNCHANGED <<now, open, disk, known, ruined, cool>>

---------------------------------------------------------------------------
(* The manager loop: connect(), then step() phase by phase *)

\* connect(): from the start of the process, or from _ensure_connected() when
\* the terminal's session was lost. Nothing is persisted.
Connect ==
    /\ session # "live" /\ pc = "idle"
    /\ \E e \in Equities \union {0} : Reads(e) /\ mem' = Restored(mem, disk, e)
    /\ NoteDay(mem')
    /\ session' = "live"
    /\ UNCHANGED <<now, open, disk, pc, tick, dash, ruined, cool, idleSkip>>

\* step() reads the account and enters _daily_dd_ok: the new day.
BeginStep ==
    /\ session = "live" /\ pc = "idle"
    /\ \E e \in Equities \union {0} :
        /\ Reads(e)
        /\ tick' = [eq |-> e, hard |-> "none"]
        /\ IF mem.dailyDate = Today THEN UNCHANGED <<mem, disk, known>>
           ELSE /\ Persist([mem EXCEPT !.dailyDate = Today, !.dailyStart = e,
                                       !.ddClosed = FALSE])
                /\ NoteDay(mem')
    /\ pc' = "week" /\ idleSkip' = FALSE
    /\ UNCHANGED <<now, open, session, dash, ruined, cool>>

\* _hard_drawdown_reason, which looks at nothing when it read no equity: the new
\* week re-baselines and ends a weekly halt, persisted; the new peak is only in
\* memory.
RollWeekKeepingHalt ==
    /\ pc = "week"
    /\ LET fresh == tick.eq > 0 /\ mem.weekKey # Week(now)
           rolled == [mem EXCEPT !.weekKey = Week(now), !.weekStart = tick.eq]
           base == IF fresh THEN rolled ELSE mem
       IN  /\ mem' = [base EXCEPT !.peak = IF tick.eq > @ THEN tick.eq ELSE @]
           /\ disk' = IF fresh THEN rolled ELSE disk
    /\ pc' = "caps"
    /\ UNCHANGED <<now, open, session, tick, dash, upsets, history>>
RollWeek ==
    /\ pc = "week"
    /\ LET fresh == tick.eq > 0 /\ mem.weekKey # Week(now)
           rolled == [mem EXCEPT !.weekKey = Week(now), !.weekStart = tick.eq,
                                 !.halt = IF @ = "weekly" THEN "none" ELSE @]
           base == IF fresh THEN rolled ELSE mem
       IN  /\ mem' = [base EXCEPT !.peak = IF tick.eq > @ THEN tick.eq ELSE @]
           /\ disk' = IF fresh THEN rolled ELSE disk
    /\ pc' = "caps"
    /\ UNCHANGED <<now, open, session, tick, dash, upsets, history>>

\* ... then decides: a total halt stands; else the weekly cap; else the total cap.
CheckCaps ==
    /\ pc = "caps"
    /\ LET standing == tick.eq > 0 /\ mem.halt = "total"
           weekly == tick.eq > 0 /\ Breaches(mem.weekStart, tick.eq, WeeklyCap)
           total  == tick.eq > 0 /\ Breaches(mem.peak, tick.eq, TotalCap)
       IN  /\ tick' = [tick EXCEPT !.hard = CASE standing -> "total"
                                             [] ~standing /\ weekly -> "weekly"
                                             [] ~standing /\ ~weekly /\ total -> "total"
                                             [] OTHER -> "none"]
           /\ pc' = CASE standing -> "flatten"
                      [] ~standing /\ (weekly \/ total) -> "arm"
                      [] OTHER -> "daily"
    /\ UNCHANGED <<now, open, session, mem, disk, dash, upsets, history>>

\* ... and stores and persists a halt it found.
Arm ==
    /\ pc = "arm"
    /\ Persist([mem EXCEPT !.halt = tick.hard])
    /\ ruined' = (ruined \/ tick.hard = "total")
    /\ pc' = "flatten"
    /\ UNCHANGED <<now, open, session, tick, dash, upsets, known, cool, idleSkip>>

\* _daily_dd_ok with a hard reason: flatten once a day, then skip the tick. The
\* second branch writes the reason it read earlier back over the field.
Flatten ==
    /\ pc = "flatten"
    /\ IF ~mem.ddClosed THEN Closed(TRUE) /\ UNCHANGED idleSkip
       ELSE /\ mem' = [mem EXCEPT !.halt = tick.hard]
            /\ idleSkip' = TRUE
            /\ UNCHANGED <<open, disk, cool>>
    /\ pc' = "idle" /\ tick' = NoTick
    /\ UNCHANGED <<now, session, dash, upsets, known, ruined>>

\* _daily_dd_ok without one: past the daily cap, flatten once and skip the tick;
\* otherwise the tick goes on.
DailyGuard ==
    /\ pc = "daily"
    /\ IF Breaches(mem.dailyStart, tick.eq, DailyCap)
       THEN /\ IF mem.ddClosed THEN UNCHANGED <<open, mem, disk, cool>> ELSE Closed(TRUE)
            /\ idleSkip' = mem.ddClosed
            /\ pc' = "idle" /\ tick' = NoTick
       ELSE /\ pc' = "manage" /\ UNCHANGED <<tick, idleSkip>>
            /\ UNCHANGED <<open, mem, disk, cool>>
    /\ UNCHANGED <<now, session, dash, upsets, known, ruined>>

\* _manage_positions: the position may be closed for one of its many reasons.
Manage ==
    /\ pc = "manage"
    /\ Closed(mem.ddClosed) \/ UNCHANGED <<open, mem, disk, cool>>
    /\ \/ pc' = "entry" /\ UNCHANGED tick       \* a new bar with a direction
       \/ pc' = "idle" /\ tick' = NoTick        \* or not
    /\ UNCHANGED <<now, session, dash, upsets, known, ruined, idleSkip>>

\* _trades_today_ok: the new trade day is persisted.
TradeDay(m) == IF m.tradeDate = Today THEN m
               ELSE [m EXCEPT !.tradeDate = Today, !.trades = 0]

\* _entry_gate, as far as the ladder goes: what it requires, given memory m.
Gate(m) ==
    /\ m.halt = "none"
    /\ m.cooldown <= now                  \* Never is in the past
    /\ ~Breaches(m.dailyStart, tick.eq, HaltAt)

\* The entry block of step(): slot, trade counter, gate, then _send_order, which
\* the broker fills, fills without an answer, or refuses. Only a fill the bot
\* hears of is counted, and the count is not persisted. An expired cooldown is
\* cleared, and persisted, by the gate if there is no halt.
Enter ==
    /\ pc = "entry"
    /\ LET m == IF open THEN mem ELSE TradeDay(mem)
           reaches == ~open /\ m.trades < MaxTrades /\ m.halt = "none"
           expired == reaches /\ m.cooldown # Never /\ m.cooldown <= now
           gated == IF expired THEN [m EXCEPT !.cooldown = Never] ELSE m
       IN  /\ disk' = IF gated # mem THEN gated ELSE disk
           /\ \/ /\ reaches /\ Gate(gated)
                 /\ open' = TRUE
                 /\ \/ /\ mem' = [gated EXCEPT !.trades = @ + 1]
                       /\ known' = [known EXCEPT !.fills = IF known.day = Today THEN @ + 1 ELSE @]
                    \/ mem' = gated /\ UNCHANGED known
              \/ mem' = gated /\ UNCHANGED <<open, known>>
    /\ pc' = "idle" /\ tick' = NoTick
    /\ UNCHANGED <<now, session, dash, upsets, ruined, cool, idleSkip>>

---------------------------------------------------------------------------
(* The dashboard thread: reset_risk_halt(), field by field *)

ResetClear ==
    /\ session # "down" /\ dash = "idle" /\ Upset
    /\ mem' = [mem EXCEPT !.halt = "none", !.cooldown = Never, !.streak = 0]
    /\ ruined' = FALSE /\ cool' = Never
    /\ dash' = "rebase"
    /\ UNCHANGED <<now, open, session, disk, pc, tick, known, idleSkip>>
\* start_balance, read at the last connect and never persisted, may be any
\* balance; when that connect read None the day's reference stands in for it.
ResetRebase ==
    /\ dash = "rebase"
    /\ \E b \in Equities \union {mem.dailyStart} : mem' = [mem EXCEPT !.peak = b, !.weekKey = Never]
    /\ dash' = "save"
    /\ UNCHANGED <<now, open, session, disk, pc, tick, upsets, history>>
ResetSave ==
    /\ dash = "save"
    /\ disk' = mem
    /\ dash' = "idle"
    /\ UNCHANGED <<now, open, session, mem, pc, tick, upsets, history>>

Reset == ResetClear \/ ResetRebase \/ ResetSave
Step == BeginStep \/ RollWeek \/ CheckCaps \/ Arm \/ Flatten \/ DailyGuard \/ Manage \/ Enter
Environment == Clock \/ BrokerCloses \/ SessionDrops \/ Crash

Next == Environment \/ Connect \/ Step \/ Reset
Spec == Init /\ [][Next]_vars

---------------------------------------------------------------------------
(* Properties *)

MemType ==
    [dailyDate : Int, dailyStart : Equities \union {0}, ddClosed : BOOLEAN,
     tradeDate : Int, trades : 0..MaxTrades, streak : 0..MaxStreak - 1,
     cooldown : Int, peak : Equities \union {0}, weekKey : Int,
     weekStart : Equities \union {0}, halt : {"none", "weekly", "total"}]

\* Every field keeps its type; in particular the streak never reaches its limit
\* and the counter never passes max_trades_per_day.
TypeOK ==
    /\ now \in 0..MaxTime /\ open \in BOOLEAN
    /\ session \in {"down", "dropped", "live"}
    /\ mem \in MemType /\ disk \in MemType
    /\ pc \in {"idle", "week", "caps", "arm", "flatten", "daily", "manage", "entry"}
    /\ tick \in [eq : Equities \union {0}, hard : {"none", "weekly", "total"}]
    /\ dash \in {"idle", "rebase", "save"}
    /\ upsets \in 0..MaxUpsets
    /\ known \in [day : Int, start : Equities \union {0}, fills : Nat]
    /\ ruined \in BOOLEAN /\ cool \in Int /\ idleSkip \in BOOLEAN

Enters == ~open /\ open'

\* Once a total-drawdown halt is armed the bot opens nothing until an operator
\* resets it: not after a crash, a reconnect, a new day or a new week
\* (run.py:2995, :3044, :2952).
NoEntryWhileRuined == [][Enters => ~ruined]_vars

\* A loss-streak cooldown, once armed, is served to its end or until an
\* operator's reset, whatever restarts happen meanwhile (run.py:2784, :2854).
NoEntryDuringCooldown == [][Enters => cool <= now]_vars

\* The reference the daily loss is measured from never changes within a day once
\* one is on disk (run.py:2933): no restart, reconnect or reset moves it, not even
\* one that finds the account unreadable.  (A zero saved for lack of an account is
\* no reference: the next connect of the day replaces it.)
SavedDayReferenceIsFixed ==
    [][disk.dailyDate # Never /\ disk.dailyStart > 0 /\ disk'.dailyDate = disk.dailyDate
         => disk'.dailyStart = disk.dailyStart]_vars

\* "Peak/equity references are never reset downward; a restart is not a new
\* equity high-water mark" (run.py:2947): only a reset lowers the saved peak.
SavedPeakOnlyRises ==
    [][disk'.peak >= disk.peak \/ dash # "idle"]_vars

\* A weekly halt is for its week: the file never carries one over into another
\* week's baseline (run.py:2985), unless a reset is rewriting both.
WeeklyHaltEndsWithItsWeek ==
    [][disk.halt = "weekly" /\ disk'.halt = "weekly"
         => disk'.weekKey = disk.weekKey \/ dash # "idle"]_vars

\* "A restart must not re-arm today's loss budget" (run.py:2854): after a restart
\* or a reconnect the guard still measures today's loss from the reference it
\* took first, and still counts the entries it knew of.
RestartForgetsNothing ==
    session = "live" /\ known.day = Today =>
        /\ mem.dailyStart = known.start
        /\ known.fills > 0 => mem.tradeDate = Today /\ mem.trades >= known.fills

\* "Returning False skips the whole tick, so this must only fire when the
\* positions have been (or are being) flattened" (run.py:3102): a tick the guard
\* skips without closing anything leaves no position behind.
SkippedTickIsFlat == ~(idleSkip /\ open)
=============================================================================
