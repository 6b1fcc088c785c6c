--------------------------- MODULE BotEntryRules ---------------------------
(***************************************************************************)
(* The rules of run.py that decide whether the bot may open a trade, and   *)
(* how large: the daily profit target, the pause of a direction after a    *)
(* losing trade, the news blackout, the agreement of the neural network,   *)
(* the losing-streak brake, where it is on, and the size.  One bot trades  *)
(* one symbol and holds at most one position.                              *)
(*                                                                         *)
(* A step of the bot is four actions, BeginStep, Manage, CloseBar and      *)
(* Enter, in that order; the broker, the market, the calendar and the      *)
(* dashboard act between them.  The drawdown ladder is a module of its own *)
(* (BotRiskLadder): here its answer is an input, the rung.                 *)
(***************************************************************************)
EXTENDS Sizing

CONSTANTS
    CooldownBars,     \* reentry_cooldown_bars
    History,          \* how many closed trades the streak brake remembers
    Targets,          \* values the dashboard gives daily_profit_target_money
    Buffer,           \* profit_lock_buffer_usd
    NewsBars,         \* bars that a scheduled event falls on
    NewsAround,       \* bars blocked before and after an event
    Profits,          \* profits a position may show
    Gains,            \* signals of the network: direction and confidence
    Symbol,           \* broker data of the symbol
    S,                \* sizing settings
    MaxBar, MaxDay, MaxClosed   \* bounds of the state space

(* Broker data and settings are numbers, and grains are fine enough for a  *)
(* loss of a hundredth of a lot to be one.                                 *)
EntryAssumption ==
    /\ {CooldownBars, History, Buffer, NewsAround, MaxBar, MaxDay, MaxClosed} \subseteq Nat
    /\ Targets \subseteq Nat /\ Targets # {} /\ Profits \subseteq Int /\ MaxDay > 0
    /\ \A gain \in Gains : gain.confidence \in Int
    /\ {Symbol.tickSize, Symbol.tickValue, Symbol.volMin, Symbol.volMax, Symbol.volStep} \subseteq Int
    /\ {S.riskPermille, S.adxLow, S.adxHigh, S.scaleLow, S.scaleHigh, S.highTier, S.lowTier,
        S.minEdge, S.maxOvershoot, S.nnThreshold, S.maxBoost, S.equity, S.stopDistance,
        S.adx, S.aiConf} \subseteq Int
    /\ (S.stopDistance > 0 /\ Complete(Symbol)) => LossPerUnit(S.stopDistance, Symbol) > 0

Directions == {-1, 1}
None == [none |-> TRUE]
ACTIVE == "ACTIVE"
LOCKING == "LOCKING"
REACHED == "DAILY_TARGET_REACHED"

VARIABLES
    pc,         \* where the bot's step stands
    bar,        \* _bar_counter
    day,        \* the calendar day
    target,     \* cfg daily_profit_target_money, edited live by the dashboard
    tracker,    \* DailyTargetTracker: the day it knows and its state
    position,   \* the position at the broker, or None
    dealNet,    \* net result of each closed ticket that the bot may still ask about
    track,      \* _track: the trade the bot has seen open, or None
    until,      \* DirectionCooldown._until
    pnls,       \* _recent_pnls
    trades,     \* the trades table: day and profit of each recorded close
    signal,     \* direction and network vote of the bar being evaluated
    entry,      \* history: the entry of the last step, with what was true then
    lossBar,    \* history: bar at which a loss was last noted, per direction
    lockedDay   \* history: the last day seen to reach its target

vars == <<pc, bar, day, target, tracker, position, dealNet, track, until, pnls, trades,
          signal, entry, lossBar, lockedDay>>
world == <<day, target, dealNet>>
Tickets == {0, 1}

-----------------------------------------------------------------------------
(* Helpers.                                                                *)

Sum(seq) == LET f[i \in 0..Len(seq)] == IF i = 0 THEN 0 ELSE f[i-1] + seq[i]
            IN  f[Len(seq)]

RealizedToday == Sum([i \in 1..Len(trades) |->
                        IF trades[i].day = day THEN trades[i].pnl ELSE 0])

LastOf(seq, n) == SubSeq(seq, Larger(1, Len(seq) - n + 1), Len(seq))

Floating == IF position = None THEN 0 ELSE position.profit

(* Plausible bug: a net that falls back below the target unlocks the day.  *)
TrackerAfterReopens(net, open) ==
    [day |-> day, state |-> IF net < target THEN ACTIVE ELSE IF open THEN LOCKING ELSE REACHED]

(* core/risk/daily_state.py, update: the day resets on a new key, latches  *)
(* when the net reaches the target and ends when nothing is open.          *)
TrackerAfter(net, open) ==
    LET kept    == IF tracker.day = day THEN tracker.state ELSE ACTIVE
        locking == IF kept = ACTIVE /\ net >= target THEN LOCKING ELSE kept
    IN  [day |-> day, state |-> IF locking = LOCKING /\ ~open THEN REACHED ELSE locking]

(* While LOCKING: close at once, or ratchet until the net gives back more  *)
(* than the buffer.  The buffer never exceeds the target.                  *)
MustClose(state, net, ratchet) ==
    state = LOCKING /\ (ratchet => net < target - Smaller(Buffer, target))

(* _close_position records the result in memory and in the trades table;   *)
(* a failed write is logged and forgotten.                                 *)
RecordClose(saved) ==
    /\ pnls' = LastOf(Append(pnls, position.profit), History)
    /\ trades' = IF saved THEN Append(trades, [day |-> day, pnl |-> position.profit]) ELSE trades
    /\ dealNet' = [dealNet EXCEPT ![position.ticket] = position.profit]
    /\ position' = None

(* A ticket that tells a new position from the one the bot still tracks.   *)
NewTicket == IF track # None /\ track.ticket = 0 THEN 1 ELSE 0

KeepPosition == UNCHANGED <<pnls, trades, dealNet, position>>

(* The bot's own close: it may fail and leave the position open.           *)
TryClose == \/ \E saved \in BOOLEAN : (saved => Len(trades) < MaxClosed) /\ RecordClose(saved)
            \/ KeepPosition

-----------------------------------------------------------------------------
Init ==
    /\ pc = "idle" /\ bar = 0 /\ day = 1 /\ target = CHOOSE t \in Targets : TRUE
    /\ tracker = [day |-> 0, state |-> ACTIVE]
    /\ position = None /\ dealNet = [t \in Tickets |-> 0] /\ track = None
    /\ until = [d \in Directions |-> 0]
    /\ pnls = <<>> /\ trades = <<>> /\ signal = None /\ entry = None
    /\ lossBar = [d \in Directions |-> -CooldownBars - 1] /\ lockedDay = 0

(* step, up to _apply_daily_target.  A disabled target leaves the tracker  *)
(* exactly as it is.                                                       *)
BeginStep ==
    /\ pc = "idle" /\ pc' = "manage"
    /\ LET net == RealizedToday + Floating
       IN  IF target <= 0
           THEN KeepPosition /\ UNCHANGED <<tracker, lockedDay>>
           ELSE /\ tracker' = TrackerAfter(net, position # None)
                /\ lockedDay' = IF net >= target THEN day ELSE lockedDay
                /\ \E ratchet \in BOOLEAN :
                     IF position # None /\ MustClose(tracker'.state, net, ratchet)
                     THEN TryClose ELSE KeepPosition
    /\ entry' = None /\ signal' = None
    /\ UNCHANGED <<bar, day, target, track, until, lossBar>>

(* record_loss: a pause is extended, never shortened.                      *)
PausedUntilOneBarLess(u) == bar + CooldownBars - 1     \* plausible bug: off by one
PausedUntil(u) == Larger(u, bar + CooldownBars)

(* _manage_positions: a tracked trade that is gone has ended, and a losing *)
(* one pauses its direction.  The deal history decides when it answers,    *)
(* else the last profit the bot sampled.                                   *)
Manage ==
    /\ pc = "manage" /\ pc' = "bar"
    /\ LET ended == track # None /\ (position = None \/ position.ticket # track.ticket)
       IN  \E known \in BOOLEAN :
             IF ended /\ (IF known THEN dealNet[track.ticket] ELSE track.last) < 0
             THEN /\ until' = [until EXCEPT ![track.direction] =
                                 IF CooldownBars = 0 THEN @ ELSE PausedUntil(@)]
                  /\ lossBar' = [lossBar EXCEPT ![track.direction] = bar]
             ELSE UNCHANGED <<until, lossBar>>
    /\ track' = IF position = None THEN None
                ELSE [ticket |-> position.ticket, direction |-> position.direction,
                      last |-> position.profit]
    /\ dealNet' = [t \in Tickets |-> 0]     \* no ticket closed so far is asked about again
    /\ UNCHANGED <<bar, day, target, tracker, position, pnls, trades, signal, entry, lockedDay>>

(* A new closed bar brings a signal; the first bar after start is never    *)
(* traded, and a signal against the open position closes it.               *)
CloseBar ==
    /\ pc = "bar"
    /\ \/ /\ pc' = "idle"                                     \* the bar is still open
          /\ KeepPosition /\ UNCHANGED <<bar, signal>>
       \/ /\ bar < MaxBar /\ bar' = bar + 1
          /\ \E d \in Directions \cup {0}, nn \in Gains :
               /\ IF bar = 0 \/ d = 0
                  THEN pc' = "idle" /\ UNCHANGED signal
                  ELSE pc' = "enter" /\ signal' = [direction |-> d, nn |-> nn]
               /\ IF bar > 0 /\ position # None /\ d # 0 /\ position.direction # d
                  THEN TryClose ELSE KeepPosition
    /\ UNCHANGED <<tracker, track, until, entry, lossBar, lockedDay, day, target>>

(* active_event: the window's edges are inside it.                         *)
NewsWindow(e) == (e - NewsAround)..(e + NewsAround)
NewsBlackout == \E e \in NewsBars : bar \in NewsWindow(e)

CooldownLeft(d) == IF until[d] = 0 THEN 0 ELSE Larger(0, until[d] - bar + 1)

EntryAllowed(rung, nnRequired) ==
    /\ position = None
    /\ rung > 0
    /\ ~NewsBlackout
    /\ tracker.state = ACTIVE
    /\ nnRequired => NNEntryOk(signal.nn, signal.direction, S.nnThreshold)
    /\ CooldownLeft(signal.direction) = 0

(* _streak_size_factor looks at the losing streak only if streak_sizing is *)
(* on; by default it is off.                                               *)
LossesCounted(streakSizing) == IF streakSizing THEN LosingStreak(pnls) ELSE 0

(* The ladder's rung, the losing streak, then the network's boost.         *)
Multiplier(rung, streakSizing) ==
    ApplyNNBoost((rung * (IF streakSizing THEN StreakMultiplier(pnls, 2, 50) ELSE 100)) \div 100,
                 NNSizeFactor(signal.nn, signal.direction, S.nnThreshold, S.maxBoost))

(* The entry: the order may be refused, by the sizer or by the broker.     *)
Enter ==
    /\ pc = "enter" /\ pc' = "idle"
    /\ \E rung \in {0, 50, 100}, nnRequired, streakSizing, filled \in BOOLEAN, opening \in Profits :
         LET mult == Multiplier(rung, streakSizing)
             size == SizeLot(S.equity, S.stopDistance, Symbol, S.adx, S.aiConf, mult, S)
         IN  IF EntryAllowed(rung, nnRequired) /\ size.volume # NoVolume /\ filled
             THEN /\ position' = [ticket |-> NewTicket, direction |-> signal.direction, profit |-> opening]
                  /\ entry' = [direction |-> signal.direction, rung |-> rung, mult |-> mult,
                               volume |-> size.volume, losses |-> LossesCounted(streakSizing),
                               sinceLoss |-> bar - lossBar[signal.direction],
                               locked |-> lockedDay = day]
             ELSE UNCHANGED <<position, entry>>
    /\ UNCHANGED <<bar, tracker, track, until, pnls, trades, signal, lossBar, lockedDay, world>>

-----------------------------------------------------------------------------
(* The world around the bot.                                               *)

(* The broker fills a stop or a target: nothing is recorded by the bot.    *)
BrokerCloses ==
    /\ position # None
    /\ dealNet' = [dealNet EXCEPT ![position.ticket] = position.profit]
    /\ position' = None
    /\ UNCHANGED <<pc, bar, day, target, tracker, track, until, pnls, trades, signal, entry,
                   lossBar, lockedDay>>

MarketMoves ==
    /\ position # None
    /\ \E p \in Profits : position' = [position EXCEPT !.profit = p]
    /\ UNCHANGED <<pc, bar, tracker, track, until, pnls, trades, signal, entry, lossBar,
                   lockedDay, world>>

NextDay ==
    /\ day < MaxDay /\ day' = day + 1
    /\ UNCHANGED <<pc, bar, target, tracker, position, dealNet, track, until,
                   pnls, trades, signal, entry, lossBar, lockedDay>>

DashboardEditsTarget ==
    /\ \E t \in Targets \ {target} : target' = t
    /\ UNCHANGED <<pc, bar, day, tracker, position, dealNet, track, until, pnls,
                   trades, signal, entry, lossBar, lockedDay>>

(* The process starts again: only the trades table is left.  The tracker's *)
(* restore and the cooldown have no file to come back from.                *)
Restart ==
    /\ pc' = "idle" /\ bar' = 0
    /\ tracker' = [day |-> 0, state |-> ACTIVE]
    /\ track' = None /\ until' = [d \in Directions |-> 0] /\ signal' = None /\ entry' = None
    /\ dealNet' = [t \in Tickets |-> 0]
    /\ pnls' = LastOf([i \in 1..Len(trades) |-> trades[i].pnl], History)
    /\ lossBar' = [d \in Directions |-> -CooldownBars - 1] /\ lockedDay' = 0
    /\ UNCHANGED <<trades, position, day, target>>

Next == \/ BeginStep \/ Manage \/ CloseBar \/ Enter
        \/ BrokerCloses \/ MarketMoves \/ NextDay \/ DashboardEditsTarget \/ Restart

Spec == Init /\ [][Next]_vars

-----------------------------------------------------------------------------
TypeOK ==
    /\ pc \in {"idle", "manage", "bar", "enter"}
    /\ bar \in 0..MaxBar /\ day \in 1..MaxDay /\ target \in Targets
    /\ tracker \in [day : 0..MaxDay, state : {ACTIVE, LOCKING, REACHED}]
    /\ position = None \/ position \in [ticket : Tickets, direction : Directions, profit : Profits]
    /\ track = None \/ track \in [ticket : Tickets, direction : Directions, last : Profits]
    /\ until \in [Directions -> Nat]
    /\ Len(pnls) <= History /\ Len(trades) <= MaxClosed

(* A bar after a losing trade of the bot: for CooldownBars bars no trade   *)
(* opens in its direction, whatever other trades open and end meanwhile    *)
(* and however the loss was learnt.                                        *)
LosingDirectionPauses == entry # None => entry.sinceLoss > CooldownBars

(* A day that was seen to reach its target opens no further trade, even if *)
(* the banked gain shrinks below the target while closing or the dashboard *)
(* raises, lowers or disables the target afterwards.                       *)
NoEntryAfterLock == entry # None => ~entry.locked

(* What an entry risks: a reduced rung, or a losing streak if the bot is   *)
(* told to count it (streak_sizing, off by default), halves it and no      *)
(* confidence of the network lifts it again; the stop costs no more than   *)
(* the budget, or than the allowed overshoot, which a setting of 0 leaves  *)
(* open, when the minimum lot is forced.                                   *)
EntryRiskIsBounded ==
    entry # None =>
        LET risk   == entry.volume * LossPerUnit(S.stopDistance, Symbol)
            budget == BudgetOf(S.equity, S.adx, S.aiConf, entry.mult, S)
        IN  /\ (entry.losses >= 2 \/ entry.rung < 100) => entry.mult <= 50
            /\ (entry.losses >= 2 /\ entry.rung < 100) => entry.mult <= 25
            /\ entry.mult <= 100 + Larger(0, S.maxBoost)
            /\ \/ risk <= budget
               \/ /\ entry.volume = Symbol.volMin
                  /\ S.maxOvershoot > 0 => risk <= S.maxOvershoot * budget
=============================================================================
