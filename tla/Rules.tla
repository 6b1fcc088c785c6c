------------------------------- MODULE Rules -------------------------------
(***************************************************************************)
(* Four components that decide whether, where and how far a position may   *)
(* go, in one specification: the entry rules of the bot, the risk gate     *)
(* with its orchestrator, the location of the market, and the two writers  *)
(* of a position's stop.  They share no state: a behaviour is one of the   *)
(* four alone, chosen at the start by focus, while the variables of the    *)
(* others keep their initial values.                                       *)
(***************************************************************************)
EXTENDS Integers, Sequences

CONSTANTS
    CooldownBars, History, Targets, Buffer, NewsBars, NewsAround, Profits, Gains, Symbol, S,
    MaxBar, MaxDay, MaxClosed,
    Callers, Limits, Ranges, Edits, Broker, Scale, Equities, Pnls, TicksPerDay, DaysPerWeek,
    WeeksPerYear, CooldownTicks, MaxNow, MaxLosses, MaxTrades, Symbols, Markets, MinScore, FallbackTarget, FallbackR,
    Execute, MaxPositions, MaxLate,
    Shapes, Left, Right, Window, AtrValues, Ticks, MaxBars, MinRR, StopPercent, LeastPercent, MostPercent,
    BrokerDistance,
    Open, Prices, Lows, FirstStops, StopsLevel

VARIABLES
    focus,
    pc, bar, day, target, tracker, position, dealNet, track, until, pnls, trades,
    signal, entry, lossBar, lockedDay,
    now, stop, peak, sessionStart, dailyStart, dailyDate, weekStart, weekDate, streak,
    cooldownUntil, tradesToday, tradeDate, limits, call, stage, plan, open, late,
    sentInStop, strays,
    bars, view,
    price, managed, policy, manager, reasoner, first, bestProfit

entryVars == <<pc, bar, day, target, tracker, position, dealNet, track, until, pnls, trades,
               signal, entry, lossBar, lockedDay>>
gateVars == <<now, stop, peak, sessionStart, dailyStart, dailyDate, weekStart, weekDate,
              streak, cooldownUntil, tradesToday, tradeDate, limits, call, stage, plan, open,
              late, sentInStop, strays>>
marketVars == <<bars, view>>
stopVars == <<price, managed, policy, manager, reasoner, first, bestProfit>>
vars == <<focus, entryVars, gateVars, marketVars, stopVars>>

-----------------------------------------------------------------------------
Entries == INSTANCE BotEntryRules
Gate == INSTANCE Orchestrator WITH pc <- stage
Market == INSTANCE EntryPlan
Stops == INSTANCE PositionRules WITH position <- managed

ASSUME RulesAssumption ==
    /\ Entries!EntryAssumption /\ Gate!GateAssumption /\ Market!LocationAssumption
    /\ Market!PlanAssumption /\ Stops!PositionAssumption

-----------------------------------------------------------------------------
Init ==
    /\ focus \in {"entries", "gate", "market", "stops"}
    /\ Entries!Init /\ Gate!Init /\ Market!Init /\ Stops!Init

Next ==
    \/ focus = "entries" /\ Entries!Next /\ UNCHANGED <<focus, gateVars, marketVars, stopVars>>
    \/ focus = "gate" /\ Gate!Next /\ UNCHANGED <<focus, entryVars, marketVars, stopVars>>
    \/ focus = "market" /\ Market!Next /\ UNCHANGED <<focus, entryVars, gateVars, stopVars>>
    \/ focus = "stops" /\ Stops!Next /\ UNCHANGED <<focus, entryVars, gateVars, marketVars>>

Spec == Init /\ [][Next]_vars

-----------------------------------------------------------------------------
(* Every variable of the four components has its type.                     *)
TypeOK == Entries!TypeOK /\ Gate!TypeOK /\ Market!TypeOK /\ Stops!TypeOK

(* DirectionCooldown: a losing trade pauses its direction.                 *)
LosingDirectionPauses == Entries!LosingDirectionPauses

(* DailyTargetTracker: no entry on a day that was seen to reach its target. *)
NoEntryAfterLock == Entries!NoEntryAfterLock

(* _size_lot: the loss at the stop keeps to the budget of its scalers.     *)
EntryRiskIsBounded == Entries!EntryRiskIsBounded

(* approve and the orchestrator: what overlapping calls can exceed.        *)
RiskGateIsSound == Gate!StopAdmitsOnlyRunningCalls /\ Gate!CapOvershootIsBounded

(* swings, levels, liquidity: what was confirmed is not taken back.        *)
ConfirmedNeverRepaints == Market!ConfirmedNeverRepaints

(* location and dynamic_sltp: where an entry's stop and target stand, and  *)
(* which entries against the trend are let through.                        *)
EntryIsDefensible ==
    Market!StopIsDefensible /\ Market!EntryIsBalanced /\ Market!FadesOnlyTheExtreme

(* PositionManager and DynamicSLTPReasoner moving the same stop.           *)
NeverLooserThanFirstStop == Stops!NeverLooserThanFirstStop
=============================================================================
