----------------------------- MODULE RiskEngine -----------------------------
(***************************************************************************)
(* core/risk/engine.py: the shared object that approves or rejects a trade *)
(* proposal.  Any number of threads call it.  It has one lock, which       *)
(* approve takes four times: for its snapshot of the references, for the   *)
(* kill switch, for the trade count and for the cooldown.  Each of these   *)
(* is one action here, with the unlocked checks that follow it; between    *)
(* two of them every other method may run.                                 *)
(*                                                                         *)
(* Percentages are integers; a reference of 0 is one not set yet.          *)
(***************************************************************************)
EXTENDS Sizing

CONSTANTS
    Callers,          \* threads that ask for approval
    Limits,           \* initial limits: a record, see Configurable
    Ranges,           \* permitted values of each configurable limit
    Edits,            \* partial updates an operator may send (functions)
    Broker,           \* broker data of the symbol
    Scale,            \* sizing settings
    Equities,         \* equities an account may show
    Pnls,             \* results of closed trades
    TicksPerDay, DaysPerWeek, WeeksPerYear, CooldownTicks,
    MaxNow,           \* bound of the clock
    MaxLosses, MaxTrades  \* bounds: losses in a row, trades reported in a day

(* Every configurable limit starts within its range, and the cap on open   *)
(* positions has a largest permitted value.                                *)
EngineAssumption ==
    /\ Callers # {} /\ IsFiniteSet(Callers)
    /\ {TicksPerDay, DaysPerWeek, WeeksPerYear} \subseteq Nat \ {0}
    /\ {CooldownTicks, MaxNow, MaxLosses, MaxTrades} \subseteq Nat /\ Equities \subseteq Nat /\ Pnls \subseteq Int
    /\ {"maxOpen", "maxLosses"} \subseteq DOMAIN Ranges
    /\ \A k \in DOMAIN Ranges :
          k \in DOMAIN Limits /\ Limits[k] \in Ranges[k] /\ Ranges[k] \subseteq Nat
    /\ \E most \in Ranges["maxOpen"] : \A cap \in Ranges["maxOpen"] : cap <= most

VARIABLES
    now,            \* the clock
    stop,           \* _emergency_stop
    peak,           \* _equity_peak
    sessionStart,   \* _session_start_equity
    dailyStart, dailyDate, weekStart, weekDate,
    streak,         \* _consecutive_losses
    cooldownUntil,  \* _loss_streak_cooldown_until
    tradesToday, tradeDate,
    limits,         \* the configurable attributes
    call            \* what each thread's approve has read and concluded

references == <<peak, sessionStart, dailyStart, dailyDate, weekStart, weekDate>>
counters == <<streak, cooldownUntil, tradesToday, tradeDate>>
engineVars == <<now, stop, references, counters, limits, call>>

Never == -1
Today == now \div TicksPerDay
\* isocalendar()[1]: the number of the week within its year, without the year.
IsoWeek(d) == (d \div DaysPerWeek) % WeeksPerYear

NoCall == [step |-> "none"]
OrElse(reference, equity) == IF reference # 0 THEN reference ELSE equity

(* A fraction of the reference has been lost: (r - e) / r >= limit.        *)
LostFraction(reference, equity, limit) ==
    reference > 0 /\ equity > 0 /\ (reference - equity) * 100 >= limit * reference

-----------------------------------------------------------------------------
EngineInit ==
    /\ now = 0 /\ stop = FALSE
    /\ peak = 0 /\ sessionStart = 0
    /\ dailyStart = 0 /\ dailyDate = Never /\ weekStart = 0 /\ weekDate = Never
    /\ streak = 0 /\ cooldownUntil = 0 /\ tradesToday = 0 /\ tradeDate = Never
    /\ limits = Limits
    /\ call = [c \in Callers |-> NoCall]

(* Plausible bug: what was not validated is written too.                  *)
UpdateConfigUnchecked ==
    /\ \E edit \in Edits :
         limits' = [k \in DOMAIN limits |-> IF k \in DOMAIN edit THEN edit[k] ELSE limits[k]]
    /\ UNCHANGED <<now, stop, references, counters, call>>

(* update_config: every key and value is validated before any is written.  *)
UpdateConfig ==
    /\ \E edit \in Edits :
         limits' = IF \A k \in DOMAIN edit : k \in DOMAIN Ranges /\ edit[k] \in Ranges[k]
                   THEN [k \in DOMAIN limits |-> IF k \in DOMAIN edit THEN edit[k] ELSE limits[k]]
                   ELSE limits
    /\ UNCHANGED <<now, stop, references, counters, call>>

(* update_equity: a new day resets the day's reference and the count, a    *)
(* week with another number resets the week's, and the peak only rises.    *)
UpdateEquity ==
    /\ \E equity \in Equities :
         /\ IF dailyDate # Today
            THEN /\ dailyDate' = Today /\ dailyStart' = equity
                 /\ tradesToday' = 0 /\ tradeDate' = Today
            ELSE UNCHANGED <<dailyDate, dailyStart, tradesToday, tradeDate>>
         /\ IF weekDate = Never \/ IsoWeek(weekDate) # IsoWeek(Today)
            THEN weekDate' = Today /\ weekStart' = equity
            ELSE UNCHANGED <<weekDate, weekStart>>
         /\ peak' = Larger(peak, equity)
         /\ sessionStart' = IF sessionStart = 0 THEN equity ELSE sessionStart
    /\ UNCHANGED <<now, stop, streak, cooldownUntil, limits, call>>

(* record_trade_result: the cooldown is armed at the limit and again by    *)
(* every further loss, because only a win or a breakeven resets the count. *)
RecordTradeResult ==
    /\ \E pnl \in Pnls :
         IF pnl < 0
         THEN /\ streak < MaxLosses /\ streak' = streak + 1
              /\ cooldownUntil' = IF streak + 1 >= limits.maxLosses
                                  THEN now + CooldownTicks ELSE cooldownUntil
         ELSE streak' = 0 /\ UNCHANGED cooldownUntil
    /\ UNCHANGED <<now, stop, references, tradesToday, tradeDate, limits, call>>

TriggerStop == /\ ~stop /\ stop' = TRUE
               /\ UNCHANGED <<now, references, counters, limits, call>>
ResetStop   == /\ stop /\ stop' = FALSE
               /\ UNCHANGED <<now, references, counters, limits, call>>

OnTradeOpened == /\ tradesToday < MaxTrades /\ tradesToday' = tradesToday + 1
                 /\ UNCHANGED <<now, stop, references, streak, cooldownUntil, tradeDate,
                                limits, call>>

Tick == /\ now < MaxNow /\ now' = now + 1
        /\ UNCHANGED <<stop, references, counters, limits, call>>

-----------------------------------------------------------------------------
(* approve(proposal, open_positions_count, used_margin).                   *)

Reject(c, reason) == call' = [call EXCEPT ![c] = [@ EXCEPT !.step = "done", !.verdict = reason]]

StopDistance(p) == IF p.entry >= p.sl THEN p.entry - p.sl ELSE p.sl - p.entry
TargetDistance(p) == IF p.tp = 0 THEN 0 ELSE IF p.tp >= p.entry THEN p.tp - p.entry
                                             ELSE p.entry - p.tp
WrongSide(p) == IF p.direction = 1 THEN p.sl >= p.entry ELSE p.sl <= p.entry

(* First lock: equity and references as they are now.                      *)
ApproveBegin(c, p, openCount, usedMargin) ==
    LET equity == IF p.hasAccount THEN p.equity ELSE sessionStart
    IN  call' = [call EXCEPT ![c] =
            [step |-> "stop", verdict |-> "none", proposal |-> p, open |-> openCount,
             margin |-> usedMargin, equity |-> equity,
             daily |-> OrElse(dailyStart, equity), week |-> OrElse(weekStart, equity),
             peak |-> OrElse(peak, equity), lot |-> 0]]

(* Plausible bug: the kill switch is not looked at.                        *)
ApproveStopUnswitched(c) ==
    /\ call[c].step = "stop"
    /\ LET p == call[c].proposal
       IN  IF p.sl = 0 \/ WrongSide(p) THEN Reject(c, "sl_invalid")
           ELSE IF TargetDistance(p) < limits.minRR * StopDistance(p) THEN Reject(c, "rr_ratio")
           ELSE IF call[c].open >= limits.maxOpen THEN Reject(c, "max_positions")
           ELSE call' = [call EXCEPT ![c].step = "count"]
    /\ UNCHANGED <<now, stop, references, counters, limits>>

(* Second lock: the kill switch; then stop, side, risk:reward, open count. *)
ApproveStop(c) ==
    /\ call[c].step = "stop"
    /\ LET p == call[c].proposal
       IN  IF stop THEN Reject(c, "emergency stop active")
           ELSE IF p.sl = 0 THEN Reject(c, "stop_loss_required")
           ELSE IF WrongSide(p) THEN Reject(c, "sl_invalid")
           ELSE IF TargetDistance(p) < limits.minRR * StopDistance(p) THEN Reject(c, "rr_ratio")
           ELSE IF call[c].open >= limits.maxOpen THEN Reject(c, "max_positions")
           ELSE call' = [call EXCEPT ![c].step = "count"]
    /\ UNCHANGED <<now, stop, references, counters, limits>>

(* Third lock: the day's trades; then the daily, weekly and total losses,  *)
(* measured against the snapshot.                                          *)
ApproveCount(c) ==
    /\ call[c].step = "count"
    /\ LET count == IF tradeDate # Today THEN 0 ELSE tradesToday
           k == call[c]
       IN  /\ tradesToday' = count /\ tradeDate' = Today
           /\ IF count >= limits.maxTrades THEN Reject(c, "max_trades_per_day")
              ELSE IF LostFraction(k.daily, k.equity, limits.maxDaily) THEN Reject(c, "daily_loss_limit")
              ELSE IF LostFraction(k.week, k.equity, limits.maxWeekly) THEN Reject(c, "weekly_loss_limit")
              ELSE IF LostFraction(k.peak, k.equity, limits.maxDrawdown) THEN Reject(c, "max_drawdown")
              ELSE call' = [call EXCEPT ![c].step = "cooldown"]
    /\ UNCHANGED <<now, stop, references, streak, cooldownUntil, limits>>

(* Fourth lock: the cooldown; then spread, size and margin.                *)
ApproveCooldown(c) ==
    /\ call[c].step = "cooldown"
    /\ LET k == call[c]
           p == k.proposal
           lot == EngineLotSize(k.equity, StopDistance(p), Broker, p.adx, Scale)
       IN  IF cooldownUntil > now THEN Reject(c, "loss_streak_cooldown")
           ELSE IF limits.maxSpread > 0 /\ p.hasInfo /\ p.spread > limits.maxSpread
                THEN Reject(c, "spread_too_wide")
           ELSE IF ~p.hasInfo \/ k.equity <= 0 \/ lot = NoVolume THEN Reject(c, "position_size")
           ELSE IF p.hasAccount /\ (k.margin + p.marginEstimate) * 100 >= k.equity * limits.maxMargin
                THEN Reject(c, "margin_limit")
           ELSE call' = [call EXCEPT ![c] = [@ EXCEPT !.step = "done", !.verdict = "APPROVED",
                                                      !.lot = lot]]
    /\ UNCHANGED <<now, stop, references, counters, limits>>

Approved(c) == call[c].step = "done" /\ call[c].verdict = "APPROVED"

EngineTypeOK ==
    /\ now \in 0..MaxNow /\ stop \in BOOLEAN
    /\ {peak, sessionStart, dailyStart, weekStart} \subseteq Nat
    /\ {dailyDate, weekDate, tradeDate} \subseteq Int
    /\ {streak, cooldownUntil, tradesToday} \subseteq Nat
    /\ \A k \in DOMAIN Ranges : limits[k] \in Ranges[k]
    /\ \A c \in Callers : call[c].step \in {"none", "stop", "count", "cooldown", "done"}
=============================================================================
