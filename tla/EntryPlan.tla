------------------------------ MODULE EntryPlan ------------------------------
(***************************************************************************)
(* core/ai/dynamic_sltp.py, the entry half: the stop and the target of a   *)
(* new trade, from the market's location, and the critic that may veto it. *)
(* Prices are those of MarketLocation; multiples of the ATR are given in   *)
(* per cent of it.                                                         *)
(***************************************************************************)
EXTENDS MarketLocation

CONSTANTS
    MinRR,              \* tp_rr_ratio
    StopPercent,        \* sl_atr_mult
    LeastPercent,       \* location_stop_min_atr
    MostPercent,        \* location_stop_max_atr
    BrokerDistance      \* the broker's minimum distance, in price units

(* A broker that names no tick is taken to quote in points.                *)
Grid(tick) == IF tick = 0 THEN 1 ELSE tick

(* The multiples are in the order every profile of the configuration keeps *)
(* (run.py:576).  Nothing in the code keeps a tick, or the distance the    *)
(* broker demands, small beside an ATR: where they are not, rounding or    *)
(* the broker decides the stop, and no bound in ATRs can hold.             *)
PlanAssumption ==
    /\ {MinRR, StopPercent, LeastPercent, MostPercent, BrokerDistance} \subseteq Nat
    /\ LeastPercent <= StopPercent /\ StopPercent <= MostPercent
    /\ \A atr \in AtrValues \ {0}, t \in Ticks :
         /\ t <= OfAtr(atr, 300) - OfAtr(atr, 75)
         /\ Grid(t) <= OfAtr(atr, MostPercent) - OfAtr(atr, LeastPercent)
         /\ 2 * Larger(BrokerDistance, 2 * Grid(t)) <= 2 * OfAtr(atr, LeastPercent) + Grid(t)

(* A target nearer than the minimum reward is moved out to it.             *)
FarEnough(entry, direction, stop, target, tick) ==
    LET risk == Distance(entry, stop)
    IN  IF Distance(entry, target) < MinRR * risk
        THEN Snap(entry + direction * MinRR * risk, tick) ELSE target

(* A stop is held between the least and the most distance.                 *)
WithinBounds(entry, direction, stop, tick, atr) ==
    LET risk == Distance(entry, stop)
        least == OfAtr(atr, LeastPercent)
        most == OfAtr(atr, MostPercent)
    IN  IF atr > 0 /\ risk < least THEN Snap(entry - direction * least, tick)
        ELSE IF atr > 0 /\ risk > most THEN Snap(entry - direction * most, tick)
        ELSE stop

AtLeast(distance, entry, side, price, tick) ==
    IF Distance(entry, price) < distance THEN Snap(entry + side * distance, tick) ELSE price

(* validate_entry_sltp: a pair on the wrong sides is refused; the reward   *)
(* is measured before the stop is held to its bounds.                      *)
ValidateEntry(entry, direction, proposedStop, proposedTarget, tick, atr) ==
    LET stop == Snap(proposedStop, tick)
        target == Snap(proposedTarget, tick)
        least == Larger(BrokerDistance, 2 * tick)
    IN  IF (entry - stop) * direction <= 0 \/ (target - entry) * direction <= 0 THEN Nothing
        ELSE [stop |-> AtLeast(least, entry, -direction,
                               WithinBounds(entry, direction, stop, tick, atr), tick),
              target |-> AtLeast(least, entry, direction,
                                 FarEnough(entry, direction, stop, target, tick), tick)]

(* Short of the nearest untaken pool ahead, if that pays the minimum.      *)
PoolTarget(location, entry, direction, risk, target) ==
    LET pool == TargetPool(location.pools, location.price, direction)
        short == pool.price - direction * OfAtr(location.atr, 15)
    IN  IF pool # Nothing /\ (short - entry) * direction > 0
           /\ Distance(short, entry) >= MinRR * risk
        THEN short ELSE target

(* Of the extensions it asks the location for, only the range high exists; *)
(* it is taken when it pays 1.8 and more than the target so far.           *)
FibTarget(location, entry, direction, risk, target) ==
    IF /\ location.range # Nothing
       /\ (location.range.high - entry) * direction > 0
       /\ 10 * Distance(location.range.high, entry) >= 18 * risk
       /\ Distance(location.range.high, entry) > Distance(target, entry)
    THEN location.range.high - direction * OfAtr(location.atr, 10) ELSE target

(* calculate_entry_sltp; the location is used where it is_valid, that is   *)
(* where it has a range, and its ATR is that of the bars the caller has.   *)
CalculateEntry(location, entry, direction, tick) ==
    LET valid == location.bias # "UNDEFINED"
        least == OfAtr(location.atr, LeastPercent)
        most == OfAtr(location.atr, MostPercent)
        volatile == OfAtr(location.atr, StopPercent)
        structural == StructuralStop(location, entry, direction, tick, least, most)
        stop == IF valid /\ structural # Nothing THEN structural.price
                ELSE entry - direction * volatile
        risk == Distance(entry, stop)
        plain == entry + direction * MinRR * risk
        target == IF ~valid \/ location.atr = 0 THEN plain
                  ELSE FibTarget(location, entry, direction, risk,
                                 PoolTarget(location, entry, direction, risk, plain))
        checked == ValidateEntry(entry, direction, stop, target, tick, location.atr)
    IN  IF checked # Nothing THEN checked
        ELSE [stop |-> Snap(entry - direction * volatile, tick),
              target |-> Snap(entry + direction * MinRR * volatile, tick)]

-----------------------------------------------------------------------------
(* For every entry at the last close, or a unit beside it, the stop is on  *)
(* the losing side and, up to the rounding of one price, within the bounds *)
(* the configuration sets; and the reward is the configured multiple of    *)
(* the risk that is really taken, up to the rounding of each price.        *)
EntryIsBalanced ==
    bars # <<>> => \A t \in Ticks, direction \in {-1, 1}, slip \in {-1, 0, 1} :
        LET atr == view[t].atr
            entry == view[t].price + slip
            tick == Grid(t)
            plan == CalculateEntry(view[t], entry, direction, tick)
            risk == (entry - plan.stop) * direction
            reward == (plan.target - entry) * direction
        IN  atr > 0 =>
            /\ 2 * risk >= 2 * OfAtr(atr, LeastPercent) - tick
            /\ risk > 0
            /\ 2 * risk <= 2 * Larger(OfAtr(atr, MostPercent), BrokerDistance) + tick
            /\ 2 * reward + tick * (1 + 2 * MinRR) >= 2 * MinRR * risk
=============================================================================
