--------------------------- MODULE MarketLocation ---------------------------
(***************************************************************************)
(* core/market: what the bot knows about where price is.  A series of      *)
(* closed bars grows by one bar at a time; after each bar the whole        *)
(* analysis is made again from the newest Window bars and their ATR: swing *)
(* points, structure, levels, liquidity pools, the dealing range, the      *)
(* entry gate and the structural stop.  Bars are named by their place in   *)
(* the whole series, as the code's timestamps do.                          *)
(*                                                                         *)
(* Prices and ATRs are integers.  An ATR is a multiple of 40, so that      *)
(* every threshold the code writes as a fraction of it is a whole number;  *)
(* it is the value the pipeline gives the newest bar, any of AtrValues.    *)
(* Scores, confidences and cautions only colour a report and are left out, *)
(* and with them the cut to the 24 strongest zones and the first 16 pools. *)
(***************************************************************************)
EXTENDS Sizing, SequencesExt

CONSTANTS
    Shapes,          \* bars the market may print: high, low and close
    Left, Right,     \* bars a pivot needs on each side
    Window,          \* bars that are fetched for an analysis
    AtrValues,       \* ATRs of a bar, 0 when no scale can be established
    Ticks,           \* price increments a broker may quote, 0 for an unknown one
    MaxBars          \* bound of the series

LocationAssumption ==
    /\ {Left, Right, MaxBars} \subseteq Nat /\ Left + Right > 0 /\ Window \in Nat \ {0}
    /\ AtrValues \subseteq Nat /\ \A atr \in AtrValues : atr % 40 = 0
    /\ \A s \in Shapes : {s.low, s.close, s.high} \subseteq Int /\ s.low <= s.close
                           /\ s.close <= s.high
    /\ Ticks \subseteq Nat

VARIABLES bars, view
vars == <<bars, view>>

HIGH == "HIGH"
LOW == "LOW"
Kinds == {HIGH, LOW}
Nothing == [none |-> TRUE]
OfAtr(atr, percent) == (atr * percent) \div 100

(* The oldest bar that is fetched, and the first that can host a pivot.    *)
Oldest(bs) == Larger(1, Len(bs) - Window + 1)
FirstHost(bs) == Oldest(bs) + Left

-----------------------------------------------------------------------------
(* Swing points.                                                           *)

(* How extreme bar j is on a side: its high, or its low upside down.       *)
Extreme(bs, kind, j) == IF kind = HIGH THEN bs[j].high ELSE -bs[j].low

(* The first of the most extreme bars of its window, unless all are equal. *)
Pivot(bs, kind, i, window) ==
    /\ \A j \in window : Extreme(bs, kind, j) <= Extreme(bs, kind, i)
    /\ \A j \in window : j < i => Extreme(bs, kind, j) < Extreme(bs, kind, i)
    /\ \E j \in window : Extreme(bs, kind, j) < Extreme(bs, kind, i)

SwingAt(bs, kind, i) ==
    [at |-> i, kind |-> kind, price |-> IF kind = HIGH THEN bs[i].high ELSE bs[i].low]

(* The pivots among bars whose window ends at most right bars later.       *)
SwingsAmong(bs, positions, right) ==
    {SwingAt(bs, s[1], s[2]) : s \in {t \in Kinds \X positions :
        Pivot(bs, t[1], t[2], t[2] - Left .. Smaller(t[2] + right, Len(bs)))}}

(* Plausible bug: the last bar is confirmed before its right side closes.  *)
ConfirmedSwingsOneBarEarly(bs) ==
    SwingsAmong(bs, FirstHost(bs) .. Len(bs) - Right + 1, Right)

(* A confirmed pivot has Right closed bars after it; the pivots of the     *)
(* tail are judged by the bars there are and may still revise.             *)
ConfirmedSwings(bs) ==
    SwingsAmong(bs, FirstHost(bs) .. Len(bs) - Right, Right)
TailSwings(bs) ==
    SwingsAmong(bs, Larger(FirstHost(bs), Len(bs) - Right + 1) .. Len(bs), Right)

(* A set as a sequence: i - 1 of its members come before the i-th.         *)
InOrder(S, Before(_, _)) ==
    [i \in 1..Cardinality(S) |-> CHOOSE s \in S : Cardinality({t \in S : Before(t, s)}) = i - 1]

Earlier(s, t) == s.at < t.at \/ (s.at = t.at /\ s.kind = HIGH /\ t.kind = LOW)
Chronological(swings) == InOrder(swings, Earlier)

(* The members that pass a test: SelectSeq, which no prover can expand.    *)
Those(seq, Test(_)) ==
    FoldLeft(LAMBDA out, s : IF Test(s) THEN Append(out, s) ELSE out, <<>>, seq)
OfKind(seq, kind) == Those(seq, LAMBDA s : s.kind = kind)
UpToBar(seq, bar) == Those(seq, LAMBDA s : s.at < bar)

(* Of consecutive swings of one kind only the most extreme is kept.        *)
Alternating(seq) ==
    FoldLeft(LAMBDA out, s :
               IF out = <<>> \/ Last(out).kind # s.kind THEN Append(out, s)
               ELSE IF (IF s.kind = HIGH THEN s.price > Last(out).price
                                         ELSE s.price < Last(out).price)
                    THEN Append(Front(out), s) ELSE out,
             <<>>, seq)

-----------------------------------------------------------------------------
(* Structure: the bias of the swings and the closes that broke them.       *)

Trend(seq) == LET now == seq[Len(seq)].price
                  before == seq[Len(seq) - 1].price
              IN  IF now > before THEN 1 ELSE IF now < before THEN -1 ELSE 0

BiasOf(highs, lows) ==
    IF Len(highs) < 2 \/ Len(lows) < 2 THEN "UNDEFINED"
    ELSE IF Trend(highs) = 1 /\ Trend(lows) = 1 THEN "BULLISH"
    ELSE IF Trend(highs) = -1 /\ Trend(lows) = -1 THEN "BEARISH"
    ELSE "RANGING"

(* The first of the bars that meet a condition, or 0.                      *)
FirstBar(hits) == IF hits = {} THEN 0 ELSE CHOOSE i \in hits : \A j \in hits : i <= j

(* Swings are visited in order; a close beyond one is a break, a change of *)
(* character when it goes against the bias derived so far.                 *)
VisitSwing(bs, acc, s) ==
    LET up   == s.kind = HIGH
        hit  == FirstBar({i \in s.at + 1 .. Len(bs) : IF up THEN bs[i].close > s.price
                                                            ELSE bs[i].close < s.price})
        kind == IF (up /\ acc.bias = "BEARISH") \/ (~up /\ acc.bias = "BULLISH")
                THEN "CHOCH" ELSE "BOS"
        seen == Append(acc.seen, s)
        fromBreak == IF hit = 0 THEN acc.bias ELSE IF up THEN "BULLISH" ELSE "BEARISH"
        fromSwings == BiasOf(OfKind(seen, HIGH), OfKind(seen, LOW))
    IN  [seen |-> seen,
         bias |-> IF s.at < Len(bs) /\ fromSwings \in {"BULLISH", "BEARISH"}
                  THEN fromSwings ELSE fromBreak,
         events |-> IF hit = 0 THEN acc.events
                    ELSE acc.events \cup {[kind |-> kind, up |-> up, level |-> s.price,
                                           at |-> hit, swing |-> s.at]}]

Breaks(bs, seq) ==
    FoldLeft(LAMBDA acc, s : VisitSwing(bs, acc, s),
             [seen |-> <<>>, bias |-> "UNDEFINED", events |-> {}], seq).events

Structure(bs) ==
    LET seq == Alternating(Chronological(ConfirmedSwings(bs)))
    IN  IF Len(seq) < 2 THEN [bias |-> "UNDEFINED", swings |-> seq, events |-> {}]
        ELSE [bias |-> BiasOf(OfKind(seq, HIGH), OfKind(seq, LOW)), swings |-> seq,
              events |-> Breaks(bs, seq)]

(* The swing whose loss proves a trade in this direction wrong.            *)
ActiveSwing(structure, direction) ==
    LET seq == structure.swings
        own == {i \in DOMAIN seq : seq[i].kind = IF direction > 0 THEN LOW ELSE HIGH}
    IN  IF own = {} THEN Nothing ELSE seq[Max(own)]

-----------------------------------------------------------------------------
(* Levels and liquidity: clusters of confirmed swings.                     *)

Total(cluster) == FoldLeft(LAMBDA sum, s : sum + s.price, 0, cluster)
Distance(a, b) == IF a >= b THEN a - b ELSE b - a
Snap(price, tick) == IF tick = 0 THEN price ELSE ((2 * price + tick) \div (2 * tick)) * tick
FirstAt(cluster) == CHOOSE i \in {s.at : s \in ToSet(cluster)} : \A s \in ToSet(cluster) : i <= s.at
LastAt(cluster) == CHOOSE i \in {s.at : s \in ToSet(cluster)} : \A s \in ToSet(cluster) : s.at <= i

Cheaper(s, t) == s.price < t.price \/ (s.price = t.price /\ s.at < t.at)

(* Greedy, by ascending price: a swing joins while it is within tolerance  *)
(* of the mean of the open cluster.                                        *)
Clusters(swings, kind, tolerance) ==
    FoldLeft(LAMBDA out, s :
               IF /\ out # <<>>
                  /\ Distance(s.price * Len(Last(out)), Total(Last(out))) <= tolerance * Len(Last(out))
               THEN Append(Front(out), Append(Last(out), s)) ELSE Append(out, <<s>>),
             <<>>, InOrder({s \in swings : s.kind = kind}, Cheaper))

ClustersOf(bs, tolerance) ==
    UNION {ToSet(Clusters(ConfirmedSwings(bs), k, tolerance)) : k \in Kinds}

(* A zone is the padded band of its swings.  A later close clearly beyond  *)
(* its far edge breaks it, and a broken zone changes sides.                *)
Zone(bs, cluster, tolerance, tick, atr) ==
    LET kind   == cluster[1].kind
        prices == {s.price : s \in ToSet(cluster)}
        lower  == Snap((CHOOSE p \in prices : \A q \in prices : p <= q) - tolerance \div 4, tick)
        upper  == Snap((CHOOSE p \in prices : \A q \in prices : q <= p) + tolerance \div 4, tick)
        broken == FirstBar({i \in LastAt(cluster) + 1 .. Len(bs) :
                              IF kind = HIGH THEN bs[i].close > upper + OfAtr(atr, 10)
                                             ELSE bs[i].close < lower - OfAtr(atr, 10)})
    IN  [members |-> ToSet(cluster), lower |-> lower, upper |-> upper, broken |-> broken,
         resistance |-> (kind = HIGH) = (broken = 0)]

BuildLevels(bs, tick, atr) ==
    IF Cardinality(ConfirmedSwings(bs)) < 2 \/ atr = 0 THEN {}
    ELSE LET tolerance == Larger(OfAtr(atr, 30), tick)
         IN  {Zone(bs, c, tolerance, tick, atr) : c \in ClustersOf(bs, tolerance)}

(* A pool is two or more swings at one price.  A wick through it that      *)
(* closes back beyond a margin sweeps it; closes that then leave it by     *)
(* three quarters of the ATR mitigate it.  The price of a swept pool is    *)
(* that of the members before the sweep.                                   *)
Pool(bs, cluster, tick, atr) ==
    LET kind  == cluster[1].kind
        n     == Len(cluster)
        mean  == Snap(Total(cluster) \div n, tick)
        swept == FirstBar({i \in FirstAt(cluster)..Len(bs) :
                   IF kind = HIGH THEN bs[i].high > mean /\ bs[i].close < mean - OfAtr(atr, 15)
                                  ELSE bs[i].low < mean /\ bs[i].close > mean + OfAtr(atr, 15)})
        before == UpToBar(cluster, swept)
        level == IF before = <<>> THEN mean ELSE Total(before) \div Len(before)
        rejected == \E i \in swept..Len(bs) :
                      (IF kind = HIGH THEN level - bs[i].close ELSE bs[i].close - level) >= OfAtr(atr, 75)
    IN  [members |-> ToSet(cluster), kind |-> kind, swept |-> swept,
         price |-> IF swept = 0 THEN mean ELSE level,
         state |-> IF swept = 0 THEN "RESTING" ELSE IF rejected THEN "MITIGATED" ELSE "SWEPT"]

ScanLiquidity(bs, tick, atr) ==
    IF Cardinality(ConfirmedSwings(bs)) < 2 \/ atr = 0 THEN {}
    ELSE {Pool(bs, c, tick, atr) : c \in {d \in ClustersOf(bs, Larger(OfAtr(atr, 20), tick)) : Len(d) >= 2}}

(* The nearest resting pool in the direction of a trade.                   *)
TargetPool(pools, price, direction) ==
    LET ahead == {p \in pools : p.state = "RESTING"
                                 /\ p.kind = (IF direction > 0 THEN HIGH ELSE LOW)
                                 /\ (p.price - price) * direction > 0}
    IN  IF ahead = {} THEN Nothing
        ELSE CHOOSE p \in ahead : \A q \in ahead :
               Distance(p.price, price) <= Distance(q.price, price)

-----------------------------------------------------------------------------
(* Location: the range between the last swing of each kind, and where in   *)
(* it price is.                                                            *)

ActiveRange(bs, atr) ==
    LET seq == Chronological(ConfirmedSwings(bs))
        highs == OfKind(seq, HIGH)
        lows == OfKind(seq, LOW)
    IN  IF highs = <<>> \/ lows = <<>> THEN Nothing
        ELSE LET high == Last(highs).price
                 low == Last(lows).price
             IN  IF high <= low \/ (atr > 0 /\ high - low < OfAtr(atr, 150)) THEN Nothing
                 ELSE [high |-> high, low |-> low]

(* A price outside the range counts as at its edge.                        *)
RangePosition(price, range) ==
    IF range = Nothing THEN "UNDEFINED"
    ELSE LET position == (Smaller(Larger(price, range.low), range.high) - range.low) * 100
             span == range.high - range.low
         IN  IF position >= 80 * span THEN "PREMIUM"
             ELSE IF position >= 60 * span THEN "UPPER_MID"
             ELSE IF position >= 40 * span THEN "MID"
             ELSE IF position > 20 * span THEN "LOWER_MID"
             ELSE "DISCOUNT"

(* Whether a direction is sane here.  With the trend it always is; against *)
(* it only at the opposite extreme and inside the range; without a trend   *)
(* only in the half of the range that favours it.                          *)
EntryGate(location, direction) ==
    LET good == IF direction > 0 THEN "DISCOUNT" ELSE "PREMIUM"
        bad  == IF direction > 0 THEN {"PREMIUM", "UPPER_MID"} ELSE {"DISCOUNT", "LOWER_MID"}
        own  == IF direction > 0 THEN "BULLISH" ELSE "BEARISH"
        against == IF direction > 0 THEN "BEARISH" ELSE "BULLISH"
        beyond == IF direction > 0 THEN location.price < location.range.low
                                   ELSE location.price > location.range.high
    IN  /\ direction # 0 /\ location.bias # "UNDEFINED"
        /\ location.structure.bias = against => location.bias = good /\ ~beyond
        /\ location.structure.bias \notin {own, against} => location.bias \notin bad

(* Plausible bug: the rounded stop is never compared with the bounds again. *)
HeldToBoundsNot(entry, stop, direction, tick, least, most) == stop

(* Rounding to the tick is blind to direction: whole ticks are added until *)
(* the stop is no nearer than the floor and no further than the ceiling.   *)
HeldToBounds(entry, stop, direction, tick, least, most) ==
    LET d == Distance(entry, stop)
    IN  IF d < least THEN stop - direction * tick * ((least - d) \div tick + 1)
        ELSE IF d > most THEN stop + direction * tick * ((d - most) \div tick + 1)
        ELSE stop

(* The stop: the active swing when it is on the losing side of the entry,  *)
(* else the least distance away; never nearer than that nor further than   *)
(* the most, and the bounds are enforced again after the price is snapped  *)
(* to the tick.                                                            *)
StructuralStop(location, entry, direction, tick, least, most) ==
    LET anchor == ActiveSwing(location.structure, direction)
        usable == anchor # Nothing /\ (entry - anchor.price) * direction > 0
        raw == IF usable THEN anchor.price ELSE entry - direction * least
        d == Larger(least, Smaller(Distance(entry, raw), most))
        bounded == entry - direction * d
        final == IF tick = 0 THEN bounded
                 ELSE HeldToBounds(entry, Snap(bounded, tick), direction, tick, least, most)
    IN  IF direction = 0 \/ location.atr = 0 \/ final = entry THEN Nothing ELSE [price |-> final]

AnalyseLocation(bs, tick, atr) ==
    [price |-> bs[Len(bs)].close,
     atr |-> atr,
     structure |-> Structure(bs),
     levels |-> BuildLevels(bs, tick, atr),
     pools |-> ScanLiquidity(bs, tick, atr),
     range |-> ActiveRange(bs, atr),
     bias |-> RangePosition(bs[Len(bs)].close, ActiveRange(bs, atr))]

-----------------------------------------------------------------------------
(* A bar closes and the analysis is made again.                            *)
Init == bars = <<>> /\ view = Nothing

CloseBar ==
    /\ Len(bars) < MaxBars
    /\ \E b \in Shapes, atr \in AtrValues :
         /\ bars' = Append(bars, b)
         /\ view' = [t \in Ticks |-> AnalyseLocation(bars', t, atr)]

Next == CloseBar
Spec == Init /\ [][Next]_vars

-----------------------------------------------------------------------------
TypeOK ==
    /\ bars \in Seq(Shapes) /\ Len(bars) <= MaxBars
    /\ bars # <<>> => \A t \in Ticks :
         /\ view[t].atr \in AtrValues
         /\ view[t].bias \in {"PREMIUM", "UPPER_MID", "MID", "LOWER_MID", "DISCOUNT", "UNDEFINED"}
         /\ view[t].structure.bias \in {"BULLISH", "BEARISH", "RANGING", "UNDEFINED"}
         /\ TailSwings(bars) \cap ConfirmedSwings(bars) = {}

(* What a closed bar confirms, later bars never take back, although every  *)
(* analysis starts from nothing.  A confirmed swing stays until the window *)
(* has passed it.  Zones and pools are measured in the newest bar's ATR,   *)
(* so they stay as they are only while it does not rise: a zone of the     *)
(* same swings that was broken, or a pool that was swept, then still is,   *)
(* by the same bar or an earlier one; with the same ATR by the same bar,   *)
(* and a mitigated pool is still mitigated.                                *)
ConfirmedNeverRepaints ==
    [][/\ {s \in ConfirmedSwings(bars) : s.at >= FirstHost(bars')} \subseteq ConfirmedSwings(bars')
       /\ bars # <<>> => \A t \in Ticks : view'[t].atr <= view[t].atr =>
            /\ \A z \in view[t].levels : \A y \in view'[t].levels :
                 z.members = y.members /\ z.broken # 0 =>
                     /\ y.broken \in 1..z.broken
                     /\ view'[t].atr = view[t].atr => y.broken = z.broken
            /\ \A p \in view[t].pools : \A q \in view'[t].pools :
                 p.members = q.members /\ p.swept # 0 =>
                     /\ q.swept \in 1..p.swept
                     /\ view'[t].atr = view[t].atr =>
                          q.swept = p.swept /\ (p.state = "MITIGATED" => q.state = "MITIGATED")]_vars

(* Whatever the market did, the stop of an entry at the last close or one  *)
(* tick beside it is on its losing side and between 0.75 and 3 ATR away,   *)
(* after rounding to a tick as coarse as one ATR.                          *)
StopIsDefensible ==
    bars # <<>> => \A t \in Ticks, direction \in {-1, 1}, slip \in {-1, 0, 1} :
        LET atr == view[t].atr
            entry == view[t].price + slip
            plan == StructuralStop(view[t], entry, direction, t, OfAtr(atr, 75), OfAtr(atr, 300))
        IN  plan # Nothing =>
              /\ (entry - plan.price) * direction >= OfAtr(atr, 75)
              /\ (entry - plan.price) * direction <= OfAtr(atr, 300)

(* An entry against a confirmed trend is only let through where the trend  *)
(* has stretched: inside the range, in the fifth at its far end, whatever  *)
(* swings and breaks the range and the trend were derived from.            *)
FadesOnlyTheExtreme ==
    bars # <<>> => \A t \in Ticks :
        LET l == view[t]
            span == l.range.high - l.range.low
        IN  /\ (EntryGate(l, 1) /\ l.structure.bias = "BEARISH")
                  => l.price >= l.range.low /\ 5 * (l.price - l.range.low) <= span
            /\ (EntryGate(l, -1) /\ l.structure.bias = "BULLISH")
                  => l.price <= l.range.high /\ 5 * (l.range.high - l.price) <= span
=============================================================================
