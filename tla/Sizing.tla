------------------------------- MODULE Sizing -------------------------------
(***************************************************************************)
(* How much a trade may risk: the three sizers of the repository and the   *)
(* factors that scale them.  Pure operators, no state.                     *)
(*                                                                         *)
(* Money is an integer; a volume is an integer number of hundredths of a   *)
(* lot; a scale is an integer percentage.  A budget is the product of      *)
(* equity, risk and three percentages, so budgets and losses are kept in   *)
(* grains (one unit of money is Grains of them) and no factor is rounded   *)
(* away.                                                                   *)
(* NoVolume stands for the answers None and 0.0, "cannot size".            *)
(***************************************************************************)
EXTENDS Integers, Sequences, FiniteSets

NoVolume == -1
Grains == 10000000

Smaller(a, b) == IF a <= b THEN a ELSE b
Larger(a, b) == IF a >= b THEN a ELSE b

-----------------------------------------------------------------------------
(* Broker data of one symbol.  A field of 0 is one the broker left out:    *)
(* every sizer treats missing and non-positive alike.                      *)
Complete(b) ==
    /\ b.tickValue > 0 /\ b.tickSize > 0
    /\ b.volMin > 0 /\ b.volMax > 0 /\ b.volStep > 0

(* Loss of one hundredth of a lot at a stop sl away, in grains: the number *)
(* of ticks times the value of one (one lot is 100 hundredths).            *)
LossPerUnit(sl, b) == (sl * b.tickValue * (Grains \div 100)) \div b.tickSize

(* The largest multiple of the volume step that the budget pays for.       *)
StepsWithin(budget, loss, b) == (budget \div (loss * b.volStep)) * b.volStep

-----------------------------------------------------------------------------
(* Risk grows linearly with the ADX between two thresholds.                *)
RiskScale(adx, s) ==
    IF adx <= s.adxLow THEN s.scaleLow
    ELSE IF adx >= s.adxHigh THEN s.scaleHigh
    ELSE s.scaleLow + ((adx - s.adxLow) * (s.scaleHigh - s.scaleLow))
                          \div (s.adxHigh - s.adxLow)

(* Consecutive losses counted from the newest trade; a breakeven or a      *)
(* winning trade stops the count.                                          *)
LosingStreak(pnls) ==
    LET notLost == {i \in DOMAIN pnls : pnls[i] >= 0}
    IN  Len(pnls) - (IF notLost = {} THEN 0 ELSE CHOOSE i \in notLost : \A j \in notLost : j <= i)

StreakMultiplier(pnls, lossesToHalve, factor) ==
    IF LosingStreak(pnls) >= lossesToHalve THEN factor ELSE 100

(* Confidence of the network above its own threshold may lift the size, up *)
(* to 100 + maxBoost percent, and only when it votes for the entry.        *)
NNSizeFactor(nn, direction, threshold, maxBoost) ==
    IF \/ maxBoost <= 0
       \/ direction = 0
       \/ nn.direction # direction
       \/ ~(0 < threshold /\ threshold < 100)
       \/ nn.confidence < threshold
    THEN 100
    ELSE 100 + (maxBoost * Smaller(nn.confidence - threshold, 100 - threshold))
                   \div (100 - threshold)

(* Plausible bug: the boost applies to a reduced size too.                 *)
ApplyNNBoostAlways(multiplier, factor) == (multiplier * factor) \div 100

(* Only a full-size entry is boosted: a reduced size stays reduced.        *)
ApplyNNBoost(multiplier, factor) ==
    IF multiplier < 100 \/ factor <= 100 THEN multiplier
    ELSE (multiplier * factor) \div 100

NNEntryOk(nn, direction, threshold) ==
    direction # 0 /\ nn.direction = direction /\ nn.confidence >= threshold

-----------------------------------------------------------------------------
(* core/risk/sizing.py.  The minimum lot is forced when the budget buys    *)
(* less, unless it would risk more than maxOvershoot times the budget.     *)
SizeWithinBudget(budget, sl, b, maxOvershoot) ==
    IF sl <= 0 \/ ~Complete(b) \/ budget <= 0 \/ b.volMax < b.volMin
    THEN [volume |-> NoVolume, forced |-> FALSE]
    ELSE LET loss   == LossPerUnit(sl, b)
             bought == Smaller(StepsWithin(budget, loss, b), b.volMax)
             forced == bought < b.volMin
             volume == IF forced THEN b.volMin ELSE bought
         IN  IF forced /\ maxOvershoot > 0 /\ volume * loss > budget * maxOvershoot
             THEN [volume |-> NoVolume, forced |-> TRUE]
             ELSE [volume |-> volume, forced |-> forced]

(* The percentage run.py takes from the ensemble's confidence: up with a   *)
(* high confidence and a real edge over a coin flip, down with a low one.  *)
ConfidenceScale(aiConf, s) ==
    IF aiConf >= s.highTier /\ aiConf - 50 >= s.minEdge THEN 150
    ELSE IF 0 < aiConf /\ aiConf <= s.lowTier THEN 50
    ELSE 100

(* Equity times risk (in thousandths) times ADX scale times confidence     *)
(* scale times the caller's multiplier, in grains: thousandths and three   *)
(* percentages are 10^9, and a grain is 1 / 10^7.                          *)
BudgetOf(equity, adx, aiConf, multiplier, s) ==
    equity * s.riskPermille
        * (((IF s.dynamicRisk THEN RiskScale(adx, s) ELSE 100)
              * ConfidenceScale(aiConf, s) * Larger(0, multiplier)) \div 100)

(* run.py's sizer: the budget, then core/risk/sizing.py.                   *)
SizeLot(equity, sl, b, adx, aiConf, multiplier, s) ==
    SizeWithinBudget(BudgetOf(equity, adx, aiConf, multiplier, s), sl, b, s.maxOvershoot)

(* core/risk/engine.py: the same formula, but a budget below the minimum   *)
(* lot is refused and never rounded up.                                    *)
EngineBudget(equity, adx, s) ==
    equity * s.riskPermille * (IF s.dynamicRisk THEN RiskScale(adx, s) ELSE 100) * 100

EngineLotSize(equity, sl, b, adx, s) ==
    IF sl <= 0 \/ equity <= 0 \/ b.tickSize <= 0 \/ b.tickValue <= 0 \/ b.volStep <= 0
    THEN NoVolume
    ELSE LET lots == StepsWithin(EngineBudget(equity, adx, s), LossPerUnit(sl, b), b)
         IN  IF lots < b.volMin \/ lots <= 0 THEN NoVolume
             ELSE IF b.volMax > 0 THEN Smaller(lots, b.volMax) ELSE lots
=============================================================================
