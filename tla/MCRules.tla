------------------------------ MODULE MCRules ------------------------------
(* Rules with the values a configuration file cannot hold.                 *)
EXTENDS Rules, TLC

(* Threads differ in nothing but their name.                               *)
ThreadsAlike == Permutations(Callers)

(* Votes of the network on either side of the threshold, a step of half    *)
(* the smallest volume.                                                    *)
LossOrGain == {-1, 2}
TwoVotes == {[direction |-> 0, confidence |-> 50], [direction |-> 1, confidence |-> 100]}
HalfSteps == [tickSize |-> 1, tickValue |-> 1, volMin |-> 10, volMax |-> 100, volStep |-> 5]
BotSizing == [riskPermille |-> 20, dynamicRisk |-> TRUE, adxLow |-> 20, adxHigh |-> 50,
              scaleLow |-> 50, scaleHigh |-> 150, highTier |-> 60, lowTier |-> 60, minEdge |-> 10,
              maxOvershoot |-> 3, nnThreshold |-> 70, maxBoost |-> 40, equity |-> 100,
              stopDistance |-> 10, adx |-> 35, aiConf |-> 65]

(* A cap of one position and one trade a day, an edit that is permitted,   *)
(* and changes nothing, and one that is not.                               *)
TightLimits == [maxTrades |-> 1, maxLosses |-> 1, minRR |-> 1, maxOpen |-> 1, maxDaily |-> 20,
                maxWeekly |-> 30, maxDrawdown |-> 40, maxSpread |-> 2, maxMargin |-> 50]
TightRanges == [maxTrades |-> 1..2, maxLosses |-> {1}, minRR |-> {1}, maxOpen |-> {1},
                maxDaily |-> {20}, maxWeekly |-> {30}, maxDrawdown |-> {40}, maxSpread |-> {2}]
OneGoodOneBad == {[maxTrades |-> 1], [maxOpen |-> 9]}
SmallLots == [tickSize |-> 1, tickValue |-> 1, volMin |-> 5, volMax |-> 100, volStep |-> 5]
EngineSizing == [riskPermille |-> 20, dynamicRisk |-> TRUE, adxLow |-> 20, adxHigh |-> 50,
                 scaleLow |-> 50, scaleHigh |-> 150]
OneLoss == {-1}

(* A market that passes every gate and one that fails at the location.     *)
Sell == [data |-> TRUE, located |-> TRUE, direction |-> -1, score |-> 70, gate |-> TRUE,
         tick |-> TRUE, stop |-> 110, entry |-> 100, pool |-> 0, atr |-> 10,
         hasAccount |-> TRUE, equity |-> 70,
         hasInfo |-> TRUE, spread |-> 1, adx |-> 35]
GoodAndBad == {Sell, [Sell EXCEPT !.gate = FALSE]}

(* Bars that swing, sweep a high, break a low and trend.                   *)
Bar(high, low, close) == [high |-> high, low |-> low, close |-> close]
FourShapes == {Bar(60, 0, 6), Bar(64, -96, -20), Bar(152, 0, 130), Bar(150, 90, 149)}

NearAndFar == {24, -28}
=============================================================================
