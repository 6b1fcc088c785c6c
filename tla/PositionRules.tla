---------------------------- MODULE PositionRules ----------------------------
(***************************************************************************)
(* Two automatic writers of one position's stop: the position manager of   *)
(* core/position, which goes through the checked modify_position of the    *)
(* execution engine, and the reasoner of core/ai/dynamic_sltp.py, whose    *)
(* own guard compares its proposal with the stop it was shown.  Each reads *)
(* the position, decides, and sends later; the market, the broker and the  *)
(* other writer act in between.                                            *)
(*                                                                         *)
(* Prices are integers, a tick is two units, and an ATR is 40, so that the *)
(* fractions the code takes of it are whole.  A stop of 0 is no stop.      *)
(***************************************************************************)
EXTENDS Integers, FiniteSets

CONSTANTS
    Open,           \* price at which positions open
    Prices,         \* prices the market may show
    Lows,           \* extremes of the last five bars, on the losing side
    FirstStops,     \* distances of the stop a position is opened with, 0 for none
    StopsLevel      \* the broker's minimum distance of a stop, in price units

(* The market stays within half of the price positions open at.  Without   *)
(* it the manager, which takes the distance to a stop of 0 for a risk,     *)
(* would trail a position that has no stop.                                *)
PositionAssumption ==
    /\ Open \in Nat \ {0} /\ Prices \subseteq Nat \ {0} /\ Lows \subseteq Int
    /\ FirstStops \subseteq 0..Open /\ StopsLevel \in Nat
    /\ \A p \in Prices : Open < 2 * p /\ 2 * p < 3 * Open

Tick == 2
ATR == 40
Directions == {-1, 1}
Policies == {"observe_only", "protect_only", "full_management"}
NoPosition == [none |-> TRUE]
Idle == [step |-> "idle"]

VARIABLES
    price,      \* the market
    position,   \* the position at the broker, or none
    policy,     \* policy the manager holds for it, or "untracked"
    manager,    \* what the manager is about to send
    reasoner,   \* what the reasoner is about to send
    first,      \* history: the first stop the position had, or 0
    bestProfit  \* _peak_profit: the best the position has been

vars == <<price, position, policy, manager, reasoner, first, bestProfit>>

-----------------------------------------------------------------------------
(* Arithmetic of stops.                                                    *)

Larger(a, b) == IF a >= b THEN a ELSE b
Distance(a, b) == IF a >= b THEN a - b ELSE b - a

(* On the tick grid, half a tick counting up.                              *)
OnGrid(p) == ((2 * p + Tick) \div (2 * Tick)) * Tick

(* Plausible bug: a higher stop counts as tighter for shorts, too.         *)
TighterUpwards(direction, a, b) == b = 0 \/ a > b

Tighter(direction, a, b) == b = 0 \/ (a - b) * direction > 0

(* The tightest of a set of proposals, none of which loosens the current   *)
(* stop: every rule only replaces a candidate by a tighter one.            *)
Tightest(direction, current, proposals) ==
    LET better == {p \in proposals : Tighter(direction, p, current)}
    IN  IF better = {} THEN current
        ELSE CHOOSE p \in better : \A q \in better : (p - q) * direction >= 0

Profit(pos, p) == (p - pos.open) * pos.direction

(* A rule that proposes stop when its condition holds.                     *)
When(condition, stop) == IF condition THEN {stop} ELSE {}

-----------------------------------------------------------------------------
(* core/position: the manager.                                             *)

(* Its unit of risk is the distance of the entry from the stop of now.     *)
RiskUnit(pos) == Distance(pos.open, pos.sl)

(* PNLDecisionEngine: a reversal closes a winner, unless more than half of *)
(* a peak of two risks was given back.  Without a stop the risk is one     *)
(* unit of money, a tick here.                                             *)
ClosesOnReversal(pos, p, peak) ==
    LET risk == IF pos.sl = 0 THEN Tick ELSE RiskUnit(pos)
    IN  Profit(pos, p) > 0 /\ ~(peak > 2 * risk /\ 2 * (peak - Profit(pos, p)) > peak)

(* The peak is that of the bars at hand, which may start before the trade. *)
Peaks(pos) == {Larger(0, Profit(pos, p)) : p \in Prices}

(* Breakeven and two ticks from half a risk on, and from one risk on half  *)
(* a risk behind the market.                                               *)
ManagerProposals(pos, p) ==
    When(2 * Profit(pos, p) >= RiskUnit(pos), pos.open + 2 * Tick * pos.direction)
    \cup When(Profit(pos, p) >= RiskUnit(pos), p - (RiskUnit(pos) \div 2) * pos.direction)

(* What the manager would send: a stop on the grid that is tighter, on the *)
(* protective side and as far as the broker demands; 0 for none.           *)
ManagerStop(pos, p) ==
    LET stop == OnGrid(Tightest(pos.direction, pos.sl, ManagerProposals(pos, p)))
    IN  IF \/ RiskUnit(pos) = 0
           \/ stop = pos.sl \/ ~Tighter(pos.direction, stop, pos.sl)
           \/ (p - stop) * pos.direction <= 0
           \/ Distance(p, stop) < StopsLevel
        THEN 0 ELSE stop

-----------------------------------------------------------------------------
(* core/ai/dynamic_sltp.py: the reasoner.                                  *)

(* Stages 1 to 5: breakeven from 0.45 ATR, half of what is gained beyond,  *)
(* the five-bar extreme, an opposing pinbar, and the peak given back.      *)
ReasonerProposals(pos, p, extreme, pinbar, peak) ==
    LET d == pos.direction
        profit == Profit(pos, p)
        top == Larger(peak, profit)
    IN  When(profit >= 18, pos.open + 6 * d)
        \cup When(profit > 18, pos.open + (6 + (profit - 18) \div 2) * d)
        \cup When((p - (extreme - 4 * d)) * d > 0, extreme - 4 * d)
        \cup When(profit >= 16 /\ pinbar, p - 8 * d)
        \cup When(top >= ATR /\ (top - profit) * 100 >= 30 * top, p - 6 * d)

(* Stage 6: never nearer to the market than 0.55 ATR, unless the stop is.  *)
WithCorrectionBuffer(pos, p, candidate) ==
    LET nearest == p - 22 * pos.direction
    IN  IF candidate = 0 \/ (nearest - candidate) * pos.direction >= 0 THEN candidate
        ELSE IF Tighter(pos.direction, nearest, pos.sl) THEN nearest
        ELSE pos.sl

(* SLTPSafetyGuard: on the grid, on the protective side, tighter, at least *)
(* the broker's distance or two ticks away and at most four ATR; 0 if not. *)
ValidateNewSl(pos, p, proposed) ==
    LET stop == OnGrid(proposed)
    IN  IF \/ stop <= 0
           \/ (p - stop) * pos.direction <= 0
           \/ ~Tighter(pos.direction, stop, pos.sl)
           \/ Distance(p, stop) < Larger(StopsLevel, 2 * Tick)
           \/ Distance(p, stop) > 4 * ATR
        THEN 0 ELSE stop

ReasonerStop(pos, p, extreme, pinbar, peak) ==
    LET candidate == WithCorrectionBuffer(pos, p,
                       Tightest(pos.direction, pos.sl,
                                ReasonerProposals(pos, p, extreme, pinbar, peak)))
    IN  IF candidate = pos.sl THEN 0 ELSE ValidateNewSl(pos, p, candidate)

-----------------------------------------------------------------------------
Init ==
    /\ price = Open /\ position = NoPosition /\ policy = "untracked"
    /\ manager = Idle /\ reasoner = Idle /\ first = 0 /\ bestProfit = 0

(* A position appears, opened by the bot or by hand.  It has a ticket of   *)
(* its own: what was about to be sent for the one before can only fail.    *)
OpenPosition ==
    /\ position = NoPosition /\ price = Open
    /\ \E d \in Directions, distance \in FirstStops, manual \in BOOLEAN :
         LET sl == IF distance = 0 THEN 0 ELSE Open - distance * d
         IN  /\ position' = [direction |-> d, open |-> Open, sl |-> sl, manual |-> manual]
             /\ first' = sl
    /\ bestProfit' = 0 /\ policy' = "untracked"
    /\ manager' = Idle /\ reasoner' = Idle
    /\ UNCHANGED price

MarketMoves ==
    /\ \E p \in Prices \ {price} :
         /\ price' = p
         /\ bestProfit' = IF position = NoPosition THEN bestProfit
                          ELSE Larger(bestProfit, Profit(position, p))
    /\ UNCHANGED <<position, policy, manager, reasoner, first>>

BrokerCloses ==
    /\ position # NoPosition /\ position' = NoPosition
    /\ first' = 0 /\ bestProfit' = 0
    /\ UNCHANGED <<price, policy, manager, reasoner>>

SetManualPolicy ==
    /\ policy # "untracked" /\ \E choice \in Policies \ {policy} : policy' = choice
    /\ UNCHANGED <<price, position, manager, reasoner, first, bestProfit>>

(* manage_positions: reconcile, then close or propose.  A broker that      *)
(* cannot be read changes nothing.                                         *)
ManagePositions ==
    /\ manager = Idle
    /\ policy' = IF position = NoPosition THEN "untracked"
                 ELSE IF policy # "untracked" THEN policy
                 ELSE IF position.manual THEN "observe_only" ELSE "full_management"
    /\ \/ position = NoPosition /\ UNCHANGED <<position, manager, first, bestProfit>>
       \/ /\ position # NoPosition
          /\ \E opposed, reversal, closed \in BOOLEAN, peak \in Peaks(position) :
               IF policy' = "observe_only"
               THEN UNCHANGED <<position, manager, first, bestProfit>>
               ELSE IF (policy' = "full_management" /\ opposed)
                       \/ (reversal /\ ClosesOnReversal(position, price, peak))
               THEN /\ IF closed
                       THEN position' = NoPosition /\ first' = 0 /\ bestProfit' = 0
                       ELSE UNCHANGED <<position, first, bestProfit>>
                    /\ UNCHANGED manager
               ELSE /\ manager' = IF ManagerStop(position, price) = 0 THEN Idle
                                  ELSE [step |-> "gate", sl |-> ManagerStop(position, price)]
                    /\ UNCHANGED <<position, first, bestProfit>>
    /\ UNCHANGED <<price, reasoner>>

(* modify_position, before the request: it fails closed when the position  *)
(* cannot be read, is gone, or already has a tighter stop.                 *)
ModifyPosition ==
    /\ manager.step = "gate"
    /\ \E readable \in BOOLEAN :
         manager' = IF /\ readable /\ position # NoPosition
                       /\ ~(position.sl > 0 /\ (manager.sl - position.sl) * position.direction < 0)
                    THEN [manager EXCEPT !.step = "send"] ELSE Idle
    /\ UNCHANGED <<price, position, policy, reasoner, first, bestProfit>>

(* The request reaches the broker, which may refuse it and does so when    *)
(* the stop is on the wrong side of the market.                            *)
Send(writer) ==
    \E accepted \in BOOLEAN :
      /\ accepted => position # NoPosition /\ (price - writer.sl) * position.direction > 0
      /\ position' = IF accepted THEN [position EXCEPT !.sl = writer.sl] ELSE position
      /\ first' = IF accepted /\ first = 0 THEN writer.sl ELSE first

ManagerSends ==
    /\ manager.step = "send" /\ Send(manager) /\ manager' = Idle
    /\ UNCHANGED <<price, policy, reasoner, bestProfit>>

(* evaluate_position_sltp proposes, and its caller sends.                  *)
EvaluatePosition ==
    /\ reasoner = Idle /\ position # NoPosition
    /\ \E extreme \in Lows, pinbar \in BOOLEAN :
         LET stop == ReasonerStop(position, price,
                                  Open - extreme * position.direction, pinbar, bestProfit)
         IN  stop # 0 /\ reasoner' = [step |-> "send", sl |-> stop]
    /\ UNCHANGED <<price, position, policy, manager, first, bestProfit>>

ReasonerSends ==
    /\ reasoner.step = "send" /\ Send(reasoner) /\ reasoner' = Idle
    /\ UNCHANGED <<price, policy, manager, bestProfit>>

Next == \/ OpenPosition \/ MarketMoves \/ BrokerCloses \/ SetManualPolicy
        \/ ManagePositions \/ ModifyPosition \/ ManagerSends
        \/ EvaluatePosition \/ ReasonerSends

Spec == Init /\ [][Next]_vars

-----------------------------------------------------------------------------
TypeOK ==
    /\ price \in Prices \cup {Open}
    /\ position # NoPosition => position.direction \in Directions /\ position.sl >= 0
    /\ policy \in Policies \cup {"untracked"}
    /\ manager.step \in {"idle", "gate", "send"} /\ reasoner.step \in {"idle", "send"}
    /\ first \in Nat /\ bestProfit \in Nat

(* Each writer compares its stop with one it read earlier, so a write that *)
(* crosses another can loosen the stop of the moment.  It never loosens it *)
(* past the first stop the position had: every comparison was with a stop  *)
(* that itself kept to that.                                               *)
NeverLooserThanFirstStop ==
    (position # NoPosition /\ first # 0) => (position.sl - first) * position.direction >= 0
=============================================================================
