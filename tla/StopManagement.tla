--------------------------- MODULE StopManagement ---------------------------
(***************************************************************************)
(* How a StandaloneAIBot (run.py) moves the stop of one open position:     *)
(* _manage_positions, the stop paths it runs one after the other on a      *)
(* snapshot of the position, the guard of _modify_sl that compares with    *)
(* the stop the broker holds, _modify_sltp for manual trades, the daily    *)
(* target's ratchet and the staged partial closes.                         *)
(*                                                                         *)
(* Prices are points, relative to the entry and positive in the trade's    *)
(* favour: the branches for buys and for sells are mirror images and meet  *)
(* here. Positions do not share anything, so there is one. Products are    *)
(* rounded to a point where they are computed.                             *)
(*                                                                         *)
(* Abstracted: the many reasons to close are one choice; the reasoner and  *)
(* the swing lows propose any member of Anchors; floating profit, which    *)
(* adds swap to the price move, is left open.                              *)
(***************************************************************************)
EXTENDS Integers

CONSTANTS
    Prices,        \* what the live tick can read
    Anchors,       \* swing lows, and stops the reasoner can propose
    NoStop,        \* a stop of 0: none set
    Kinds,         \* "bot", or a manual trade's mode: "smart", "full", "observe"
    Breakeven,     \* the values enable_breakeven takes while the bot runs
    Buffer,        \* breakeven_buffer_atr
    Trigger,       \* breakeven_trigger_atr
    LockDistance,  \* stops level or lock_min_distance_atr, the larger
    Separation,    \* min_sl_separation_atr
    StepSize,      \* min_sl_step_atr
    EarlyAt,       \* early_protect_atr
    TrailAt, Tighten1, Tighten2,    \* trail_activate_atr, trail_tighten1_atr, ...2_atr
    Trail0, Trail1, Trail2,         \* trail_atr_mult, trail_tighten1_mult, ...2_mult
    CutAt1, CutAt2,                 \* partial_close_trigger_atr, partial_close2_...
    ManualStop,    \* manual_trade_sl_atr
    StopsLevel,    \* the broker's trade_stops_level
    Lots, MinLot,  \* the position's volume and the broker's smallest, in steps
    MaxFaults      \* bound: edits by others, failed reads, lost answers, restarts

Stages == {1, 2}

ASSUME StopAssumption ==
    /\ Prices \subseteq Int /\ Anchors \subseteq Int /\ NoStop \in Int
    /\ Kinds \subseteq {"bot", "smart", "full", "observe"} /\ Breakeven \subseteq BOOLEAN
    /\ {Buffer, Trigger, LockDistance, Separation, StepSize, EarlyAt, TrailAt, Tighten1,
        Tighten2, Trail0, Trail1, Trail2, CutAt1, CutAt2, ManualStop, StopsLevel} \subseteq Nat
    /\ Buffer <= TrailAt
    /\ Lots \in Nat /\ MinLot \in Nat \ {0} /\ MinLot <= Lots /\ MaxFaults \in Nat

VARIABLES
    kind,     \* whose trade it is, and how it is managed
    pos,      \* the position at the broker
    pass,     \* the manager thread in a management pass: place, snapshot, request
    book,     \* _partial_stages and _manual_sltp_failed of this position
    limbo,    \* requests sent and never answered, which the broker may still execute
    faults,   \* how many faults have happened
    mover,    \* history: on what grounds the stop was moved last
    doubt     \* history: partial closes were "lost" (unanswered), or "forgotten" in a restart

vars == <<kind, pos, pass, book, limbo, faults, mover, doubt>>

Idle == [pc |-> "idle"]

Init ==
    /\ kind \in Kinds
    /\ \E s \in Anchors \union {NoStop}, t \in BOOLEAN :
          pos = [open |-> TRUE, sl |-> s, tp |-> t, lots |-> Lots]
    /\ pass = Idle
    /\ book = [stages |-> {}, failed |-> FALSE]
    /\ limbo = {} /\ faults = 0 /\ mover = "none"
    /\ doubt = {}

Fault == faults < MaxFaults /\ faults' = faults + 1

---------------------------------------------------------------------------
(* The rules of core/position/sl_guard.py and _sl_modify_allowed *)

IsTighter(old, new) == new > old

StepOk(old, new) ==
    /\ IsTighter(old, new)
    /\ \/ old = NoStop
       \/ old < Buffer /\ new >= Buffer        \* it reaches break-even
       \/ new - old >= StepSize

SlModifyAllowed(old, new, exempt) ==
    /\ IsTighter(old, new)
    /\ exempt \/ old = NoStop \/ new - old >= StepSize

Larger(a, b)  == IF a > b THEN a ELSE b
Smaller(a, b) == IF a < b THEN a ELSE b

---------------------------------------------------------------------------
(* The stop paths of a pass, in their order: what each may ask for, given   *)
(* the tick p and the snapshot's stop s.                                    *)

IntelBlind(p, s) == {n \in Anchors \union {Buffer} : SlModifyAllowed(s, n, FALSE)}
Intel(p, s) == {n \in Anchors \union {Buffer} : n < p /\ SlModifyAllowed(s, n, FALSE)}

Dynamic(p, s) ==
    {n \in Anchors : p >= 0 /\ n < p /\ \E exempt \in BOOLEAN : SlModifyAllowed(s, n, exempt)}

Structure(p, s) ==
    {n \in {Smaller(low - 2, p - Separation) : low \in {a \in Anchors : a > s /\ p > a + 4}} :
        p >= 0 /\ n > s + StepSize /\ n < p}

\* Half of the profit beyond the trigger is locked, rounded to a point either way.
BreakevenStop(p, s) ==
    {n \in {Smaller(Buffer + (p - Trigger + r) \div 2, p - LockDistance) : r \in {0, 1}} :
        p >= Trigger /\ n >= Buffer /\ StepOk(s, n)}

EarlyProtect(p, s) ==
    {n \in {(4 * p + 5) \div 10} : p >= EarlyAt /\ 0 < p /\ p < TrailAt /\ SlModifyAllowed(s, n, FALSE)}

TrailDistance(p) == IF p >= Tighten2 THEN Trail2 ELSE IF p >= Tighten1 THEN Trail1 ELSE Trail0
TrailUnfloored(p, s) ==
    {n \in {p - TrailDistance(p)} : p >= TrailAt /\ StepOk(s, n)}
Trail(p, s) ==
    {n \in {Larger(p - TrailDistance(p), Buffer)} : p >= TrailAt /\ StepOk(s, n)}

\* _ratchet_for_lock: keep four fifths of the gain, on winners. The profit was
\* read before the tick, which may be back below the entry.
Ratchet(p, s) == {(8 * p + 5) \div 10}

Wanted(path, p, s) ==
    CASE path = "intel"     -> IF kind = "smart" THEN Intel(p, s) ELSE {}
      [] path = "dynamic"   -> Dynamic(p, s)
      [] path = "structure" -> Structure(p, s)
      [] path = "breakeven" -> IF TRUE \in Breakeven THEN BreakevenStop(p, s) ELSE {}
      [] path = "early"     -> EarlyProtect(p, s)
      [] path = "trail"     -> Trail(p, s)
      [] path = "ratchet"   -> Ratchet(p, s)

\* A path whose condition holds is taken, unless its condition has a part that
\* is left open here or its setting may be off.
Optional(path) == path \in {"intel", "dynamic", "structure"}
                  \/ (path = "breakeven" /\ FALSE \in Breakeven)
                  \/ path = "ratchet"

StopPaths == {"intel", "dynamic", "structure", "breakeven", "early", "trail", "ratchet"}
After ==
    [path \in StopPaths \union {"exit", "lateExit"} |->
        CASE path = "intel"     -> "exit"
          [] path = "exit"      -> "dynamic"
          [] path = "dynamic"   -> "structure"
          [] path = "structure" -> "lateExit"
          [] path = "lateExit"  -> "breakeven"
          [] path = "breakeven" -> "early"
          [] path = "early"     -> "trail"
          [] path = "trail"     -> "cut1"
          [] path = "ratchet"   -> "idle"]

GoOn(path, clean) ==
    pass' = IF After[path] = "idle" THEN Idle
            ELSE [pass EXCEPT !.pc = After[path], !.clean = @ /\ clean,
                              !.sl = NoStop, !.tp = FALSE, !.path = "none", !.ground = "none"]

---------------------------------------------------------------------------
(* The manager thread *)

\* step() reads the tick and the positions; a failed read sees none and does
\* nothing. The daily target's ratchet is a short pass of its own.
Begin(pc) ==
    /\ pass.pc = "idle" /\ pos.open
    /\ \E p \in Prices :
         pass' = [pc |-> pc, price |-> p, snap |-> pos, sl |-> NoStop, tp |-> FALSE,
                  path |-> "none", ground |-> "none", clean |-> TRUE]
    /\ UNCHANGED <<kind, pos, book, limbo, faults, mover, doubt>>
BeginPass == Begin(IF kind = "bot" THEN "exit" ELSE "protect")
BeginRatchet == kind = "bot" /\ Begin("ratchet")

\* A manual trade without a stop or a target gets one (_modify_sltp): a stop
\* too close to the price of a fresh tick, if there is one, is moved away from it.
ProtectStops ==
    LET s == IF pass.snap.sl = NoStop THEN -ManualStop ELSE pass.snap.sl
    IN  {s} \union {p - StopsLevel : p \in {q \in Prices : q - s < StopsLevel /\ s - q < StopsLevel}}
Protect ==
    /\ pass.pc = "protect"
    /\ \/ /\ pass.snap.sl = NoStop \/ ~pass.snap.tp
          /\ \E s \in ProtectStops :
               pass' = [pass EXCEPT !.pc = "send", !.path = "protect", !.sl = s,
                                    !.tp = TRUE, !.ground = "none"]
       \/ /\ (pass.snap.sl # NoStop /\ pass.snap.tp) \/ book.failed    \* nothing to do, or throttled
          /\ pass' = IF kind = "observe" THEN Idle
                     ELSE [pass EXCEPT !.pc = IF kind = "smart" THEN "intel" ELSE "exit"]
    /\ UNCHANGED <<kind, pos, book, limbo, faults, mover, doubt>>

\* The early exits, then the later ones: a close is tried and the pass is over,
\* whether it worked or not; or there is no reason to close.
Exit ==
    /\ pass.pc \in {"exit", "lateExit"}
    /\ \/ /\ pos.open /\ pos' = [pos EXCEPT !.open = FALSE]
          /\ book' = [book EXCEPT !.stages = {}]
          /\ pass' = Idle
       \/ pass' = Idle /\ UNCHANGED <<pos, book>>
       \/ GoOn(pass.pc, TRUE) /\ UNCHANGED <<pos, book>>
    /\ UNCHANGED <<kind, limbo, faults, mover, doubt>>

\* _modify_sl asks the broker for the live stop; if that fails, or the position
\* is gone, the snapshot stands in for it.
Compare(path, n, live, ground) ==
    IF IsTighter(live, n)
    THEN pass' = [pass EXCEPT !.pc = "send", !.path = path, !.sl = n, !.tp = pass.snap.tp,
                              !.ground = ground, !.clean = @ /\ ground = "live"]
    ELSE GoOn(path, ground = "live")

ModifyOnSnapshot(path) ==
    /\ pass.pc = path
    /\ LET wanted == Wanted(path, pass.price, pass.snap.sl) IN
       \/ \E n \in wanted : Compare(path, n, pass.snap.sl, "live") /\ UNCHANGED faults
       \/ \E n \in wanted : Fault /\ Compare(path, n, pass.snap.sl, "snapshot")
       \/ (wanted = {} \/ Optional(path)) /\ GoOn(path, TRUE) /\ UNCHANGED faults
    /\ UNCHANGED <<kind, pos, book, limbo, mover, doubt>>
Modify(path) ==
    /\ pass.pc = path
    /\ LET wanted == Wanted(path, pass.price, pass.snap.sl) IN
       \/ \E n \in wanted : pos.open /\ Compare(path, n, pos.sl, "live") /\ UNCHANGED faults
       \/ \E n \in wanted : ~pos.open /\ Compare(path, n, pass.snap.sl, "snapshot") /\ UNCHANGED faults
       \/ \E n \in wanted : pos.open /\ Fault /\ Compare(path, n, pass.snap.sl, "snapshot")
       \/ (wanted = {} \/ Optional(path)) /\ GoOn(path, TRUE) /\ UNCHANGED faults
    /\ UNCHANGED <<kind, pos, book, limbo, mover, doubt>>

\* The request is done, refused, or not answered. A stop request sets the target
\* too, to the one of the snapshot.
NextAfterSend(accepted) ==
    IF pass.path = "protect"
    THEN pass' = CASE kind = "observe" -> Idle
                   [] OTHER -> [pass EXCEPT !.pc = IF kind = "smart" THEN "intel" ELSE "exit",
                                            !.clean = FALSE, !.sl = NoStop, !.tp = FALSE,
                                            !.path = "none", !.ground = "none"]
    ELSE GoOn(pass.path, accepted)
Failed(yes) == book' = IF pass.path = "protect" THEN [book EXCEPT !.failed = yes] ELSE book

SendDone ==
    /\ pass.pc = "send" /\ pos.open
    /\ pos' = [pos EXCEPT !.sl = pass.sl, !.tp = pass.tp]
    /\ mover' = IF pos.sl = pass.sl THEN mover ELSE pass.ground
    /\ NextAfterSend(TRUE) /\ Failed(FALSE)
    /\ UNCHANGED <<kind, limbo, faults, doubt>>
SendRefused ==
    /\ pass.pc = "send"
    /\ NextAfterSend(FALSE) /\ Failed(TRUE)
    /\ UNCHANGED <<kind, pos, limbo, faults, mover, doubt>>
SendLost ==
    /\ pass.pc = "send" /\ Fault
    /\ limbo' = limbo \union {[cut |-> 0, sl |-> pass.sl, tp |-> pass.tp]}
    /\ NextAfterSend(FALSE) /\ Failed(TRUE)
    /\ UNCHANGED <<kind, pos, mover, doubt>>

\* The partial closes: half of the snapshot's volume, later a quarter, if both
\* what is closed and what is left can be traded.
ShareHalves(stage, v) == v \div 2
Share(stage, v) == IF stage = 1 THEN v \div 2 ELSE v \div 4

CutDue(stage) ==
    /\ kind \in {"bot", "full"} /\ stage \notin book.stages
    /\ pass.price >= IF stage = 1 THEN CutAt1 ELSE CutAt2
    /\ Share(stage, pass.snap.lots) >= MinLot
    /\ pass.snap.lots - Share(stage, pass.snap.lots) >= MinLot

CutPc(stage) == IF stage = 1 THEN "cut1" ELSE "cut2"
AfterCut(stage) == IF stage = 1 THEN [pass EXCEPT !.pc = "cut2"] ELSE Idle

\* The broker closes part of a position, or all of it if no more is left.
CutByAnyway(lots) == pos' = [pos EXCEPT !.lots = @ - lots]
CutBy(lots) == pos' = IF lots < pos.lots THEN [pos EXCEPT !.lots = @ - lots]
                      ELSE [pos EXCEPT !.lots = 0, !.open = FALSE]

CutForgotten(stage) ==
    /\ pass.pc = CutPc(stage) /\ CutDue(stage) /\ pos.open
    /\ CutBy(Share(stage, pass.snap.lots))
    /\ pass' = AfterCut(stage)
    /\ UNCHANGED <<kind, book, limbo, faults, mover, doubt>>
CutDone(stage) ==
    /\ pass.pc = CutPc(stage) /\ CutDue(stage) /\ pos.open
    /\ CutBy(Share(stage, pass.snap.lots))
    /\ book' = [book EXCEPT !.stages = @ \union {stage}]
    /\ pass' = AfterCut(stage)
    /\ UNCHANGED <<kind, limbo, faults, mover, doubt>>
CutLost(stage) ==
    /\ pass.pc = CutPc(stage) /\ CutDue(stage) /\ Fault
    /\ limbo' = limbo \union {[cut |-> Share(stage, pass.snap.lots), sl |-> NoStop, tp |-> FALSE]}
    /\ pass' = AfterCut(stage) /\ doubt' = doubt \union {"lost"}
    /\ UNCHANGED <<kind, pos, book, mover>>
CutNot(stage) ==      \* not due, or refused
    /\ pass.pc = CutPc(stage)
    /\ pass' = AfterCut(stage)
    /\ UNCHANGED <<kind, pos, book, limbo, faults, mover, doubt>>

Managing ==
    \/ BeginPass \/ BeginRatchet \/ Protect \/ Exit
    \/ \E path \in StopPaths : Modify(path)
    \/ SendDone \/ SendRefused \/ SendLost
    \/ \E stage \in Stages : CutDone(stage) \/ CutLost(stage) \/ CutNot(stage)

---------------------------------------------------------------------------
(* Everybody else *)

\* What a comparison with the broker's stop was worth once the stop has moved.
Disturbed == IF pass.pc = "idle" THEN pass
             ELSE [pass EXCEPT !.clean = FALSE, !.ground = IF @ = "live" THEN "stale" ELSE @]

\* The user moves the stop or the target in the terminal.
UserEdits ==
    /\ pos.open /\ Fault
    /\ \E s \in Anchors, t \in BOOLEAN : pos' = [pos EXCEPT !.sl = s, !.tp = t]
    /\ mover' = "user"
    /\ pass' = Disturbed
    /\ UNCHANGED <<kind, book, limbo, doubt>>

\* The stop, the target, the user or the dashboard closes the position.
Closes ==
    /\ pos.open
    /\ pos' = [pos EXCEPT !.open = FALSE]
    /\ UNCHANGED <<kind, pass, book, limbo, faults, mover, doubt>>

\* The broker executes a request whose answer was lost.
LateExecution ==
    /\ pos.open
    /\ \E r \in limbo :
         /\ limbo' = limbo \ {r}
         /\ IF r.cut > 0 THEN CutBy(r.cut) /\ UNCHANGED mover
            ELSE pos' = [pos EXCEPT !.sl = r.sl, !.tp = r.tp] /\ mover' = "late"
    /\ pass' = Disturbed
    /\ UNCHANGED <<kind, book, faults, doubt>>

\* The process restarts: what it kept in memory is gone.
Restart ==
    /\ Fault
    /\ pass' = Idle /\ book' = [stages |-> {}, failed |-> FALSE]
    /\ doubt' = IF book.stages = {} THEN doubt ELSE doubt \union {"forgotten"}
    /\ UNCHANGED <<kind, pos, limbo, mover>>

Next == Managing \/ UserEdits \/ Closes \/ LateExecution \/ Restart
Spec == Init /\ [][Next]_vars

---------------------------------------------------------------------------
(* Properties *)

Places == StopPaths \union {"protect", "exit", "lateExit", "send", "cut1", "cut2"}
Position == [open : BOOLEAN, sl : Int, tp : BOOLEAN, lots : Nat]

\* Every variable keeps its type.
TypeOK ==
    /\ kind \in Kinds /\ pos \in Position
    /\ pass \in {Idle} \union
          [pc : Places, price : Prices, snap : Position, sl : Int, tp : BOOLEAN,
           path : StopPaths \union {"protect", "none"},
           ground : {"none", "live", "stale", "snapshot"}, clean : BOOLEAN]
    /\ book \in [stages : SUBSET Stages, failed : BOOLEAN]
    /\ limbo \subseteq [cut : Nat, sl : Int, tp : BOOLEAN]
    /\ faults \in 0..MaxFaults
    /\ mover \in {"none", "live", "stale", "snapshot", "user", "late"}
    /\ doubt \subseteq {"lost", "forgotten"}

\* "Never widen a stop, whatever path asked for it" (run.py:4156): whichever paths
\* run in one pass and whatever earlier ones did, a stop that _modify_sl compared
\* with the broker's only moves towards the price, unless somebody moved it
\* between the comparison and the order.
MovesOnlyTighten ==
    [][pos'.sl # pos.sl /\ mover' = "live" => IsTighter(pos.sl, pos'.sl)]_vars

\* No path asks for a stop beyond the price of its tick, which the broker would
\* refuse tick after tick (run.py:4692, :4788, :4828). The ratchet may, and a
\* manual trade's own stop was not chosen here.
StopProtects ==
    pass.pc = "send" /\ pass.path \notin {"protect", "ratchet"} => pass.sl <= pass.price

\* "Once trailing activates, trade can NEVER turn into a loss" (run.py:4826): a
\* pass that reaches the partial closes, all its requests accepted and nobody
\* interfering, leaves a trade past the trailing threshold with its stop at
\* break-even or better.
WinnerIsSecured ==
    pass.pc = "cut1" /\ pass.clean /\ pos.open /\ pass.price >= TrailAt => pos.sl >= Buffer

\* Scaling out never leaves a remainder the broker would not trade (run.py:4857,
\* :4865), though both stages of one pass look at the volume of its start.
RemainderIsTradeable == "lost" \notin doubt => pos.lots >= MinLot

\* ... and takes each stage once: half, then at most a quarter of the volume.
ScaleOutIsBounded == doubt = {} => pos.lots >= Lots - Share(1, Lots) - Share(2, Lots)

\* "The two rules every stop change must pass ... a stop may only move toward
\* price" (core/position/sl_guard.py:8): the bot itself never moves a stop away.
EveryMoveTightens ==
    [][pos'.sl # pos.sl /\ pass.pc = "send" => IsTighter(pos.sl, pos'.sl)]_vars
=============================================================================
