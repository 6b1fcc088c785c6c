----------------------- MODULE StopManagement_proofs -----------------------
(***************************************************************************)
(* Proofs about StopManagement: its types, the direction of every compared *)
(* move, the stops asked for, the secured winner and scaling out, for any  *)
(* prices, distances, steps and volumes.                                   *)
(***************************************************************************)
EXTENDS StopManagement, TLAPS

Passes ==
    [pc : Places, price : Prices, snap : Position, sl : Int, tp : BOOLEAN,
     path : StopPaths \union {"protect", "none"},
     ground : {"none", "live", "stale", "snapshot"}, clean : BOOLEAN]

\* A request has an author.
RequestInv == pass.pc = "send" => pass.path # "none"

\* The stop about to be sent is tighter than the one it was compared with.
GuardInv == pass.pc = "send" /\ pass.ground = "live" /\ pos.open => IsTighter(pos.sl, pass.sl)

\* In a clean pass the stop is never behind the snapshot's; the trailing path
\* asks for break-even at least, and what follows it finds that.
SecureInv ==
    pass.pc # "idle" /\ pos.open /\ pass.clean =>
       /\ pos.sl >= pass.snap.sl
       /\ pass.pc = "send" /\ pass.path # "protect" => pass.sl > pos.sl
       /\ pass.pc = "send" /\ pass.path = "trail" => pass.sl >= Buffer
       /\ pass.pc \in {"cut1", "cut2"} /\ pass.price >= TrailAt => pos.sl >= Buffer

\* No partial close is pending at the broker; a pass knows the volume it cuts,
\* short of the first half when it comes to the second stage.
RemainderInv ==
    "lost" \notin doubt =>
       /\ \A r \in limbo : r.cut = 0
       /\ pos.lots >= MinLot
       /\ pass.pc \notin {"idle", "cut2"} => pos.lots = pass.snap.lots
       /\ pass.pc = "cut2" => pos.lots >= pass.snap.lots - Share(1, pass.snap.lots)

\* The stages not taken yet are still in the volume.
ScaleInv ==
    doubt = {} =>
       /\ \A r \in limbo : r.cut = 0
       /\ pos.lots <= Lots
       /\ pass.pc # "idle" => pass.snap.lots <= Lots
       /\ pos.lots >= Lots - Share(1, Lots) - Share(2, Lots)
       /\ pos.open /\ 1 \notin book.stages => pos.lots >= Lots - Share(2, Lots)
       /\ pos.open /\ 2 \notin book.stages => pos.lots >= Lots - Share(1, Lots)
       /\ pos.open /\ book.stages = {} => pos.lots >= Lots

---------------------------------------------------------------------------
(* Lemmas about the helpers *)

\* The settings are integers.
LEMMA Settings ==
    /\ NoStop \in Int /\ Prices \subseteq Int /\ Anchors \subseteq Int
    /\ Buffer \in Int /\ TrailAt \in Int /\ ManualStop \in Int /\ StopsLevel \in Int
    /\ Lots \in Nat /\ MinLot \in Nat /\ MinLot > 0 /\ MinLot <= Lots
BY StopAssumption

\* What a stop path asks for is a price, and not beyond the tick's unless it is
\* the ratchet (run.py:4624, :4692, :4713, :4788, :4828).
LEMMA WantedBelowPrice ==
    ASSUME NEW path \in StopPaths, NEW p \in Int, NEW s \in Int, NEW n \in Wanted(path, p, s)
    PROVE  n \in Int /\ (path # "ratchet" => n <= p)
<1>1. CASE path = "intel"
  <2>1. n \in Anchors \union {Buffer} /\ n < p
    BY <1>1 DEF Wanted, Intel
  <2> QED
    BY <2>1, StopAssumption
<1>2. CASE path = "dynamic"
  BY <1>2, StopAssumption DEF Wanted, Dynamic
<1>3. CASE path = "structure"
  <2>1. n \in Structure(p, s)
    BY <1>3 DEF Wanted
  <2>2. PICK low \in Anchors : n = Smaller(low - 2, p - Separation) /\ n < p
    BY <2>1 DEF Structure
  <2> QED
    BY <2>2, StopAssumption DEF Smaller
<1>4. CASE path = "breakeven"
  <2>1. n \in BreakevenStop(p, s)
    BY <1>4 DEF Wanted
  <2>2. PICK r \in {0, 1} : n = Smaller(Buffer + (p - Trigger + r) \div 2, p - LockDistance)
    BY <2>1 DEF BreakevenStop
  <2>3. (p - Trigger + r) \div 2 \in Int
    BY StopAssumption
  <2> QED
    BY <2>2, <2>3, StopAssumption DEF Smaller
<1>5. CASE path = "early"
  <2>1. n = (4 * p + 5) \div 10 /\ p > 0
    BY <1>5 DEF Wanted, EarlyProtect
  <2> QED
    BY <2>1
<1>6. CASE path = "trail"
  <2>1. n = Larger(p - TrailDistance(p), Buffer) /\ p >= TrailAt
    BY <1>6 DEF Wanted, Trail
  <2>2. TrailDistance(p) \in Nat
    BY StopAssumption DEF TrailDistance
  <2> QED
    BY <2>1, <2>2, StopAssumption DEF Larger
<1>7. CASE path = "ratchet"
  BY <1>7 DEF Wanted, Ratchet
<1> QED
  BY <1>1, <1>2, <1>3, <1>4, <1>5, <1>6, <1>7 DEF StopPaths

\* After a path comes another one, an exit, the first partial close or the end
\* of the pass; the partial closes come after the trailing path only.
LEMMA AfterPlace ==
    ASSUME NEW path \in StopPaths \union {"exit", "lateExit"}
    PROVE  /\ After[path] \in Places \union {"idle"}
           /\ After[path] \notin {"send", "cut2"}
           /\ After[path] = "cut1" <=> path = "trail"
<1>1. CASE path \in StopPaths
  BY <1>1 DEF After, StopPaths, Places
<1>2. CASE path \in {"exit", "lateExit"}
  BY <1>2 DEF After, StopPaths, Places
<1> QED
  BY <1>1, <1>2

\* Going on ends the pass or moves it to the next place with no request.
LEMMA GoOnPass ==
    ASSUME pass \in Passes, NEW path \in StopPaths \union {"exit", "lateExit"},
           NEW clean \in BOOLEAN, GoOn(path, clean)
    PROVE  \/ pass' = Idle
           \/ /\ pass' \in Passes /\ pass'.pc = After[path]
              /\ pass'.snap = pass.snap /\ pass'.price = pass.price
              /\ pass'.clean = (pass.clean /\ clean)
              /\ pass'.pc \notin {"idle", "send", "cut2"}
              /\ pass'.pc = "cut1" <=> path = "trail"
<1>1. CASE After[path] = "idle"
  BY <1>1 DEF GoOn
<1>2. CASE After[path] # "idle"
  <2>1. After[path] \in Places
    BY <1>2, AfterPlace
  <2>2. pass' = [pass EXCEPT !.pc = After[path], !.clean = @ /\ clean, !.sl = NoStop,
                             !.tp = FALSE, !.path = "none", !.ground = "none"]
    BY <1>2 DEF GoOn
  <2>3. pass' \in Passes
    BY <2>1, <2>2, StopAssumption DEF Passes
  <2> QED
    BY <1>2, <2>1, <2>2, <2>3, AfterPlace DEF Passes
<1> QED
  BY <1>1, <1>2

\* A comparison goes on, or makes a request that is tighter than what it was
\* compared with.
LEMMA ComparePass ==
    ASSUME pass \in Passes, NEW path \in StopPaths, NEW n \in Int, NEW live \in Int,
           NEW ground \in {"live", "snapshot"}, Compare(path, n, live, ground)
    PROVE  \/ /\ n > live
              /\ pass' \in Passes /\ pass'.pc = "send" /\ pass'.path = path /\ pass'.sl = n
              /\ pass'.ground = ground /\ pass'.price = pass.price /\ pass'.snap = pass.snap
              /\ pass'.clean = (pass.clean /\ ground = "live")
           \/ ~(n > live) /\ GoOn(path, ground = "live")
<1>1. CASE n > live
  <2>1. pass' = [pass EXCEPT !.pc = "send", !.path = path, !.sl = n, !.tp = pass.snap.tp,
                             !.ground = ground, !.clean = @ /\ ground = "live"]
    BY <1>1 DEF Compare, IsTighter
  <2>2. pass.snap.tp \in BOOLEAN
    BY DEF Passes, Position
  <2>3. pass' \in Passes
    BY <2>1, <2>2 DEF Passes, Places
  <2> QED
    BY <1>1, <2>1, <2>3 DEF Passes
<1>2. CASE ~(n > live)
  BY <1>2 DEF Compare, IsTighter
<1> QED
  BY <1>1, <1>2

\* A stop path makes or refuses one of the requests it wants, compared with the
\* broker's stop or, failing that, with the snapshot's; or it wants none.
LEMMA ModifyPass ==
    ASSUME TypeOK, NEW path \in StopPaths, Modify(path)
    PROVE  /\ pass.pc = path /\ pass \in Passes
           /\ UNCHANGED <<kind, pos, book, limbo, mover, doubt>> /\ faults' \in 0..MaxFaults
           /\ \/ \E n \in Wanted(path, pass.price, pass.snap.sl), live \in Int, ground \in {"live", "snapshot"} :
                   /\ ground = "live" => pos.open /\ live = pos.sl
                   /\ Compare(path, n, live, ground)
              \/ /\ GoOn(path, TRUE)
                 /\ Wanted(path, pass.price, pass.snap.sl) = {} \/ Optional(path)
<1>1. pass.pc = path /\ pass \in Passes
  BY DEF Modify, TypeOK, Idle, Passes, StopPaths
<1>2. pos.sl \in Int /\ pass.snap.sl \in Int
  BY <1>1 DEF TypeOK, Passes, Position
<1>3. UNCHANGED <<kind, pos, book, limbo, mover, doubt>>
  BY DEF Modify
<1>4. faults' \in 0..MaxFaults
  <2>1. faults' = faults \/ Fault
    BY Zenon DEF Modify
  <2> QED
    BY <2>1, StopAssumption DEF Fault, TypeOK
<1>5. \/ \E n \in Wanted(path, pass.price, pass.snap.sl) : pos.open /\ Compare(path, n, pos.sl, "live")
      \/ \E n \in Wanted(path, pass.price, pass.snap.sl) : Compare(path, n, pass.snap.sl, "snapshot")
      \/ /\ GoOn(path, TRUE)
         /\ Wanted(path, pass.price, pass.snap.sl) = {} \/ Optional(path)
  BY Zenon DEF Modify
<1> QED
  BY <1>1, <1>2, <1>3, <1>4, <1>5

\* What a step of Modify leaves in the pass: a request that is not beyond the
\* price, tighter than the broker's stop if it was compared with it; or no
\* request, at the next place.
LEMMA ModifyResult ==
    ASSUME TypeOK, NEW path \in StopPaths, Modify(path)
    PROVE  \/ pass' = Idle
           \/ /\ pass' \in Passes /\ pass'.pc # "idle" /\ pass'.pc # "cut2"
              /\ pass'.snap = pass.snap /\ pass'.price = pass.price
              /\ \/ /\ pass'.pc = "send" /\ pass'.path = path
                    /\ pass'.sl \in Wanted(path, pass.price, pass.snap.sl)
                    /\ pass'.ground = "live" => pos.open /\ pass'.sl > pos.sl
                    /\ pass'.clean => pass.clean /\ pass'.ground = "live"
                 \/ /\ pass'.pc # "send" /\ (pass'.pc = "cut1" <=> path = "trail")
                    /\ pass'.clean => pass.clean
                    /\ pass'.clean => \/ pos.open /\ \E n \in Wanted(path, pass.price, pass.snap.sl) : pos.sl >= n
                                      \/ Wanted(path, pass.price, pass.snap.sl) = {} \/ Optional(path)
<1> DEFINE W == Wanted(path, pass.price, pass.snap.sl)
<1>1. pass \in Passes /\ pass.price \in Int /\ pass.snap.sl \in Int /\ pos.sl \in Int
  BY ModifyPass, StopAssumption DEF Passes, Position, TypeOK
<1>2. CASE \E n \in W, live \in Int, ground \in {"live", "snapshot"} :
             (ground = "live" => pos.open /\ live = pos.sl) /\ Compare(path, n, live, ground)
  <2>1. PICK n \in W, live \in Int, ground \in {"live", "snapshot"} :
             (ground = "live" => pos.open /\ live = pos.sl) /\ Compare(path, n, live, ground)
    BY <1>2
  <2>2. n \in Int
    BY <1>1, WantedBelowPrice
  <2>3. CASE n > live
    <3>1. /\ pass' \in Passes /\ pass'.pc = "send" /\ pass'.path = path /\ pass'.sl = n
          /\ pass'.ground = ground /\ pass'.price = pass.price /\ pass'.snap = pass.snap
          /\ pass'.clean = (pass.clean /\ ground = "live")
      <4> HIDE DEF W
      <4> QED
        BY <1>1, <2>1, <2>2, <2>3, StopAssumption, ComparePass
    <3> QED
      BY <2>1, <2>3, <3>1
  <2>4. CASE ~(n > live)
    <3>1. GoOn(path, ground = "live")
      BY <2>1, <2>4 DEF Compare, IsTighter
    <3>2. \/ pass' = Idle
          \/ /\ pass' \in Passes
             /\ pass'.snap = pass.snap /\ pass'.price = pass.price
             /\ pass'.clean = (pass.clean /\ ground = "live")
             /\ pass'.pc \notin {"idle", "send", "cut2"}
             /\ pass'.pc = "cut1" <=> path = "trail"
      BY <1>1, <3>1, GoOnPass
    <3>3. ground = "live" => pos.open /\ pos.sl >= n
      BY <1>1, <2>1, <2>2, <2>4
    <3> QED
      BY <2>1, <3>2, <3>3
  <2> QED
    BY <2>3, <2>4
<1>3. CASE GoOn(path, TRUE) /\ (W = {} \/ Optional(path))
  BY <1>1, <1>3, GoOnPass
<1> QED
  BY <1>2, <1>3, ModifyPass

\* The answer to a request puts the pass at its next place, without a request.
LEMMA AnswerResult ==
    ASSUME TypeOK, pass.pc = "send", pass.path # "none", NEW accepted \in BOOLEAN, NextAfterSend(accepted)
    PROVE  \/ pass' = Idle
           \/ /\ pass' \in Passes /\ pass'.pc \notin {"idle", "send", "cut2"}
              /\ pass'.snap = pass.snap /\ pass'.price = pass.price
              /\ pass'.pc = "cut1" <=> pass.path = "trail"
              /\ pass'.clean => pass.clean /\ pass.path # "protect" /\ accepted
<1>1. pass \in Passes
  BY DEF TypeOK, Idle, Passes
<1>2. CASE pass.path = "protect"
  <2>1. CASE kind = "observe"
    BY <1>2, <2>1 DEF NextAfterSend
  <2>2. CASE kind # "observe"
    <3>1. pass' = [pass EXCEPT !.pc = IF kind = "smart" THEN "intel" ELSE "exit",
                               !.clean = FALSE, !.sl = NoStop, !.tp = FALSE,
                               !.path = "none", !.ground = "none"]
      BY <1>2, <2>2 DEF NextAfterSend
    <3>2. pass' \in Passes
      BY <1>1, <3>1, StopAssumption DEF Passes, Places, StopPaths
    <3> QED
      BY <1>1, <1>2, <3>1, <3>2 DEF Passes
  <2> QED
    BY <2>1, <2>2
<1>3. CASE pass.path # "protect"
  <2>1. pass.path \in StopPaths
    BY <1>1, <1>3 DEF Passes
  <2>2. GoOn(pass.path, accepted)
    BY <1>3 DEF NextAfterSend
  <2> QED
    BY <1>1, <1>3, <2>1, <2>2, GoOnPass
<1> QED
  BY <1>2, <1>3

\* The stops a manual trade may get are prices.
LEMMA ProtectedStops ==
    ASSUME pass \in Passes, NEW s \in ProtectStops
    PROVE  s \in Int
<1> DEFINE own == IF pass.snap.sl = NoStop THEN -ManualStop ELSE pass.snap.sl
<1>1. own \in Int
  BY Settings DEF Passes, Position
<1>2. s = own \/ \E q \in Prices : s = q - StopsLevel
  BY Zenon DEF ProtectStops
<1> QED
  BY <1>1, <1>2, Settings

\* The exits close the position, end the pass, or go on.
LEMMA ExitResult ==
    ASSUME TypeOK, Exit
    PROVE  /\ \/ pos' = pos /\ book' = book
              \/ pos' = [pos EXCEPT !.open = FALSE] /\ book' = [book EXCEPT !.stages = {}]
           /\ \/ pass' = Idle
              \/ /\ pass' \in Passes /\ pass'.pc \notin {"idle", "send", "cut1", "cut2"}
                 /\ pass'.snap = pass.snap /\ pass'.price = pass.price
                 /\ pass'.clean => pass.clean
                 /\ pos' = pos
<1>1. pass \in Passes /\ pass.pc \in {"exit", "lateExit"} /\ pass.pc # "trail"
  BY DEF TypeOK, Exit, Idle, Passes
<1>2. CASE pass' = Idle
  BY <1>2 DEF Exit
<1>3. CASE GoOn(pass.pc, TRUE) /\ UNCHANGED <<pos, book>>
  BY <1>1, <1>3, GoOnPass
<1> QED
  BY <1>2, <1>3 DEF Exit

\* A deal leaves a position with the volume that remains, none if it is closed.
LEMMA CutByResult ==
    ASSUME TypeOK, NEW lots \in Nat, CutBy(lots)
    PROVE  /\ pos' \in Position /\ pos'.sl = pos.sl
           /\ pos'.open => pos.open
           /\ pos'.lots = IF lots < pos.lots THEN pos.lots - lots ELSE 0
<1>1. pos \in Position
  BY DEF TypeOK
<1>2. CASE lots < pos.lots
  BY <1>1, <1>2 DEF CutBy, Position
<1>3. CASE ~(lots < pos.lots)
  BY <1>1, <1>3 DEF CutBy, Position
<1> QED
  BY <1>2, <1>3

\* The shares are parts of the volume, larger for a larger one; what both leave
\* is at least the second.
LEMMA ShareBounds ==
    ASSUME NEW v \in Nat
    PROVE  /\ Share(1, v) \in Nat /\ Share(2, v) \in Nat
           /\ Share(1, v) <= v
           /\ v - Share(1, v) - Share(2, v) >= Share(2, v)
           /\ \A w \in Nat : v <= w => Share(1, v) <= Share(1, w) /\ Share(2, v) <= Share(2, w)
BY DEF Share

---------------------------------------------------------------------------
(* Types *)

\* Every variable of the model keeps its type (run.py:4487).
LEMMA TypeInit == Init => TypeOK /\ RequestInv
<1> SUFFICES ASSUME Init PROVE TypeOK /\ RequestInv
  OBVIOUS
<1>1. pos \in Position
  BY StopAssumption DEF Init, Position
<1> QED
  BY <1>1, StopAssumption DEF Init, TypeOK, RequestInv, Idle

LEMMA TypeStep == TypeOK /\ RequestInv /\ [Next]_vars => TypeOK' /\ RequestInv'
<1> SUFFICES ASSUME TypeOK, RequestInv, [Next]_vars PROVE TypeOK' /\ RequestInv'
  OBVIOUS
<1>0. pos \in Position /\ pass \in {Idle} \union Passes
  BY DEF TypeOK, Passes
<1>1. ASSUME NEW pc \in Places \ {"send"}, Begin(pc) PROVE TypeOK' /\ RequestInv'
  <2>1. PICK p \in Prices :
           pass' = [pc |-> pc, price |-> p, snap |-> pos, sl |-> NoStop, tp |-> FALSE,
                    path |-> "none", ground |-> "none", clean |-> TRUE]
    BY <1>1 DEF Begin
  <2>2. pass' \in Passes
    BY <1>0, <2>1, StopAssumption DEF Passes
  <2>3. pass'.pc # "send"
    BY <2>1
  <2> QED
    BY <1>1, <2>2, <2>3 DEF Begin, TypeOK, RequestInv, Passes
<1>2. CASE BeginPass
  BY <1>1, <1>2 DEF BeginPass, Places, StopPaths
<1>3. CASE BeginRatchet
  BY <1>1, <1>3 DEF BeginRatchet, Places, StopPaths
<1>4. CASE Protect
  <2>1. pass \in Passes
    <3>1. pass.pc = "protect"
      BY <1>4 DEF Protect
    <3> QED
      BY <1>0, <3>1 DEF Idle
  <2>2. \A s \in ProtectStops : s \in Int
    BY <2>1, ProtectedStops
  <2>3. pass' \in {Idle} \union Passes /\ RequestInv'
    <3>1. CASE \E s \in ProtectStops :
               pass' = [pass EXCEPT !.pc = "send", !.path = "protect", !.sl = s,
                                    !.tp = TRUE, !.ground = "none"]
      BY <2>1, <2>2, <3>1 DEF Passes, Places, RequestInv
    <3>2. CASE pass' = Idle
      BY <3>2 DEF Idle, RequestInv
    <3>3. CASE pass' = [pass EXCEPT !.pc = IF kind = "smart" THEN "intel" ELSE "exit"]
      BY <2>1, <3>3 DEF Passes, Places, StopPaths, RequestInv
    <3> QED
      BY <1>4, <3>1, <3>2, <3>3 DEF Protect
  <2> QED
    BY <1>4, <2>3 DEF Protect, TypeOK, Passes
<1>5. CASE Exit
  <2>1. pass' \in {Idle} \union Passes /\ RequestInv'
    BY <1>5, ExitResult DEF RequestInv, Idle
  <2>2. pos' \in Position
    BY <1>0, <1>5, ExitResult DEF Position
  <2>3. book' \in [stages : SUBSET Stages, failed : BOOLEAN]
    BY <1>5, ExitResult DEF TypeOK
  <2> QED
    BY <1>5, <2>1, <2>2, <2>3 DEF Exit, TypeOK, Passes
<1>6. ASSUME NEW path \in StopPaths, Modify(path) PROVE TypeOK' /\ RequestInv'
  <2>1. pass' \in {Idle} \union Passes /\ RequestInv'
    BY <1>6, ModifyResult DEF RequestInv, Idle, StopPaths
  <2> QED
    BY <1>6, <2>1, ModifyPass DEF TypeOK, Passes
<1>7. ASSUME NEW accepted \in BOOLEAN, pass.pc = "send", NextAfterSend(accepted)
      PROVE  pass' \in {Idle} \union Passes /\ RequestInv'
  BY <1>7, AnswerResult DEF RequestInv, Idle
<1>8. ASSUME NEW yes \in BOOLEAN, Failed(yes) PROVE book' \in [stages : SUBSET Stages, failed : BOOLEAN]
  BY <1>8 DEF Failed, TypeOK
<1>9. CASE SendDone
  <2>1. pass' \in {Idle} \union Passes /\ RequestInv' /\ book' \in [stages : SUBSET Stages, failed : BOOLEAN]
    BY <1>7, <1>8, <1>9 DEF SendDone
  <2>2. pass \in Passes
    BY <1>0, <1>9 DEF SendDone, Idle
  <2>3. pos' \in Position
    BY <1>0, <1>9, <2>2 DEF SendDone, Position, Passes
  <2>4. mover' \in {"none", "live", "stale", "snapshot", "user", "late"}
    BY <1>9, <2>2 DEF SendDone, Passes, TypeOK
  <2> QED
    BY <1>9, <2>1, <2>3, <2>4 DEF SendDone, TypeOK, Passes
<1>10. CASE SendRefused
  <2>1. pass' \in {Idle} \union Passes /\ RequestInv' /\ book' \in [stages : SUBSET Stages, failed : BOOLEAN]
    BY <1>7, <1>8, <1>10 DEF SendRefused
  <2> QED
    BY <1>10, <2>1 DEF SendRefused, TypeOK, Passes
<1>11. CASE SendLost
  <2>1. pass' \in {Idle} \union Passes /\ RequestInv' /\ book' \in [stages : SUBSET Stages, failed : BOOLEAN]
    BY <1>7, <1>8, <1>11 DEF SendLost
  <2>2. pass \in Passes
    BY <1>0, <1>11 DEF SendLost, Idle
  <2>3. limbo' \subseteq [cut : Nat, sl : Int, tp : BOOLEAN]
    BY <1>11, <2>2 DEF SendLost, TypeOK, Passes
  <2>4. faults' \in 0..MaxFaults
    BY <1>11, StopAssumption DEF SendLost, Fault, TypeOK
  <2> QED
    BY <1>11, <2>1, <2>3, <2>4 DEF SendLost, TypeOK, Passes
<1>12. ASSUME NEW stage \in Stages, pass.pc = CutPc(stage)
       PROVE  /\ pass \in Passes /\ AfterCut(stage) \in {Idle} \union Passes
              /\ AfterCut(stage).pc # "send"
              /\ Share(stage, pass.snap.lots) \in Nat
  <2>1. pass \in Passes
    BY <1>0, <1>12 DEF CutPc, Idle
  <2>2. AfterCut(stage) \in {Idle} \union Passes /\ AfterCut(stage).pc # "send"
    BY <2>1 DEF AfterCut, Passes, Places, Idle
  <2>3. Share(stage, pass.snap.lots) \in Nat
    BY <2>1, ShareBounds DEF Stages, Passes, Position
  <2> QED
    BY <2>1, <2>2, <2>3
<1>13. ASSUME NEW stage \in Stages, CutDone(stage) PROVE TypeOK' /\ RequestInv'
  <2>1. pos' \in Position
    BY <1>12, <1>13, CutByResult DEF CutDone
  <2>2. book' \in [stages : SUBSET Stages, failed : BOOLEAN]
    BY <1>13 DEF CutDone, TypeOK
  <2> QED
    BY <1>12, <1>13, <2>1, <2>2 DEF CutDone, TypeOK, RequestInv, Passes
<1>14. ASSUME NEW stage \in Stages, CutLost(stage) PROVE TypeOK' /\ RequestInv'
  <2>1. limbo' \subseteq [cut : Nat, sl : Int, tp : BOOLEAN]
    <3>1. Share(stage, pass.snap.lots) \in Nat
      BY <1>12, <1>14 DEF CutLost
    <3>2. limbo' = limbo \union {[cut |-> Share(stage, pass.snap.lots), sl |-> NoStop, tp |-> FALSE]}
      BY <1>14 DEF CutLost
    <3>3. [cut |-> Share(stage, pass.snap.lots), sl |-> NoStop, tp |-> FALSE]
               \in [cut : Nat, sl : Int, tp : BOOLEAN]
      BY <3>1, Settings
    <3> QED
      BY <3>2, <3>3 DEF TypeOK
  <2>2. faults' \in 0..MaxFaults
    BY <1>14, StopAssumption DEF CutLost, Fault, TypeOK
  <2> QED
    BY <1>12, <1>14, <2>1, <2>2 DEF CutLost, TypeOK, RequestInv, Passes
<1>15. ASSUME NEW stage \in Stages, CutNot(stage) PROVE TypeOK' /\ RequestInv'
  BY <1>12, <1>15 DEF CutNot, TypeOK, RequestInv, Passes
<1>16. Disturbed \in {Idle} \union Passes /\ (Disturbed.pc = "send" => Disturbed.path # "none")
  BY <1>0 DEF Disturbed, Passes, Idle, RequestInv, Places
<1>17. CASE UserEdits
  <2>1. pos' \in Position
    BY <1>0, <1>17, StopAssumption DEF UserEdits, Position
  <2>2. faults' \in 0..MaxFaults
    BY <1>17, StopAssumption DEF UserEdits, Fault, TypeOK
  <2> QED
    BY <1>16, <1>17, <2>1, <2>2 DEF UserEdits, TypeOK, RequestInv, Passes
<1>18. CASE Closes
  <2>1. pos' \in Position
    BY <1>0, <1>18 DEF Closes, Position
  <2> QED
    BY <1>18, <2>1 DEF Closes, TypeOK, RequestInv, Passes
<1>19. CASE LateExecution
  <2>1. PICK r \in limbo : /\ limbo' = limbo \ {r}
                           /\ IF r.cut > 0 THEN CutBy(r.cut) /\ UNCHANGED mover
                              ELSE pos' = [pos EXCEPT !.sl = r.sl, !.tp = r.tp] /\ mover' = "late"
    BY <1>19 DEF LateExecution
  <2>2. r.cut \in Nat /\ r.sl \in Int /\ r.tp \in BOOLEAN
    BY DEF TypeOK
  <2>3. pos' \in Position
    <3>1. CASE r.cut > 0
      BY <2>1, <2>2, <3>1, CutByResult
    <3>2. CASE ~(r.cut > 0)
      BY <1>0, <2>1, <2>2, <3>2 DEF Position
    <3> QED
      BY <3>1, <3>2
  <2>4. mover' \in {"none", "live", "stale", "snapshot", "user", "late"}
    BY <2>1 DEF TypeOK
  <2> QED
    BY <1>16, <1>19, <2>1, <2>3, <2>4 DEF LateExecution, TypeOK, RequestInv, Passes
<1>20. CASE Restart
  <2>1. book' \in [stages : SUBSET Stages, failed : BOOLEAN] /\ doubt' \subseteq {"lost", "forgotten"}
    BY <1>20 DEF Restart, TypeOK
  <2>2. faults' \in 0..MaxFaults
    BY <1>20, StopAssumption DEF Restart, Fault, TypeOK
  <2> QED
    BY <1>20, <2>1, <2>2 DEF Restart, TypeOK, RequestInv, Idle
<1>21. CASE UNCHANGED vars
  BY <1>21 DEF vars, TypeOK, RequestInv
<1> QED
  BY <1>2, <1>3, <1>4, <1>5, <1>6, <1>9, <1>10, <1>11, <1>13, <1>14, <1>15, <1>17,
     <1>18, <1>19, <1>20, <1>21 DEF Next, Managing

\* Every variable of the model keeps its type in every behaviour: no position has
\* a negative volume and no place of the pass is unknown (run.py:4487).
THEOREM StopTypes == Spec => []TypeOK
<1>1. TypeOK /\ RequestInv /\ [Next]_vars => (TypeOK /\ RequestInv)'
  BY TypeStep
<1> QED
  BY TypeInit, <1>1, PTL DEF Spec

---------------------------------------------------------------------------
(* The stop *)

\* A step that leaves the request alone, or turns the comparison stale, or sends
\* none: all steps but those of the stop paths, Protect and SendDone.
LEMMA QuietStep ==
    ASSUME TypeOK, RequestInv, Next, ~Protect, ~SendDone, ~UserEdits, ~LateExecution,
           \A path \in StopPaths : ~Modify(path)
    PROVE  /\ pos'.sl = pos.sl /\ (pos'.open => pos.open)
           /\ \/ pass' = pass \/ pass' = Idle
              \/ /\ pass' \in Passes /\ pass'.pc \notin {"idle", "send"}
                 /\ \/ /\ pass.pc = "idle" /\ pass'.pc \notin {"cut1", "cut2"}
                       /\ pass'.snap = pos /\ pos' = pos
                    \/ /\ pass.pc # "idle" /\ pass'.snap = pass.snap /\ pass'.price = pass.price
                       /\ pass'.clean => pass.clean
                       /\ pass'.pc \in {"cut1", "cut2"} =>
                             \/ pass.pc = "cut1"
                             \/ pass.pc = "send" /\ ~pass'.clean
<1>0. pos \in Position /\ pass \in {Idle} \union Passes
  BY DEF TypeOK, Passes
<1>1. ASSUME NEW pc \in Places \ {"send", "cut1", "cut2"}, Begin(pc)
      PROVE  /\ pos' = pos /\ pass' \in Passes /\ pass.pc = "idle" /\ pass'.snap = pos
             /\ pass'.pc \notin {"idle", "send", "cut1", "cut2"}
  BY <1>0, <1>1, StopAssumption DEF Begin, Passes, Places, StopPaths
<1>2. CASE BeginPass
  BY <1>1, <1>2 DEF BeginPass, Places, StopPaths
<1>3. CASE BeginRatchet
  BY <1>1, <1>3 DEF BeginRatchet, Places, StopPaths
<1>4. CASE Exit
  <2>1. pass.pc # "idle"
    BY <1>4 DEF Exit
  <2>2. pos'.sl = pos.sl /\ (pos'.open => pos.open)
    BY <1>0, <1>4, ExitResult DEF Position
  <2> QED
    BY <1>4, <2>1, <2>2, ExitResult
<1>5. ASSUME pass.pc = "send", NextAfterSend(FALSE)
      PROVE  \/ pass' = Idle
             \/ /\ pass' \in Passes /\ pass'.pc \notin {"idle", "send"}
                /\ pass'.snap = pass.snap /\ pass'.price = pass.price /\ ~pass'.clean
  BY <1>5, AnswerResult DEF RequestInv, Passes
<1>6. CASE SendRefused \/ SendLost
  BY <1>5, <1>6 DEF SendRefused, SendLost
<1>7. ASSUME NEW stage \in Stages, pass.pc = CutPc(stage), pass' = AfterCut(stage)
      PROVE  \/ pass' = Idle
             \/ /\ pass.pc = "cut1" /\ pass' \in Passes /\ pass'.pc = "cut2"
                /\ pass'.snap = pass.snap /\ pass'.price = pass.price /\ pass'.clean = pass.clean
  <2>1. pass \in Passes
    BY <1>0, <1>7 DEF CutPc, Idle
  <2> QED
    BY <1>7, <2>1 DEF AfterCut, CutPc, Passes, Places
<1>8. ASSUME NEW stage \in Stages, CutDone(stage) \/ CutLost(stage) \/ CutNot(stage)
      PROVE  /\ pos'.sl = pos.sl /\ (pos'.open => pos.open)
             /\ pass.pc = CutPc(stage) /\ pass' = AfterCut(stage)
  <2>1. CASE CutDone(stage)
    <3>1. pass \in Passes
      BY <1>0, <2>1 DEF CutDone, CutPc, Idle
    <3>2. Share(stage, pass.snap.lots) \in Nat
      BY <3>1, ShareBounds DEF Stages, Passes, Position
    <3> QED
      BY <2>1, <3>2, CutByResult DEF CutDone
  <2> QED
    BY <1>8, <2>1 DEF CutLost, CutNot
<1>9. CASE \E stage \in Stages : CutDone(stage) \/ CutLost(stage) \/ CutNot(stage)
  BY <1>7, <1>8, <1>9
<1>10. CASE Closes
  BY <1>0, <1>10 DEF Closes, Position
<1>11. CASE Restart
  BY <1>11 DEF Restart
<1> QED
  BY <1>2, <1>3, <1>4, <1>6, <1>9, <1>10, <1>11 DEF Next, Managing

\* The stop only moves in SendDone, to the one that was requested, or by a user
\* or a late execution.
LEMMA MoveResult ==
    ASSUME TypeOK, RequestInv, Next, pos'.sl # pos.sl
    PROVE  \/ SendDone
           \/ mover' \in {"user", "late"} /\ pass' = Disturbed
<1>1. CASE UserEdits
  BY <1>1 DEF UserEdits
<1>2. CASE LateExecution
  <2>1. PICK r \in limbo : IF r.cut > 0 THEN CutBy(r.cut) /\ UNCHANGED mover
                           ELSE pos' = [pos EXCEPT !.sl = r.sl, !.tp = r.tp] /\ mover' = "late"
    BY <1>2 DEF LateExecution
  <2>2. r.cut \in Nat
    BY DEF TypeOK
  <2> QED
    BY <1>2, <2>1, <2>2, CutByResult DEF LateExecution
<1>3. CASE Protect
  BY <1>3 DEF Protect
<1>4. CASE \E path \in StopPaths : Modify(path)
  BY <1>4, ModifyPass
<1> QED
  BY <1>1, <1>2, <1>3, <1>4, QuietStep

\* Protect makes a request that is compared with nothing, or moves on.
LEMMA ProtectResult ==
    ASSUME TypeOK, Protect
    PROVE  /\ pos' = pos
           /\ \/ pass' = Idle
              \/ /\ pass' \in Passes /\ pass.pc = "protect" /\ pass'.snap = pass.snap
                 /\ pass'.price = pass.price /\ pass'.clean = pass.clean
                 /\ \/ pass'.pc = "send" /\ pass'.path = "protect" /\ pass'.ground = "none"
                    \/ pass'.pc \in {"intel", "exit"}
<1>1. pass.pc = "protect" /\ pos' = pos
  BY DEF Protect
<1>2. pass \in Passes
  BY <1>1 DEF TypeOK, Passes, Idle
<1>3. \A s \in ProtectStops : s \in Int
  BY <1>2, ProtectedStops
<1>4. CASE \E s \in ProtectStops :
             pass' = [pass EXCEPT !.pc = "send", !.path = "protect", !.sl = s,
                                  !.tp = TRUE, !.ground = "none"]
  <2>1. pass' \in Passes
    BY <1>2, <1>3, <1>4 DEF Passes, Places
  <2> QED
    BY <1>1, <1>2, <1>4, <2>1 DEF Passes
<1>5. CASE pass' = Idle
  BY <1>1, <1>5
<1>6. CASE pass' = [pass EXCEPT !.pc = IF kind = "smart" THEN "intel" ELSE "exit"]
  <2>1. pass' \in Passes
    BY <1>2, <1>6 DEF Passes, Places, StopPaths
  <2> QED
    BY <1>1, <1>2, <1>6, <2>1 DEF Passes
<1> QED
  BY <1>4, <1>5, <1>6 DEF Protect

\* An accepted request is the broker's stop, and the pass moves on.
LEMMA SendDoneResult ==
    ASSUME TypeOK, RequestInv, SendDone
    PROVE  /\ pass.pc = "send" /\ pos.open /\ pass \in Passes /\ pos'.sl = pass.sl /\ pos'.lots = pos.lots
           /\ \/ pass' = Idle
              \/ /\ pass' \in Passes /\ pass'.pc \notin {"idle", "send", "cut2"}
                 /\ pass'.snap = pass.snap /\ pass'.price = pass.price
                 /\ pass'.pc = "cut1" <=> pass.path = "trail"
                 /\ pass'.clean => pass.clean /\ pass.path # "protect"
<1>1. pass.pc = "send" /\ pos.open /\ NextAfterSend(TRUE) /\ pass.path # "none"
  BY DEF SendDone, RequestInv
<1>2. pass \in Passes
  BY <1>1 DEF TypeOK, Passes, Idle
<1>3. pos'.sl = pass.sl /\ pos'.lots = pos.lots
  BY DEF SendDone, TypeOK, Position
<1>4. \/ pass' = Idle
      \/ /\ pass' \in Passes /\ pass'.pc \notin {"idle", "send", "cut2"}
         /\ pass'.snap = pass.snap /\ pass'.price = pass.price
         /\ pass'.pc = "cut1" <=> pass.path = "trail"
         /\ pass'.clean => pass.clean /\ pass.path # "protect" /\ TRUE
  BY <1>1, AnswerResult
<1> QED
  BY <1>1, <1>2, <1>3, <1>4

\* Somebody else's move makes a comparison stale and a pass no longer clean.
LEMMA DisturbedResult ==
    ASSUME TypeOK
    PROVE  \/ Disturbed = pass /\ pass.pc = "idle"
           \/ /\ pass \in Passes /\ Disturbed \in Passes /\ ~Disturbed.clean /\ Disturbed.ground # "live"
              /\ Disturbed.pc = pass.pc /\ Disturbed.sl = pass.sl /\ Disturbed.path = pass.path
              /\ Disturbed.price = pass.price /\ Disturbed.snap = pass.snap
<1>1. CASE pass.pc = "idle"
  BY <1>1 DEF Disturbed
<1>2. CASE pass.pc # "idle"
  <2>1. pass \in Passes
    BY <1>2 DEF TypeOK, Passes, Idle
  <2> QED
    BY <1>2, <2>1 DEF Disturbed, Passes
<1> QED
  BY <1>1, <1>2

\* The comparison with the broker's stop holds until the request is sent, or it
\* is known to be stale (run.py:4158).
LEMMA GuardStep ==
    TypeOK /\ RequestInv /\ GuardInv /\ [Next]_vars => GuardInv'
<1> SUFFICES ASSUME TypeOK, RequestInv, GuardInv, [Next]_vars,
                    pass'.pc = "send", pass'.ground = "live", pos'.open
             PROVE  IsTighter(pos'.sl, pass'.sl)
  BY DEF GuardInv
<1>0. pos \in Position /\ pass \in {Idle} \union Passes
  BY DEF TypeOK, Passes
<1>1. ASSUME NEW path \in StopPaths, Modify(path) PROVE IsTighter(pos'.sl, pass'.sl)
  <2>1. pos' = pos
    BY <1>1, ModifyPass
  <2>2. pass'.sl > pos.sl
    BY <1>1, ModifyResult DEF Idle
  <2> QED
    BY <2>1, <2>2 DEF IsTighter
<1>2. ~Protect
  BY ProtectResult DEF Idle
<1>3. ~SendDone
  BY SendDoneResult DEF Idle
<1>4. ~UserEdits /\ ~LateExecution
  BY DisturbedResult DEF UserEdits, LateExecution, Idle
<1>5. CASE UNCHANGED vars
  BY <1>5 DEF vars, GuardInv
<1>6. CASE Next /\ \A path \in StopPaths : ~Modify(path)
  <2>1. pass' = pass
    BY <1>2, <1>3, <1>4, <1>6, QuietStep DEF Idle
  <2> QED
    BY <1>2, <1>3, <1>4, <1>6, <2>1, QuietStep DEF GuardInv
<1> QED
  BY <1>1, <1>2, <1>3, <1>4, <1>5, <1>6

\* "Never widen a stop, whatever path asked for it" (run.py:4156): in every
\* behaviour, whatever paths ran before on whatever snapshot, a stop that is moved
\* on a comparison with the broker's moves towards the price, as long as nobody
\* else moved it between the comparison and the order.
THEOREM NeverWidened == Spec => MovesOnlyTighten
<1>1. Init => GuardInv
  BY DEF Init, GuardInv, Idle
<1>2. TypeOK /\ RequestInv /\ GuardInv /\ [Next]_vars
        => (pos'.sl # pos.sl /\ mover' = "live" => IsTighter(pos.sl, pos'.sl))
  <2> SUFFICES ASSUME TypeOK, RequestInv, GuardInv, [Next]_vars, pos'.sl # pos.sl, mover' = "live"
               PROVE  IsTighter(pos.sl, pos'.sl)
    OBVIOUS
  <2>1. Next
    BY DEF vars
  <2>2. SendDone
    BY <2>1, MoveResult
  <2>3. pos'.sl = pass.sl /\ pass.ground = "live"
    BY <2>2 DEF SendDone, TypeOK, Position
  <2> QED
    BY <2>2, <2>3 DEF SendDone, GuardInv
<1>3. TypeOK /\ RequestInv /\ GuardInv /\ [Next]_vars => (TypeOK /\ RequestInv /\ GuardInv)'
  BY TypeStep, GuardStep
<1>4. (TypeOK /\ RequestInv /\ GuardInv) /\ [Next]_vars
        => [pos'.sl # pos.sl /\ mover' = "live" => IsTighter(pos.sl, pos'.sl)]_vars
  BY <1>2
<1> QED
  BY TypeInit, <1>1, <1>3, <1>4, PTL DEF Spec, MovesOnlyTighten

\* No path but the ratchet, and the protection of a manual trade's own stop, asks
\* for a stop beyond the price of its tick, whatever the distances are set to
\* (run.py:4624, :4692, :4788, :4828).
THEOREM NoStopBeyondPrice == Spec => []StopProtects
<1>1. Init => StopProtects
  BY DEF Init, StopProtects, Idle
<1>2. TypeOK /\ RequestInv /\ StopProtects /\ [Next]_vars => StopProtects'
  <2> SUFFICES ASSUME TypeOK, RequestInv, StopProtects, [Next]_vars,
                      pass'.pc = "send", pass'.path \notin {"protect", "ratchet"}
               PROVE  pass'.sl <= pass'.price
    BY DEF StopProtects
  <2>0. pos \in Position /\ pass \in {Idle} \union Passes
    BY DEF TypeOK, Passes
  <2>1. ASSUME NEW path \in StopPaths, Modify(path) PROVE pass'.sl <= pass'.price
    <3>1. /\ pass'.path = path /\ pass'.sl \in Wanted(path, pass.price, pass.snap.sl)
          /\ pass'.price = pass.price
      BY <2>1, ModifyResult DEF Idle
    <3>2. pass.price \in Int /\ pass.snap.sl \in Int
      BY <2>1, ModifyPass, StopAssumption DEF Passes, Position
    <3> QED
      BY <3>1, <3>2, WantedBelowPrice
  <2>2. CASE Protect
    BY <2>2, ProtectResult DEF Idle
  <2>3. CASE SendDone
    BY <2>3, SendDoneResult DEF Idle
  <2>4. CASE UserEdits \/ LateExecution
    BY <2>4, DisturbedResult DEF UserEdits, LateExecution, StopProtects
  <2>5. CASE UNCHANGED vars
    BY <2>5 DEF vars, StopProtects
  <2>6. CASE Next /\ ~Protect /\ ~SendDone /\ ~UserEdits /\ ~LateExecution /\ \A path \in StopPaths : ~Modify(path)
    <3>1. pass' = pass
      BY <2>6, QuietStep DEF Idle
    <3> QED
      BY <3>1 DEF StopProtects
  <2> QED
    BY <2>1, <2>2, <2>3, <2>4, <2>5, <2>6
<1>3. TypeOK /\ RequestInv /\ StopProtects /\ [Next]_vars => (TypeOK /\ RequestInv /\ StopProtects)'
  BY <1>2, TypeStep
<1> QED
  BY TypeInit, <1>1, <1>3, PTL DEF Spec

\* The trailing path asks for break-even at least, and asks unless the stop of
\* the snapshot is there already (run.py:4826).
LEMMA TrailSecures ==
    ASSUME NEW p \in Int, NEW s \in Int, p >= TrailAt
    PROVE  /\ \A n \in Wanted("trail", p, s) : n >= Buffer
           /\ Wanted("trail", p, s) = {} => s >= Buffer
<1> DEFINE n == Larger(p - TrailDistance(p), Buffer)
<1>1. Wanted("trail", p, s) = {m \in {n} : StepOk(s, m)}
  BY DEF Wanted, Trail
<1>2. n \in Int /\ n >= Buffer
  BY StopAssumption DEF Larger, TrailDistance
<1>3. s < Buffer => StepOk(s, n)
  BY <1>2, StopAssumption DEF StepOk, IsTighter
<1> QED
  BY <1>1, <1>2, <1>3, StopAssumption

\* A clean pass keeps the stop at the snapshot's or better, and past the trailing
\* path at break-even or better.
LEMMA SecureStep ==
    TypeOK /\ RequestInv /\ SecureInv /\ [Next]_vars => SecureInv'
<1> SUFFICES ASSUME TypeOK, RequestInv, SecureInv, [Next]_vars,
                    pass'.pc # "idle", pos'.open, pass'.clean
             PROVE  /\ pos'.sl >= pass'.snap.sl
                    /\ pass'.pc = "send" /\ pass'.path # "protect" => pass'.sl > pos'.sl
                    /\ pass'.pc = "send" /\ pass'.path = "trail" => pass'.sl >= Buffer
                    /\ pass'.pc \in {"cut1", "cut2"} /\ pass'.price >= TrailAt => pos'.sl >= Buffer
  BY DEF SecureInv
<1>0. pos \in Position /\ pass \in {Idle} \union Passes /\ Buffer \in Int
  BY StopAssumption DEF TypeOK, Passes
<1>1. ASSUME NEW path \in StopPaths, Modify(path)
      PROVE  /\ pos'.sl >= pass'.snap.sl
             /\ pass'.pc = "send" /\ pass'.path # "protect" => pass'.sl > pos'.sl
             /\ pass'.pc = "send" /\ pass'.path = "trail" => pass'.sl >= Buffer
             /\ pass'.pc \in {"cut1", "cut2"} /\ pass'.price >= TrailAt => pos'.sl >= Buffer
  <2>1. /\ pass.pc = path /\ path # "idle" /\ pos' = pos /\ pass \in Passes
    BY <1>1, ModifyPass DEF StopPaths
  <2>2. /\ pass'.snap = pass.snap /\ pass'.price = pass.price /\ pass'.pc # "cut2"
        /\ \/ /\ pass'.pc = "send" /\ pass'.path = path
              /\ pass'.sl \in Wanted(path, pass.price, pass.snap.sl)
              /\ pass'.ground = "live" => pos.open /\ pass'.sl > pos.sl
              /\ pass'.clean => pass.clean /\ pass'.ground = "live"
           \/ /\ pass'.pc # "send" /\ (pass'.pc = "cut1" <=> path = "trail")
              /\ pass'.clean => pass.clean
              /\ pass'.clean => \/ pos.open /\ \E n \in Wanted(path, pass.price, pass.snap.sl) : pos.sl >= n
                                \/ Wanted(path, pass.price, pass.snap.sl) = {} \/ Optional(path)
    BY <1>1, ModifyResult DEF Idle
  <2>3. pass.clean /\ pos.sl >= pass.snap.sl
    BY <2>1, <2>2 DEF SecureInv
  <2>4. pass.price \in Int /\ pass.snap.sl \in Int /\ pos.sl \in Int /\ TrailAt \in Int
    <3>1. pass.price \in Prices /\ pass.snap \in Position
      BY <2>1 DEF Passes
    <3> QED
      BY <1>0, <3>1, Settings DEF Position
  <2>5. CASE pass'.pc = "send"
    <3>1. path = "trail" => pass'.sl >= Buffer
      <4>1. ASSUME path = "trail" PROVE pass.price >= TrailAt
        BY <2>2, <2>5, <4>1 DEF Wanted, Trail
      <4> QED
        BY <2>2, <2>4, <2>5, <4>1, TrailSecures
    <3> QED
      BY <2>1, <2>2, <2>3, <2>5, <3>1
  <2>6. CASE pass'.pc # "send"
    <3>1. ASSUME path = "trail", pass.price >= TrailAt PROVE pos.sl >= Buffer
      <4>1. ~Optional("trail")
        BY DEF Optional
      <4>2. CASE Wanted("trail", pass.price, pass.snap.sl) = {}
        <5>1. pass.snap.sl >= Buffer
          BY <2>4, <3>1, <4>2, TrailSecures
        <5> QED
          BY <1>0, <2>3, <2>4, <5>1
      <4>3. CASE \E n \in Wanted("trail", pass.price, pass.snap.sl) : pos.sl >= n
        <5>1. PICK n \in Wanted("trail", pass.price, pass.snap.sl) : pos.sl >= n
          BY <4>3
        <5>2. n \in Int
          BY <2>4, WantedBelowPrice DEF StopPaths
        <5>3. n >= Buffer
          BY <2>4, <3>1, TrailSecures
        <5> QED
          BY <1>0, <2>4, <5>1, <5>2, <5>3
      <4> QED
        BY <2>2, <2>6, <3>1, <4>1, <4>2, <4>3
    <3> QED
      BY <2>1, <2>2, <2>3, <2>6, <3>1
  <2> QED
    BY <2>5, <2>6
<1>2. CASE Protect
  <2>1. /\ pos' = pos /\ pass.pc = "protect" /\ pass'.snap = pass.snap
        /\ pass'.clean = pass.clean /\ pass'.pc \in {"send", "intel", "exit"}
        /\ pass'.pc = "send" => pass'.path = "protect"
    <3>1. pass' # Idle
      BY DEF Idle
    <3> QED
      BY <1>2, <3>1, ProtectResult, Zenon
  <2> QED
    BY <2>1 DEF SecureInv
<1>3. CASE SendDone
  <2>1. /\ pass.pc = "send" /\ pos.open /\ pass \in Passes /\ pos'.sl = pass.sl
        /\ pass'.pc \notin {"idle", "send", "cut2"}
        /\ pass'.snap = pass.snap /\ pass'.price = pass.price
        /\ pass'.pc = "cut1" <=> pass.path = "trail"
        /\ pass.clean /\ pass.path # "protect"
    BY <1>3, SendDoneResult DEF Idle
  <2>2. /\ pass.sl > pos.sl /\ pos.sl >= pass.snap.sl
        /\ pass.path = "trail" => pass.sl >= Buffer
    BY <2>1 DEF SecureInv
  <2>3. pass.sl \in Int /\ pos.sl \in Int /\ pass.snap.sl \in Int
    BY <1>0, <2>1 DEF Passes, Position
  <2> QED
    BY <2>1, <2>2, <2>3
<1>4. CASE UserEdits \/ LateExecution
  BY <1>4, DisturbedResult DEF UserEdits, LateExecution
<1>5. CASE UNCHANGED vars
  BY <1>5 DEF vars, SecureInv
<1>6. CASE Next /\ ~Protect /\ ~SendDone /\ ~UserEdits /\ ~LateExecution /\ \A path \in StopPaths : ~Modify(path)
  <2>1. CASE pass' = pass
    BY <1>6, <2>1, QuietStep DEF SecureInv
  <2>2. CASE pass' # pass
    BY <1>0, <1>6, <2>2, QuietStep DEF SecureInv, Idle, Position
  <2> QED
    BY <2>1, <2>2
<1> QED
  BY <1>1, <1>2, <1>3, <1>4, <1>5, <1>6

\* "Once trailing activates, trade can NEVER turn into a loss" (run.py:4826): in
\* every behaviour a pass all of whose requests were accepted, without interference,
\* leaves a trade past the threshold with its stop at break-even or better.
THEOREM WinnersSecured == Spec => []WinnerIsSecured
<1>1. Init => SecureInv
  BY DEF Init, SecureInv, Idle
<1>2. TypeOK /\ RequestInv /\ SecureInv /\ [Next]_vars => (TypeOK /\ RequestInv /\ SecureInv)'
  BY TypeStep, SecureStep
<1>3. SecureInv => WinnerIsSecured
  BY DEF SecureInv, WinnerIsSecured
<1> QED
  BY TypeInit, <1>1, <1>2, <1>3, PTL DEF Spec

---------------------------------------------------------------------------
(* Scaling out *)

\* Without a partial close, executed late or now, the volume stays, and so do the
\* stages of an open position unless a restart is on record.
LEMMA NoDealStep ==
    ASSUME TypeOK, RequestInv, Next, \A r \in limbo : r.cut = 0,
           \A stage \in Stages : ~CutDone(stage) /\ ~CutLost(stage) /\ ~CutNot(stage)
    PROVE  /\ pos'.lots = pos.lots /\ (pos'.open => pos.open)
           /\ doubt \subseteq doubt' /\ (\A r \in limbo' : r.cut = 0)
           /\ pos'.open => book'.stages = book.stages \/ doubt' # {}
           /\ \/ pass' = Idle
              \/ /\ pass'.pc # "idle"
                 /\ \/ pass.pc = "idle" /\ pass'.snap = pos /\ pass'.pc # "cut2"
                    \/ /\ pass.pc # "idle" /\ pass'.snap = pass.snap
                       /\ pass'.pc = "cut2" <=> pass.pc = "cut2"
<1>0. pos \in Position /\ pass \in {Idle} \union Passes /\ book \in [stages : SUBSET Stages, failed : BOOLEAN]
  BY DEF TypeOK, Passes
<1>1. ASSUME NEW yes \in BOOLEAN, Failed(yes) PROVE book'.stages = book.stages
  BY <1>0, <1>1 DEF Failed
<1>2. ASSUME NEW pc \in {"exit", "protect", "ratchet"}, Begin(pc)
      PROVE  /\ UNCHANGED <<pos, book, limbo, doubt>> /\ pass'.pc # "idle"
             /\ pass.pc = "idle" /\ pass'.snap = pos /\ pass'.pc # "cut2"
  BY <1>2 DEF Begin
<1>3. CASE BeginPass
  BY <1>2, <1>3 DEF BeginPass
<1>4. CASE BeginRatchet
  BY <1>2, <1>4 DEF BeginRatchet
<1>5. CASE Protect
  <2>1. UNCHANGED <<pos, book, limbo, doubt>> /\ pass.pc = "protect"
    BY <1>5 DEF Protect
  <2>2. \/ pass' = Idle
        \/ /\ pass'.snap = pass.snap
           /\ pass'.pc = "send" \/ pass'.pc \in {"intel", "exit"}
    BY <1>5, ProtectResult, Zenon
  <2> QED
    BY <2>1, <2>2
<1>6. CASE Exit
  <2>1. UNCHANGED <<limbo, doubt>> /\ pass.pc \in {"exit", "lateExit"}
    BY <1>6 DEF Exit
  <2>2. pos'.lots = pos.lots /\ (pos'.open => pos.open /\ book' = book)
    BY <1>0, <1>6, ExitResult DEF Position
  <2>3. \/ pass' = Idle
        \/ pass'.pc \notin {"idle", "cut2"} /\ pass'.snap = pass.snap
    BY <1>6, ExitResult
  <2> QED
    BY <2>1, <2>2, <2>3
<1>7. CASE \E path \in StopPaths : Modify(path)
  <2>1. PICK path \in StopPaths : Modify(path)
    BY <1>7
  <2>2. UNCHANGED <<pos, book, limbo, doubt>> /\ pass.pc \notin {"idle", "cut2"}
    BY <2>1, ModifyPass DEF StopPaths
  <2>3. \/ pass' = Idle
        \/ pass'.pc \notin {"idle", "cut2"} /\ pass'.snap = pass.snap
    BY <2>1, ModifyResult
  <2> QED
    BY <2>2, <2>3
<1>8. CASE SendDone
  <2>1. UNCHANGED <<limbo, doubt>> /\ book'.stages = book.stages
    BY <1>1, <1>8 DEF SendDone
  <2> QED
    BY <1>8, <2>1, SendDoneResult
<1>9. CASE SendRefused \/ SendLost
  <2>1. /\ pos' = pos /\ doubt' = doubt /\ book'.stages = book.stages /\ pass.pc = "send"
        /\ NextAfterSend(FALSE)
    BY <1>1, <1>9 DEF SendRefused, SendLost
  <2>2. \A r \in limbo' : r.cut = 0
    <3>1. CASE SendRefused
      BY <3>1 DEF SendRefused
    <3>2. CASE SendLost
      <4>1. limbo' = limbo \union {[cut |-> 0, sl |-> pass.sl, tp |-> pass.tp]}
        BY <3>2 DEF SendLost
      <4> QED
        BY <4>1
    <3> QED
      BY <1>9, <3>1, <3>2
  <2>3. \/ pass' = Idle
        \/ pass'.pc \notin {"idle", "cut2"} /\ pass'.snap = pass.snap
    BY <2>1, AnswerResult DEF RequestInv
  <2> QED
    BY <2>1, <2>2, <2>3
<1>10. \/ Disturbed = Idle
       \/ Disturbed.pc = pass.pc /\ pass.pc # "idle" /\ Disturbed.snap = pass.snap
  BY <1>0, DisturbedResult DEF Disturbed, Passes, Places, StopPaths, Idle
<1>11. CASE UserEdits
  <2>1. pos'.lots = pos.lots /\ pos'.open = pos.open
    BY <1>0, <1>11 DEF UserEdits, Position
  <2> QED
    BY <1>10, <1>11, <2>1 DEF UserEdits
<1>12. CASE Closes
  <2>1. pos'.lots = pos.lots /\ ~pos'.open
    BY <1>0, <1>12 DEF Closes, Position
  <2>2. pass' = Idle \/ (pass' = pass /\ pass.pc # "idle")
    BY <1>0, <1>12 DEF Closes, Passes, Places, StopPaths
  <2> QED
    BY <1>12, <2>1, <2>2 DEF Closes
<1>13. CASE LateExecution
  <2>1. PICK r \in limbo : /\ limbo' = limbo \ {r}
                           /\ IF r.cut > 0 THEN CutBy(r.cut) /\ UNCHANGED mover
                              ELSE pos' = [pos EXCEPT !.sl = r.sl, !.tp = r.tp] /\ mover' = "late"
    BY <1>13 DEF LateExecution
  <2>2. pos' = [pos EXCEPT !.sl = r.sl, !.tp = r.tp]
    BY <2>1
  <2>3. pos'.lots = pos.lots /\ pos'.open = pos.open
    BY <1>0, <2>2 DEF Position
  <2> QED
    BY <1>10, <1>13, <2>1, <2>3 DEF LateExecution
<1>14. CASE Restart
  BY <1>14 DEF Restart
<1> QED
  BY <1>3, <1>4, <1>5, <1>6, <1>7, <1>8, <1>9, <1>11, <1>12, <1>13, <1>14 DEF Next, Managing

\* A step of the partial closes: both parts are tradeable, the position is at its
\* stage, and a done deal takes the share of the volume of the pass's start.
LEMMA CutResult ==
    ASSUME TypeOK, NEW stage \in Stages, CutDone(stage) \/ CutNot(stage)
    PROVE  /\ pass \in Passes /\ pass.pc = CutPc(stage) /\ pass.snap.lots \in Nat /\ pos.lots \in Nat
           /\ limbo' = limbo /\ doubt' = doubt /\ (pos'.open => pos.open)
           /\ IF stage = 1 THEN pass'.pc = "cut2" /\ pass'.snap = pass.snap ELSE pass' = Idle
           /\ \/ pos' = pos /\ book' = book
              \/ LET share == Share(stage, pass.snap.lots) IN
                 /\ stage \notin book.stages /\ book'.stages = book.stages \union {stage} /\ pos.open
                 /\ share >= MinLot /\ pass.snap.lots - share >= MinLot
                 /\ pos'.lots = IF share < pos.lots THEN pos.lots - share ELSE 0
<1>1. pass.pc = CutPc(stage) /\ pass' = AfterCut(stage) /\ limbo' = limbo /\ doubt' = doubt
  BY DEF CutDone, CutNot
<1>2. pass \in Passes
  BY <1>1 DEF TypeOK, Passes, CutPc, Idle
<1>3. pass.snap.lots \in Nat /\ pos.lots \in Nat
  BY <1>2 DEF TypeOK, Passes, Position
<1>4. IF stage = 1 THEN pass'.pc = "cut2" /\ pass'.snap = pass.snap ELSE pass' = Idle
  BY <1>1, <1>2 DEF AfterCut, Passes
<1>5. CASE CutNot(stage)
  BY <1>1, <1>2, <1>3, <1>4, <1>5 DEF CutNot
<1>6. CASE CutDone(stage)
  <2>1. Share(stage, pass.snap.lots) \in Nat
    BY <1>3, ShareBounds DEF Stages
  <2>2. /\ pos'.open => pos.open
        /\ pos'.lots = IF Share(stage, pass.snap.lots) < pos.lots
                       THEN pos.lots - Share(stage, pass.snap.lots) ELSE 0
    BY <1>6, <2>1, CutByResult DEF CutDone
  <2>3. book'.stages = book.stages \union {stage}
    BY <1>6 DEF CutDone, TypeOK
  <2>4. /\ stage \notin book.stages /\ pos.open
        /\ Share(stage, pass.snap.lots) >= MinLot
        /\ pass.snap.lots - Share(stage, pass.snap.lots) >= MinLot
    BY <1>6 DEF CutDone, CutDue
  <2> QED
    BY <1>1, <1>2, <1>3, <1>4, <2>2, <2>3, <2>4
<1> QED
  BY <1>5, <1>6

\* What the second stage leaves is at least what it takes, so both are tradeable
\* (run.py:4865).
LEMMA RemainderStep ==
    TypeOK /\ RequestInv /\ RemainderInv /\ [Next]_vars => RemainderInv'
<1> SUFFICES ASSUME TypeOK, RequestInv, RemainderInv, [Next]_vars, "lost" \notin doubt'
             PROVE  /\ \A r \in limbo' : r.cut = 0
                    /\ pos'.lots >= MinLot
                    /\ pass'.pc \notin {"idle", "cut2"} => pos'.lots = pass'.snap.lots
                    /\ pass'.pc = "cut2" => pos'.lots >= pass'.snap.lots - Share(1, pass'.snap.lots)
  BY DEF RemainderInv
<1>1. CASE UNCHANGED vars
  BY <1>1 DEF vars, RemainderInv
<1>2. ASSUME NEW stage \in Stages, CutLost(stage) PROVE FALSE
  BY <1>2 DEF CutLost
<1>3. ASSUME NEW stage \in Stages, CutDone(stage) \/ CutNot(stage)
      PROVE  /\ \A r \in limbo' : r.cut = 0
             /\ pos'.lots >= MinLot
             /\ pass'.pc \notin {"idle", "cut2"} => pos'.lots = pass'.snap.lots
             /\ pass'.pc = "cut2" => pos'.lots >= pass'.snap.lots - Share(1, pass'.snap.lots)
  <2> DEFINE v == pass.snap.lots
  <2>1. "lost" \notin doubt /\ v \in Nat /\ pos.lots \in Nat
    BY <1>3, CutResult
  <2>2. /\ Share(1, v) \in Nat /\ Share(2, v) \in Nat
        /\ v - Share(1, v) - Share(2, v) >= Share(2, v)
    BY <2>1, ShareBounds
  <2>3. CASE stage = 1
    <3>1. pass.pc = "cut1" /\ pos.lots = v /\ pos.lots >= MinLot /\ pass'.pc = "cut2" /\ pass'.snap = pass.snap
      BY <1>3, <2>1, <2>3, CutResult DEF CutPc, RemainderInv
    <3>2. \/ pos' = pos
          \/ /\ v - Share(1, v) >= MinLot
             /\ pos'.lots = IF Share(1, v) < pos.lots THEN pos.lots - Share(1, v) ELSE 0
      BY <1>3, <2>3, CutResult
    <3>3. pos'.lots >= v - Share(1, v) /\ pos'.lots >= MinLot
      BY <2>1, <2>2, <3>1, <3>2, Settings
    <3> QED
      BY <1>3, <2>1, <3>1, <3>3, CutResult DEF RemainderInv
  <2>4. CASE stage = 2
    <3>1. pass.pc = "cut2" /\ pos.lots >= v - Share(1, v) /\ pos.lots >= MinLot /\ pass' = Idle
      BY <1>3, <2>1, <2>4, CutResult DEF CutPc, RemainderInv
    <3>2. \/ pos' = pos
          \/ /\ Share(2, v) >= MinLot
             /\ pos'.lots = IF Share(2, v) < pos.lots THEN pos.lots - Share(2, v) ELSE 0
      BY <1>3, <2>4, CutResult
    <3>3. pos'.lots >= MinLot
      BY <2>1, <2>2, <3>1, <3>2, Settings
    <3> QED
      BY <1>3, <2>1, <3>1, <3>3, CutResult DEF RemainderInv, Idle
  <2> QED
    BY <2>3, <2>4 DEF Stages
<1>4. CASE Next /\ \A stage \in Stages : ~CutDone(stage) /\ ~CutLost(stage) /\ ~CutNot(stage)
  <2>1. doubt \subseteq doubt'
    BY <1>4 DEF Next, Managing, BeginPass, BeginRatchet, Begin, Protect, Exit, Modify, SendDone,
                SendRefused, SendLost, UserEdits, Closes, LateExecution, Restart
  <2>2. /\ \A r \in limbo : r.cut = 0
        /\ pos.lots >= MinLot
        /\ pass.pc \notin {"idle", "cut2"} => pos.lots = pass.snap.lots
        /\ pass.pc = "cut2" => pos.lots >= pass.snap.lots - Share(1, pass.snap.lots)
    BY <2>1 DEF RemainderInv
  <2>3. pos.lots \in Nat
    BY DEF TypeOK, Position
  <2> QED
    BY <1>4, <2>2, <2>3, NoDealStep DEF Idle
<1> QED
  BY <1>1, <1>2, <1>3, <1>4

\* In every behaviour in which no partial close stayed unanswered, also across
\* restarts that forget the stages, what is left of a position can be traded,
\* whatever the volume and the smallest lot (run.py:4857, :4865).
THEOREM RemainderTradeable == Spec => []RemainderIsTradeable
<1>1. Init => RemainderInv
  BY Settings DEF Init, RemainderInv, Idle
<1>2. TypeOK /\ RequestInv /\ RemainderInv /\ [Next]_vars => (TypeOK /\ RequestInv /\ RemainderInv)'
  BY TypeStep, RemainderStep
<1>3. RemainderInv => RemainderIsTradeable
  BY DEF RemainderInv, RemainderIsTradeable
<1> QED
  BY TypeInit, <1>1, <1>2, <1>3, PTL DEF Spec

\* Each stage is taken once, from a volume that is never above the first
\* (run.py:4852).
LEMMA ScaleStep ==
    TypeOK /\ RequestInv /\ ScaleInv /\ [Next]_vars => ScaleInv'
<1> DEFINE A == Share(1, Lots)
           B == Share(2, Lots)
<1> SUFFICES ASSUME TypeOK, RequestInv, ScaleInv, [Next]_vars, doubt' = {}
             PROVE  /\ \A r \in limbo' : r.cut = 0
                    /\ pos'.lots <= Lots
                    /\ pass'.pc # "idle" => pass'.snap.lots <= Lots
                    /\ pos'.lots >= Lots - A - B
                    /\ pos'.open /\ 1 \notin book'.stages => pos'.lots >= Lots - B
                    /\ pos'.open /\ 2 \notin book'.stages => pos'.lots >= Lots - A
                    /\ pos'.open /\ book'.stages = {} => pos'.lots >= Lots
  BY DEF ScaleInv
<1>0. A \in Nat /\ B \in Nat /\ Lots \in Nat /\ pos.lots \in Nat /\ Lots - A - B >= B
  BY Settings, ShareBounds DEF TypeOK, Position
<1> HIDE DEF A, B
<1>1. ASSUME doubt = {}
      PROVE  /\ \A r \in limbo : r.cut = 0
             /\ pos.lots <= Lots
             /\ pass.pc # "idle" => pass.snap.lots <= Lots
             /\ pos.lots >= Lots - A - B
             /\ pos.open /\ 1 \notin book.stages => pos.lots >= Lots - B
             /\ pos.open /\ 2 \notin book.stages => pos.lots >= Lots - A
             /\ pos.open /\ book.stages = {} => pos.lots >= Lots
  BY <1>1 DEF ScaleInv, A, B
<1>2. CASE UNCHANGED vars
  <2>1. UNCHANGED <<limbo, pos, pass, book, doubt>>
    BY <1>2 DEF vars
  <2> QED
    BY <1>1, <2>1
<1>3. ASSUME NEW stage \in Stages, CutLost(stage) PROVE FALSE
  BY <1>3 DEF CutLost
<1>4. ASSUME NEW stage \in Stages, CutDone(stage) \/ CutNot(stage)
      PROVE  /\ \A r \in limbo' : r.cut = 0
             /\ pos'.lots <= Lots
             /\ pass'.pc # "idle" => pass'.snap.lots <= Lots
             /\ pos'.lots >= Lots - A - B
             /\ pos'.open /\ 1 \notin book'.stages => pos'.lots >= Lots - B
             /\ pos'.open /\ 2 \notin book'.stages => pos'.lots >= Lots - A
             /\ pos'.open /\ book'.stages = {} => pos'.lots >= Lots
  <2> DEFINE v == pass.snap.lots
             share == Share(stage, v)
  <2>1. doubt = {} /\ limbo' = limbo /\ v \in Nat /\ (pos'.open => pos.open)
    BY <1>4, CutResult
  <2>2. pass.pc # "idle"
    BY <1>4, CutResult DEF CutPc
  <2>3. v <= Lots
    BY <1>1, <2>1, <2>2
  <2>4. pass'.pc # "idle" => pass'.snap.lots <= Lots
    BY <1>4, <2>3, CutResult DEF Idle
  <2>5. share \in Nat /\ share <= IF stage = 1 THEN A ELSE B
    BY <2>1, <2>3, Settings, ShareBounds DEF Stages, A, B
  <2>6. CASE pos' = pos /\ book' = book
    BY <1>1, <2>1, <2>4, <2>6
  <2>7. CASE /\ stage \notin book.stages /\ book'.stages = book.stages \union {stage} /\ pos.open
             /\ pos'.lots = IF share < pos.lots THEN pos.lots - share ELSE 0
    <3> HIDE DEF v, share
    <3>1. stage = 1 => pos.lots >= Lots - B /\ (2 \notin book.stages => pos.lots >= Lots)
      BY <1>1, <2>1, <2>7, <1>0 DEF TypeOK, Stages
    <3>2. stage = 2 => pos.lots >= Lots - A /\ (1 \notin book.stages => pos.lots >= Lots)
      BY <1>1, <2>1, <2>7, <1>0 DEF TypeOK, Stages
    <3>3. pos'.lots >= Lots - A - B /\ pos'.lots <= Lots
      BY <1>0, <1>1, <2>1, <2>5, <2>7, <3>1, <3>2 DEF Stages
    <3>4. stage = 1 => (2 \notin book.stages => pos'.lots >= Lots - A)
      BY <1>0, <1>1, <2>1, <2>5, <2>7, <3>1
    <3>5. stage = 2 => (1 \notin book.stages => pos'.lots >= Lots - B)
      BY <1>0, <1>1, <2>1, <2>5, <2>7, <3>2
    <3> QED
      BY <1>1, <2>1, <2>4, <2>7, <3>3, <3>4, <3>5 DEF Stages
  <2> QED
    BY <1>4, <2>6, <2>7, CutResult
<1>5. CASE Next /\ \A stage \in Stages : ~CutDone(stage) /\ ~CutLost(stage) /\ ~CutNot(stage)
  <2>1. doubt = {}
    BY <1>5 DEF Next, Managing, BeginPass, BeginRatchet, Begin, Protect, Exit, Modify, SendDone,
                SendRefused, SendLost, UserEdits, Closes, LateExecution, Restart
  <2> QED
    BY <1>0, <1>1, <1>5, <2>1, NoDealStep DEF Idle
<1> QED
  BY <1>2, <1>3, <1>4, <1>5

\* In every behaviour without a lost or forgotten partial close, scaling out takes
\* at most half of the position and a quarter of it, whatever is refused and in
\* whichever order the stages succeed (run.py:4852).
THEOREM ScaleOutBounded == Spec => []ScaleOutIsBounded
<1>1. Init => ScaleInv
  <2> SUFFICES ASSUME Init PROVE ScaleInv
    OBVIOUS
  <2>1. pos.lots = Lots /\ pass = Idle /\ limbo = {}
    BY DEF Init
  <2>2. Share(1, Lots) \in Nat /\ Share(2, Lots) \in Nat
    BY Settings, ShareBounds
  <2> QED
    BY <2>1, <2>2, Settings DEF ScaleInv, Idle
<1>2. TypeOK /\ RequestInv /\ ScaleInv /\ [Next]_vars => (TypeOK /\ RequestInv /\ ScaleInv)'
  BY TypeStep, ScaleStep
<1>3. ScaleInv => ScaleOutIsBounded
  BY DEF ScaleInv, ScaleOutIsBounded
<1> QED
  BY TypeInit, <1>1, <1>2, <1>3, PTL DEF Spec
=============================================================================
