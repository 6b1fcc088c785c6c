-------------------------- MODULE Services_proofs --------------------------
(***************************************************************************)
(* Proofs about the services around the bots: helper processes and the     *)
(* broker link, the bridge's order keys, the network's predictor, the      *)
(* ensemble's artefact and the saved settings.  They share no state, so    *)
(* each has an invariant of its own; the theorems stand at the end.        *)
(***************************************************************************)
EXTENDS Services, TLAPS

-----------------------------------------------------------------------------
(* A step of the composition is a step of each component, or leaves it.    *)

LEMMA ProcessStep ==
    [Next]_vars => Processes!HelpersNext \/ Processes!LinkNext \/ UNCHANGED processVars
  BY DEF Next, vars, Others, processVars

LEMMA BridgeStep == [Next]_vars => [Http!Next]_bridgeVars
  BY DEF Next, vars, Others, bridgeVars

LEMMA EnsembleStep == [Next]_vars => [Ensemble!Next]_ensembleVars
  BY DEF Next, vars, Others, ensembleVars

LEMMA SettingsStep == [Next]_vars => [Settings!Next]_configVars
  BY DEF Next, vars, Others, configVars

LEMMA NeuralStep == [Next]_vars => [Neural!Next]_neuralVars
  BY DEF Next, vars, Others, neuralVars

-----------------------------------------------------------------------------
(* The bridge.                                                             *)

Ages == 0..Http!Forgotten
Steps == Http!Kinds \cup {"new", "checked", "admitted", "valid", "done"}
Answers == {"none", "200", "400", "401", "403", "404", "409", "422", "501", "503", "ready",
            "not ready", "valid", "invalid", "filled", "rejected", "unknown", "lost"}
Requested == [step : Steps, answer : Answers, age : Ages, life : Nat]

BridgeTypes ==
    /\ login \in Logins \cup {"none"} /\ life \in 1..MaxLives
    /\ cache \in [Http!RequestKeys -> Ages]
    /\ req \in [Requests -> Requested]

(* A request admitted by this process is no younger than the entry of its  *)
(* key: the two age together, and a later admission only renews the entry. *)
Tracked ==
    \A r \in Requests : /\ req[r].life <= life
                        /\ req[r].life = life => cache[KeyOf(r)] <= req[r].age

BridgeInv == BridgeTypes /\ Tracked /\ Http!OneOrderPerWindow

LEMMA BridgeConstants ==
    Ttl \in Nat /\ MaxLives \in Nat \ {0} /\ \A r \in Requests : KindsOf(r) \subseteq Http!Kinds
  BY ServicesAssumption DEF ServicesAssumption, Http!BridgeAssumption

LEMMA AgesOfEntries ==
    /\ 0 \in Ages /\ Http!Forgotten \in Ages
    /\ \A n \in Ages : n \in Int /\ 0 <= n /\ (n <= Ttl => n + 1 \in Ages)
  BY BridgeConstants DEF Ages, Http!Forgotten

LEMMA KeysOfRequests == \A r \in Requests : KeyOf(r) \in Http!RequestKeys
  BY DEF Http!RequestKeys

LEMMA BridgeInit == Http!Init => BridgeInv
<1> SUFFICES ASSUME Http!Init PROVE BridgeInv
  OBVIOUS
<1>1. /\ req = [r \in Requests |-> [step |-> "new", answer |-> "none", age |-> 0, life |-> 0]]
      /\ cache = [k \in Http!RequestKeys |-> Http!Forgotten] /\ life = 1
      /\ login \in Logins \cup {"none"}
  BY DEF Http!Init
<1>2. [step |-> "new", answer |-> "none", age |-> 0, life |-> 0] \in Requested
  BY AgesOfEntries DEF Requested, Steps, Answers
<1>3. BridgeTypes
  BY <1>1, <1>2, AgesOfEntries, BridgeConstants DEF BridgeTypes
<1>4. Tracked /\ Http!OneOrderPerWindow
  BY <1>1 DEF Tracked, Http!OneOrderPerWindow
<1> QED BY <1>3, <1>4 DEF BridgeInv

(* Moving a request on, or answering it, leaves its age and life alone.    *)
LEMMA BridgeProgress ==
  ASSUME BridgeInv, NEW r \in Requests, NEW step \in Steps, NEW answer \in Answers,
         req' = [req EXCEPT ![r] = [@ EXCEPT !.step = step, !.answer = answer]],
         UNCHANGED <<login, cache, life>>
  PROVE  BridgeInv'
<1>1. BridgeTypes'
  BY DEF BridgeInv, BridgeTypes, Requested
<1>2. \A q \in Requests : req'[q].age = req[q].age /\ req'[q].life = req[q].life
  BY DEF BridgeInv, BridgeTypes, Requested
<1> QED BY <1>1, <1>2 DEF BridgeInv, Tracked, Http!OneOrderPerWindow

LEMMA BridgeAdmit ==
  ASSUME BridgeInv, NEW r \in Requests, Http!Admit(r)
  PROVE  BridgeInv'
<1>1. CASE cache[KeyOf(r)] <= Ttl
  <2>1. req' = [req EXCEPT ![r] = [@ EXCEPT !.step = "done", !.answer = "409"]]
        /\ UNCHANGED <<login, cache, life>>
    BY <1>1 DEF Http!Admit, Http!Answer
  <2> QED BY <2>1, BridgeProgress DEF Steps, Answers
<1>2. CASE ~(cache[KeyOf(r)] <= Ttl)
  <2>1. /\ cache' = [cache EXCEPT ![KeyOf(r)] = 0] /\ UNCHANGED <<account, login, life>>
        /\ req' = [req EXCEPT ![r] = [@ EXCEPT !.step = "admitted", !.age = 0, !.life = life]]
    BY <1>2 DEF Http!Admit
  <2>2. life \in Nat
    BY BridgeConstants DEF BridgeInv, BridgeTypes
  <2>3. BridgeTypes'
    BY <2>1, <2>2, AgesOfEntries DEF BridgeInv, BridgeTypes, Requested, Steps
  <2>4. \A q \in Requests : req[q].age \in Int /\ req[q].life \in Nat /\ 0 <= req[q].age
                            /\ cache[KeyOf(q)] \in Int
    BY AgesOfEntries, KeysOfRequests DEF BridgeInv, BridgeTypes, Requested
  <2>5. \A q \in Requests : q # r => req'[q] = req[q]
    BY <2>1 DEF BridgeInv, BridgeTypes
  <2>6. req'[r].age = 0 /\ req'[r].life = life
    BY <2>1 DEF BridgeInv, BridgeTypes, Requested
  <2>7. \A q \in Requests : cache'[KeyOf(q)] = IF KeyOf(q) = KeyOf(r) THEN 0 ELSE cache[KeyOf(q)]
    BY <2>1, KeysOfRequests DEF BridgeInv, BridgeTypes
  <2>8. Tracked'
    BY <2>1, <2>2, <2>4, <2>5, <2>6, <2>7 DEF BridgeInv, Tracked
  <2>9. \A q \in Requests : (q # r /\ KeyOf(q) = KeyOf(r) /\ req[q].life = life) => req[q].age > Ttl
    BY <1>2, <2>4, BridgeConstants DEF BridgeInv, Tracked
  <2>10. Http!OneOrderPerWindow'
    BY <2>5, <2>6, <2>9 DEF BridgeInv, Http!OneOrderPerWindow
  <2> QED BY <2>3, <2>8, <2>10 DEF BridgeInv
<1> QED BY <1>1, <1>2

LEMMA BridgeElapse ==
  ASSUME BridgeInv, Http!Elapse
  PROVE  BridgeInv'
<1> DEFINE Older(n) == IF n > Ttl THEN n ELSE n + 1
<1>1. /\ cache' = [k \in Http!RequestKeys |-> Older(cache[k])] /\ UNCHANGED <<account, login, life>>
      /\ req' = [r \in Requests |-> IF req[r].life = 0 THEN req[r]
                                    ELSE [req[r] EXCEPT !.age = Older(@)]]
  BY DEF Http!Elapse
<1>2. \A n \in Ages : Older(n) \in Ages /\ n <= Older(n)
  BY AgesOfEntries, BridgeConstants
<1>3. \A m, n \in Ages : m <= n => Older(m) <= Older(n)
  BY AgesOfEntries, BridgeConstants DEF Ages, Http!Forgotten
<1>4. life \in Nat \ {0} /\ \A r \in Requests : req[r] \in Requested /\ req[r].age \in Ages
                                               /\ cache[KeyOf(r)] \in Ages
  BY KeysOfRequests, BridgeConstants DEF BridgeInv, BridgeTypes, Requested
<1> HIDE DEF Older
<1>5. \A r \in Requests : req'[r] \in Requested
  BY <1>1, <1>2, <1>4 DEF Requested
<1>6. \A r \in Requests : /\ req'[r].life = req[r].life
                          /\ req'[r].age = IF req[r].life = 0 THEN req[r].age ELSE Older(req[r].age)
                          /\ cache'[KeyOf(r)] = Older(cache[KeyOf(r)])
  BY <1>1, <1>4, KeysOfRequests DEF Requested
<1>7. BridgeTypes'
  BY <1>1, <1>2, <1>5 DEF BridgeInv, BridgeTypes
<1>8. Tracked'
  BY <1>1, <1>3, <1>4, <1>6 DEF BridgeInv, Tracked
<1>9. \A n \in Ages : n > Ttl => Older(n) > Ttl
  BY AgesOfEntries DEF Older
<1>10. Http!OneOrderPerWindow'
  BY <1>4, <1>6, <1>9 DEF BridgeInv, Http!OneOrderPerWindow
<1> QED BY <1>7, <1>8, <1>10 DEF BridgeInv

(* No request of an earlier process has the new one's number.              *)
LEMMA BridgeRestart ==
  ASSUME BridgeInv, Http!Restart
  PROVE  BridgeInv'
<1>1. /\ life < MaxLives /\ life' = life + 1 /\ UNCHANGED <<account, login>>
      /\ cache' = [k \in Http!RequestKeys |-> Http!Forgotten]
      /\ req' = [r \in Requests |-> IF req[r].step \in {"new", "done"} THEN req[r]
                                    ELSE [req[r] EXCEPT !.step = "done", !.answer = "lost"]]
  BY DEF Http!Restart
<1>2. \A r \in Requests : req[r] \in Requested
  BY DEF BridgeInv, BridgeTypes
<1>3. \A r \in Requests : req'[r] \in Requested /\ req'[r].life = req[r].life /\ req'[r].age = req[r].age
  BY <1>1, <1>2 DEF Requested, Steps, Answers
<1>4. BridgeTypes'
  <2>1. life' \in 1..MaxLives
    <3>1. life \in 1..MaxLives /\ life < MaxLives /\ life' = life + 1
      BY <1>1 DEF BridgeInv, BridgeTypes
    <3> QED BY <3>1, BridgeConstants
  <2> QED BY <1>1, <1>3, <2>1, AgesOfEntries DEF BridgeInv, BridgeTypes
<1>5. Tracked'
  <2>1. \A r \in Requests : req[r].life \in Nat /\ req[r].life <= life /\ life \in Nat
    BY <1>2, BridgeConstants DEF BridgeInv, BridgeTypes, Requested, Tracked
  <2>2. \A r \in Requests : req'[r].life = req[r].life /\ life' = life + 1
    BY <1>1, <1>3
  <2> QED BY <2>1, <2>2 DEF Tracked
<1>6. Http!OneOrderPerWindow'
  BY <1>3 DEF BridgeInv, Http!OneOrderPerWindow
<1> QED BY <1>4, <1>5, <1>6 DEF BridgeInv

LEMMA BridgeInductive == BridgeInv /\ [Http!Next]_bridgeVars => BridgeInv'
<1> SUFFICES ASSUME BridgeInv, [Http!Next]_bridgeVars PROVE BridgeInv'
  OBVIOUS
<1>1. ASSUME NEW r \in Requests,
             \/ Http!Authenticate(r) \/ Http!Ready(r) \/ Http!ReadAccount(r) \/ Http!ReadQuote(r)
             \/ Http!ReadList(r) \/ Http!ValidateOnly(r) \/ Http!CheckWrite(r)
             \/ Http!ValidateOrder(r) \/ Http!SendOrder(r)
      PROVE  BridgeInv'
  <2>1. \A step \in Steps : Http!Move(r, step) =>
            req' = [req EXCEPT ![r] = [@ EXCEPT !.step = step, !.answer = req[r].answer]]
    BY DEF BridgeInv, BridgeTypes, Requested, Http!Move
  <2>2. req[r].answer \in Answers
    BY DEF BridgeInv, BridgeTypes, Requested
  <2>3. UNCHANGED <<login, cache, life>>
    BY <1>1 DEF Http!Authenticate, Http!Ready, Http!ReadAccount,
       Http!ReadQuote, Http!ReadList, Http!ValidateOnly, Http!CheckWrite, Http!ValidateOrder,
       Http!SendOrder
  <2>4. \/ \E step \in Steps : Http!Move(r, step)
        \/ \E answer \in Answers : Http!Answer(r, answer)
    BY <1>1, BridgeConstants DEF Http!Authenticate, Http!Ready, Http!ReadAccount,
       Http!ReadQuote, Http!ReadList, Http!ValidateOnly, Http!CheckWrite, Http!ChangePosition,
       Http!ValidateOrder, Http!SendOrder, Steps, Answers
  <2>5. CASE \E step \in Steps : Http!Move(r, step)
    <3>1. PICK step \in Steps : Http!Move(r, step)
      BY <2>5
    <3>2. PICK answer \in Answers :
            req' = [req EXCEPT ![r] = [@ EXCEPT !.step = step, !.answer = answer]]
      BY <2>1, <2>2, <3>1
    <3> QED BY <2>3, <3>2, BridgeProgress
  <2>6. CASE \E answer \in Answers : Http!Answer(r, answer)
    BY <2>3, <2>6, BridgeProgress DEF Http!Answer, Steps
  <2> QED BY <2>4, <2>5, <2>6
<1>2. CASE Http!SwitchAccount
  BY <1>2 DEF Http!SwitchAccount, BridgeInv, BridgeTypes, Tracked, Http!OneOrderPerWindow
<1>3. CASE UNCHANGED bridgeVars
  BY <1>3 DEF bridgeVars, BridgeInv, BridgeTypes, Tracked, Http!OneOrderPerWindow
<1> QED BY <1>1, <1>2, <1>3, BridgeAdmit, BridgeElapse, BridgeRestart DEF Http!Next

-----------------------------------------------------------------------------
(* The neural model.                                                       *)

CycleType ==
    /\ cycle.step \in {"resting", "fitting", "writing", "kept"}
    /\ cycle.step # "resting" => cycle.n \in 0..MaxBars

(* Between its stat and its load the predictor may only hold something     *)
(* other than the file if it is about to load it; after a prediction its   *)
(* signal is that of what it holds.                                        *)
NeuralInv ==
    /\ Neural!TypeOK /\ CycleType
    /\ (loading # "load" /\ ~changed) => predictor = artifact
    /\ Neural!PredictorIsCurrent

LEMMA NeuralConstants == MaxBars \in Nat /\ MinTrainBars \in Nat /\ MinTrainBars <= MaxBars
  BY ServicesAssumption DEF ServicesAssumption, Neural!NeuralAssumption

LEMMA NeuralInit == Neural!Init => NeuralInv
<1> SUFFICES ASSUME Neural!Init PROVE NeuralInv
  OBVIOUS
<1>1. /\ bars \in 0..MinTrainBars /\ history = 0 /\ lastEnd = 0 /\ cycle.step = "resting"
      /\ changed = TRUE /\ loaded = FALSE /\ loading = "no"
  BY DEF Neural!Init, Neural!Resting
<1>2. bars \in 0..MaxBars /\ {history, lastEnd} \subseteq 0..MaxBars
  BY <1>1, NeuralConstants
<1>3. Neural!TypeOK /\ CycleType
  BY <1>1, <1>2 DEF Neural!TypeOK, CycleType
<1> QED BY <1>1, <1>3 DEF NeuralInv, Neural!PredictorIsCurrent

LEMMA NeuralInductive == NeuralInv /\ [Neural!Next]_neuralVars => NeuralInv'
<1> SUFFICES ASSUME NeuralInv, [Neural!Next]_neuralVars PROVE NeuralInv'
  OBVIOUS
<1> USE DEF NeuralInv, Neural!TypeOK, CycleType, Neural!PredictorIsCurrent,
            Neural!trainerVars, Neural!predictorVars
<1>1. CASE Neural!BarCloses
  BY <1>1, NeuralConstants DEF Neural!BarCloses
<1>2. CASE Neural!BeginCycle
  BY <1>2 DEF Neural!BeginCycle
<1>3. CASE Neural!JudgeChallenger
  BY <1>3 DEF Neural!JudgeChallenger
<1>4. CASE Neural!CycleFails
  BY <1>4 DEF Neural!CycleFails, Neural!Resting
<1>5. CASE Neural!ReplaceModel
  BY <1>5 DEF Neural!ReplaceModel
<1>6. CASE Neural!FinishCycle
  BY <1>6 DEF Neural!FinishCycle, Neural!Resting
<1>7. CASE Neural!RestartTrainer
  BY <1>7, NeuralConstants DEF Neural!RestartTrainer, Neural!Resting
<1>8. CASE Neural!FileSpoiled
  BY <1>8 DEF Neural!FileSpoiled
<1>9. CASE Neural!CheckFile
  BY <1>9 DEF Neural!CheckFile
<1>10. CASE Neural!LoadAndPredict
  <2>1. /\ loading # "no" /\ loading' = "no" /\ UNCHANGED <<bars, changed, artifact, history, lastEnd, cycle>>
        /\ predictor' = IF loading = "load" THEN artifact ELSE predictor
        /\ loaded' \in IF loading = "load" THEN {FALSE, Neural!Sound(artifact)} ELSE {loaded}
        /\ signal' \in Neural!Signals(predictor', loaded')
    BY <1>10 DEF Neural!LoadAndPredict
  <2>2. loaded' \in BOOLEAN
    BY <2>1 DEF Neural!Sound
  <2>3. signal' # NoModel => loaded' /\ signal' = predictor' /\ signal'.oos >= MinEdge
    BY <2>1 DEF Neural!Signals
  <2>4. ~changed' => predictor' = artifact'
    BY <2>1
  <2> QED BY <2>1, <2>2, <2>3, <2>4
<1>11. CASE Neural!RestartBot
  BY <1>11 DEF Neural!RestartBot
<1>12. CASE Neural!CheckFails
  BY <1>12 DEF Neural!CheckFails
<1>13. CASE UNCHANGED neuralVars
  BY <1>13 DEF neuralVars
<1> QED BY <1>1, <1>2, <1>3, <1>4, <1>5, <1>6, <1>7, <1>8, <1>9, <1>10, <1>11, <1>12, <1>13
        DEF Neural!Next

-----------------------------------------------------------------------------
(* The tree model.                                                         *)

(* What is on record for a model is what was measured of its own pipeline. *)
OnRecord(model) == model.oos = model.pipeline.oos

(* A training under way: what it fitted has labels of the kind in use, what *)
(* it saves has its own record.                                            *)
FitOK(f) ==
    /\ f.step \in {"idle", "fitting", "passed", "installed", "saving"}
    /\ f.step = "passed" => f.pipeline.label = settings.label
    /\ f.step = "saving" /\ f.payload # NoModel => OnRecord(f.payload)

FitsOK == DOMAIN fit = Ensemble!Trainers /\ \A t \in Ensemble!Trainers : FitOK(fit[t])

(* The record goes with its pipeline through promotion, saving and         *)
(* restoring, and every pipeline that can become live was fitted, or was   *)
(* restored, on labels of the kind in use.                                 *)
EnsembleInv ==
    /\ Ensemble!TypeOK /\ FitsOK
    /\ live # NoModel => OnRecord(live) /\ live.pipeline.label = settings.label
    /\ file \notin {NoModel, Torn} => OnRecord(file)
    /\ Ensemble!VotesAreEarned

LEMMA EnsembleConstants == RetrainBars \in Nat \ {0} /\ 0 \in 0..RetrainBars
  BY ServicesAssumption DEF ServicesAssumption, Ensemble!EnsembleAssumption

LEMMA IdleOK == FitOK(Ensemble!Idle) /\ FitOK(Ensemble!Idle)'
  BY DEF FitOK, Ensemble!Idle

LEMMA EnsembleInit == Ensemble!Init => EnsembleInv
<1> SUFFICES ASSUME Ensemble!Init PROVE EnsembleInv
  OBVIOUS
<1>1. /\ settings \in Configs /\ live = NoModel /\ file = NoModel /\ vote = NoModel
      /\ fit = [t \in Ensemble!Trainers |-> Ensemble!Idle]
      /\ since = 0 /\ tried = FALSE /\ phase = "waiting"
  BY DEF Ensemble!Init
<1>2. FitsOK
  BY <1>1, IdleOK DEF FitsOK
<1>3. Ensemble!TypeOK
  <2>1. \A t \in Ensemble!Trainers : fit[t].step \in {"idle", "fitting", "passed", "installed", "saving"}
    BY <1>2 DEF FitsOK, FitOK
  <2> QED BY <1>1, <2>1, EnsembleConstants DEF Ensemble!TypeOK
<1> QED BY <1>1, <1>2, <1>3 DEF EnsembleInv, Ensemble!VotesAreEarned

(* One training moves on; the configuration stays.                         *)
LEMMA EnsembleFits ==
  ASSUME EnsembleInv, NEW t \in Ensemble!Trainers, NEW f, FitOK(f),
         fit' = [fit EXCEPT ![t] = f], settings' = settings,
         since' \in 0..RetrainBars, tried' \in BOOLEAN, phase' \in {"waiting", "predicting"}
  PROVE  FitsOK' /\ Ensemble!TypeOK'
<1>1. \A u \in Ensemble!Trainers : fit'[u] = IF u = t THEN f ELSE fit[u]
  BY DEF EnsembleInv, FitsOK
<1>2. FitsOK'
  BY <1>1 DEF EnsembleInv, FitsOK, FitOK
<1> QED BY <1>2 DEF EnsembleInv, Ensemble!TypeOK, FitsOK, FitOK

(* ... and nothing else changes that a vote depends on.                    *)
LEMMA EnsembleTrains ==
  ASSUME EnsembleInv, NEW t \in Ensemble!Trainers, NEW f, FitOK(f),
         fit' = [fit EXCEPT ![t] = f], UNCHANGED <<settings, live, file, vote>>,
         since' \in 0..RetrainBars, tried' \in BOOLEAN, phase' \in {"waiting", "predicting"}
  PROVE  EnsembleInv'
<1>1. FitsOK' /\ Ensemble!TypeOK'
  BY EnsembleFits
<1> QED BY <1>1 DEF EnsembleInv, OnRecord, Ensemble!VotesAreEarned

LEMMA EnsembleInductive == EnsembleInv /\ [Ensemble!Next]_ensembleVars => EnsembleInv'
<1> SUFFICES ASSUME EnsembleInv, [Ensemble!Next]_ensembleVars PROVE EnsembleInv'
  OBVIOUS
<1>0. /\ since \in 0..RetrainBars /\ tried \in BOOLEAN /\ phase \in {"waiting", "predicting"}
  BY DEF EnsembleInv, Ensemble!TypeOK
<1>1. CASE Ensemble!NewBar
  <2>1. /\ UNCHANGED <<settings, live, file, vote>> /\ tried' = TRUE /\ phase' = "predicting"
        /\ since' \in 0..RetrainBars
    BY <1>0, <1>1, EnsembleConstants DEF Ensemble!NewBar
  <2>2. CASE UNCHANGED fit
    BY <2>1, <2>2 DEF EnsembleInv, Ensemble!TypeOK, FitsOK, FitOK, Ensemble!VotesAreEarned
  <2>3. CASE \E t \in Ensemble!Trainers : fit' = [fit EXCEPT ![t] = [step |-> "fitting"]]
    <3>1. FitOK([step |-> "fitting"])
      BY DEF FitOK
    <3>2. PICK t \in Ensemble!Trainers : fit' = [fit EXCEPT ![t] = [step |-> "fitting"]]
      BY <2>3
    <3> QED BY <2>1, <3>1, <3>2, EnsembleTrains
  <2> QED BY <1>1, <2>2, <2>3 DEF Ensemble!NewBar, Ensemble!Trainers
<1>2. CASE Ensemble!Predict
  BY <1>2 DEF Ensemble!Predict, EnsembleInv, Ensemble!TypeOK, FitsOK, FitOK, OnRecord,
     Ensemble!VotesAreEarned
<1>3. CASE Ensemble!Restart
  <2>1. /\ settings' \in Configs /\ live' \in Ensemble!Restored(file, settings')
        /\ since' = 0 /\ tried' = FALSE /\ phase' = "waiting" /\ vote' = NoModel
        /\ fit' = [t \in Ensemble!Trainers |-> Ensemble!Idle] /\ file' = file
    BY <1>3 DEF Ensemble!Restart
  <2>2. live' # NoModel => OnRecord(live') /\ live'.pipeline.label = settings'.label
    BY <2>1 DEF Ensemble!Restored, EnsembleInv
  <2>3. FitsOK'
    BY <2>1, IdleOK DEF FitsOK
  <2>4. Ensemble!TypeOK'
    <3>1. \A t \in Ensemble!Trainers : fit'[t].step \in {"idle", "fitting", "passed", "installed", "saving"}
      BY <2>3 DEF FitsOK, FitOK
    <3> QED BY <2>1, <3>1, EnsembleConstants DEF Ensemble!TypeOK
  <2> QED BY <2>1, <2>2, <2>3, <2>4 DEF EnsembleInv, OnRecord, Ensemble!VotesAreEarned
<1>4. ASSUME NEW t \in Ensemble!Trainers, Ensemble!TrainFails(t) PROVE EnsembleInv'
  BY <1>0, <1>4, IdleOK, EnsembleTrains DEF Ensemble!TrainFails
<1>5. ASSUME NEW t \in Ensemble!Trainers, Ensemble!Judge(t) PROVE EnsembleInv'
  <2>1. PICK s \in Samples \cup {Unsplit} :
          fit' = [fit EXCEPT ![t] = IF s = Unsplit \/ Ensemble!PassesGate(s)
                                    THEN [step |-> "passed", pipeline |-> Ensemble!Pipeline(s)]
                                    ELSE Ensemble!Idle]
    BY <1>5 DEF Ensemble!Judge
  <2>2. UNCHANGED <<settings, live, file, since, tried, phase, vote>>
    BY <1>5 DEF Ensemble!Judge
  <2>3. FitOK([step |-> "passed", pipeline |-> Ensemble!Pipeline(s)])
    BY DEF FitOK, Ensemble!Pipeline
  <2>4. PICK f : FitOK(f) /\ fit' = [fit EXCEPT ![t] = f]
    BY <2>1, <2>3, IdleOK
  <2> QED BY <1>0, <2>2, <2>4, EnsembleTrains
<1>6. ASSUME NEW t \in Ensemble!Trainers, Ensemble!Promote(t) PROVE EnsembleInv'
  <2>1. OnRecord(live') /\ live'.pipeline.label = settings.label
    BY <1>6 DEF Ensemble!Promote, EnsembleInv, FitsOK, FitOK, OnRecord
  <2>2. UNCHANGED <<settings, file, since, tried, phase, vote>>
        /\ fit' = [fit EXCEPT ![t] = Ensemble!AfterPromotion]
    BY <1>6 DEF Ensemble!Promote
  <2>3. FitOK(Ensemble!AfterPromotion)
    BY DEF FitOK, Ensemble!AfterPromotion, Ensemble!Idle
  <2>4. FitsOK' /\ Ensemble!TypeOK'
    BY <1>0, <2>2, <2>3, EnsembleFits
  <2> QED BY <2>1, <2>2, <2>4 DEF EnsembleInv, OnRecord, Ensemble!VotesAreEarned
<1>7. ASSUME NEW t \in Ensemble!Trainers, Ensemble!SaveBegin(t) PROVE EnsembleInv'
  <2>1. FitOK([step |-> "saving", payload |-> live])
    BY DEF EnsembleInv, FitOK
  <2>2. fit' = [fit EXCEPT ![t] = [step |-> "saving", payload |-> live]]
        /\ UNCHANGED <<settings, live, file, since, tried, phase, vote>>
    BY <1>7 DEF Ensemble!SaveBegin
  <2> QED BY <1>0, <2>1, <2>2, EnsembleTrains
<1>8. ASSUME NEW t \in Ensemble!Trainers, Ensemble!SaveEnd(t) PROVE EnsembleInv'
  <2>1. file' \notin {NoModel, Torn} => OnRecord(file')
    BY <1>8 DEF Ensemble!SaveEnd, EnsembleInv, FitsOK, FitOK, OnRecord
  <2>2. fit' = [fit EXCEPT ![t] = Ensemble!Idle]
        /\ UNCHANGED <<settings, live, since, tried, phase, vote>>
    BY <1>8 DEF Ensemble!SaveEnd
  <2>3. FitsOK' /\ Ensemble!TypeOK'
    BY <1>0, <2>2, IdleOK, EnsembleFits
  <2> QED BY <2>1, <2>2, <2>3 DEF EnsembleInv, OnRecord, Ensemble!VotesAreEarned
<1>9. CASE UNCHANGED ensembleVars
  BY <1>9 DEF ensembleVars, EnsembleInv, Ensemble!TypeOK, FitsOK, FitOK, OnRecord,
     Ensemble!VotesAreEarned
<1> QED BY <1>1, <1>2, <1>3, <1>4, <1>5, <1>6, <1>7, <1>8, <1>9 DEF Ensemble!Next

-----------------------------------------------------------------------------
(* The runtime settings.                                                   *)

(* What a form may hold for a parameter, converted or not.                 *)
Value(p, v) ==
    /\ p \in {"risk_per_trade", "max_daily_dd"} => v \in Typed \cup {100 * n : n \in Typed}
    /\ p = "dry_run" => v \in BOOLEAN
    /\ p = "timeframe" => v \in Timeframes

(* A handler at work: what it will write to the file reads back as what it *)
(* has stored or is going to store, and what it will not write is known to *)
(* be stale.                                                               *)
EditOK ==
    /\ edit = [left |-> edit.left, values |-> edit.values, texts |-> edit.texts, form |-> edit.form]
    /\ edit.left \subseteq Settings!Params /\ stale \subseteq Settings!Params
    /\ edit.left \ Settings!Written \subseteq stale
    /\ \A p \in Settings!Survivors \cap Settings!Written :
         /\ Settings!FromText(p, edit.texts[p]) = edit.values[p]
         /\ p \notin edit.left => config[p] = edit.values[p]

(* All copies agree, also while a handler is at work; the file says the    *)
(* same of every parameter but those it has lost, and those that the       *)
(* handler has stored and is going to write.                               *)
SettingsInv ==
    /\ DOMAIN env = Settings!Params /\ DOMAIN config = Settings!Params
    /\ cfg = [b \in Bots |-> config]
    /\ EditOK
    /\ \A p \in Settings!Survivors \ (stale \cup (Settings!Written \ edit.left)) :
         Settings!FromText(p, env[p]) = config[p]

LEMMA SettingsConstants ==
    /\ Absent \notin Typed /\ Absent \notin {100 * n : n \in Typed} /\ Absent \notin Timeframes
    /\ Absent \notin {"paper", "live", "number"}
  BY ServicesAssumption DEF ServicesAssumption, Settings!SettingsAssumption

LEMMA TextOfValue ==
  ASSUME NEW p \in Settings!Params, NEW v, Value(p, v)
  PROVE  /\ Settings!ToText(p, v) # Absent /\ Settings!FormText(p, v) # Absent
         /\ p \in Settings!Survivors =>
              /\ Settings!FromText(p, Settings!ToText(p, v)) = v
              /\ Settings!FromText(p, Settings!FormText(p, v)) = v
<1> USE DEF Settings!Params, Settings!Survivors, Settings!ToText, Settings!FormText,
            Settings!FromText, Value
<1>1. CASE p \in {"risk_per_trade", "max_daily_dd"}
  BY <1>1, SettingsConstants
<1>2. CASE p = "dry_run"
  BY <1>2, SettingsConstants
<1>3. CASE p = "timeframe"
  BY <1>3, SettingsConstants
<1> QED BY <1>1, <1>2, <1>3

LEMMA ValuesOfPayload ==
  ASSUME NEW S \in SUBSET Settings!Params, NEW payload \in Settings!Payloads(S)
  PROVE  /\ DOMAIN payload = S
         /\ \A p \in S : Value(p, payload[p]) /\ Value(p, Settings!FromForm(p, payload[p]))
<1>1. PICK full \in [risk_per_trade : Typed, max_daily_dd : Typed, dry_run : BOOLEAN,
                     timeframe : Timeframes] : payload = [p \in S |-> full[p]]
  BY DEF Settings!Payloads
<1>2. \A p \in S : Value(p, full[p]) /\ Value(p, Settings!FromForm(p, full[p]))
  BY <1>1 DEF Settings!Params, Settings!FromForm, Value
<1> QED BY <1>1, <1>2

LEMMA IdleEdit ==
  ASSUME edit = Settings!Idle
  PROVE  /\ edit = [left |-> edit.left, values |-> edit.values, texts |-> edit.texts, form |-> edit.form]
         /\ edit.left = {} /\ Settings!Written = {}
  BY DEF Settings!Idle, Settings!Written

LEMMA SettingsInit == Settings!Init => SettingsInv
<1> SUFFICES ASSUME Settings!Init PROVE SettingsInv
  OBVIOUS
<1>1. /\ edit = [left |-> edit.left, values |-> edit.values, texts |-> edit.texts, form |-> edit.form]
      /\ edit.left = {} /\ Settings!Written = {}
  BY IdleEdit DEF Settings!Init
<1>2. /\ env = [p \in Settings!Params |-> Absent] /\ config = Settings!Default
      /\ cfg = [b \in Bots |-> Settings!Default] /\ stale = {}
  BY DEF Settings!Init
<1>3. DOMAIN config = Settings!Params
  BY <1>2 DEF Settings!Default, Settings!Params
<1>4. \A p \in Settings!Params : Settings!FromText(p, env[p]) = config[p]
  BY <1>2 DEF Settings!FromText
<1> QED BY <1>1, <1>2, <1>3, <1>4 DEF SettingsInv, EditOK, Settings!Survivors

(* A handler starts: it stores what it was given, and writes texts of it   *)
(* or nothing.                                                             *)
LEMMA SettingsStart ==
  ASSUME SettingsInv, edit = Settings!Idle, NEW S \in SUBSET Settings!Params,
         NEW values, DOMAIN values = S, NEW texts, NEW form, Settings!Start(values, texts, form),
         DOMAIN texts \subseteq S,
         \A p \in DOMAIN texts : /\ texts[p] # Absent
                                 /\ p \in Settings!Survivors => Settings!FromText(p, texts[p]) = values[p],
         UNCHANGED <<config, cfg, env>>, stale' = stale \cup (S \ DOMAIN texts)
  PROVE  SettingsInv'
<1>1. /\ edit' = [left |-> edit'.left, values |-> edit'.values, texts |-> edit'.texts, form |-> edit'.form]
      /\ edit'.left = S
      /\ edit'.values = [p \in Settings!Params |-> IF p \in S THEN values[p] ELSE Settings!Default[p]]
      /\ edit'.texts = [p \in Settings!Params |-> IF p \in DOMAIN texts THEN texts[p] ELSE Absent]
  BY DEF Settings!Start
<1>2. Settings!Written' = DOMAIN texts
  BY <1>1 DEF Settings!Written
<1>3. Settings!Written = {} /\ stale \subseteq Settings!Params
  BY IdleEdit DEF SettingsInv, EditOK
<1>4. EditOK'
  BY <1>1, <1>2, <1>3 DEF EditOK, Settings!Survivors
<1>5. \A p \in Settings!Survivors \ stale : Settings!FromText(p, env[p]) = config[p]
  BY <1>3 DEF SettingsInv
<1> QED BY <1>2, <1>4, <1>5 DEF SettingsInv

LEMMA SettingsInductive == SettingsInv /\ [Settings!Next]_configVars => SettingsInv'
<1> SUFFICES ASSUME SettingsInv, [Settings!Next]_configVars PROVE SettingsInv'
  OBVIOUS
<1>1. ASSUME NEW S \in SUBSET Settings!Params, Settings!PostConfig(S) PROVE SettingsInv'
  <2>1. PICK payload \in Settings!Payloads(S) :
          Settings!Start(payload, [p \in S |-> Settings!ToText(p, payload[p])], FALSE)
    BY <1>1 DEF Settings!PostConfig
  <2>2. edit = Settings!Idle /\ UNCHANGED <<config, cfg, env, stale>>
    BY <1>1 DEF Settings!PostConfig, Settings!IsIdle
  <2> DEFINE texts == [p \in S |-> Settings!ToText(p, payload[p])]
  <2>3. DOMAIN texts = S /\ Settings!Start(payload, texts, FALSE) /\ stale' = stale \cup (S \ DOMAIN texts)
    BY <2>1, <2>2
  <2>4. \A p \in S : /\ texts[p] # Absent
                     /\ p \in Settings!Survivors => Settings!FromText(p, texts[p]) = payload[p]
    BY ValuesOfPayload, TextOfValue
  <2>5. DOMAIN payload = S
    BY ValuesOfPayload
  <2> HIDE DEF texts
  <2> QED BY <2>2, <2>3, <2>4, <2>5, SettingsStart
<1>2. ASSUME NEW S \in SUBSET Settings!Params, Settings!PostSettings(S) PROVE SettingsInv'
  <2>1. PICK form \in Settings!Payloads(S) :
          Settings!Start([p \in S |-> Settings!FromForm(p, form[p])],
                [p \in S |-> Settings!FormText(p, Settings!FromForm(p, form[p]))], TRUE)
    BY <1>2 DEF Settings!PostSettings
  <2>2. edit = Settings!Idle /\ UNCHANGED <<config, cfg, env, stale>>
    BY <1>2 DEF Settings!PostSettings, Settings!IsIdle
  <2> DEFINE values == [p \in S |-> Settings!FromForm(p, form[p])]
             texts == [p \in S |-> Settings!FormText(p, Settings!FromForm(p, form[p]))]
  <2>3. /\ DOMAIN values = S /\ DOMAIN texts = S /\ Settings!Start(values, texts, TRUE)
        /\ stale' = stale \cup (S \ DOMAIN texts)
    BY <2>1, <2>2
  <2>4. \A p \in S : /\ texts[p] # Absent
                     /\ p \in Settings!Survivors => Settings!FromText(p, texts[p]) = values[p]
    BY ValuesOfPayload, TextOfValue
  <2>5. /\ DOMAIN values = S /\ DOMAIN texts \subseteq S /\ Settings!Start(values, texts, TRUE)
        /\ stale' = stale \cup (S \ DOMAIN texts)
    BY <2>3
  <2>6. \A p \in DOMAIN texts :
             /\ texts[p] # Absent
             /\ p \in Settings!Survivors => Settings!FromText(p, texts[p]) = values[p]
    BY <2>4
  <2> HIDE DEF values, texts
  <2>7. edit = Settings!Idle /\ UNCHANGED <<config, cfg, env>>
    BY <2>2
  <2> QED BY <2>5, <2>6, <2>7, SettingsStart
<1>3. ASSUME NEW S \in SUBSET Settings!Params, Settings!PostStrategy(S) PROVE SettingsInv'
  <2>1. PICK payload \in Settings!Payloads(S) : Settings!Start(payload, [p \in {} |-> Absent], FALSE)
    BY <1>3 DEF Settings!PostStrategy
  <2>2. edit = Settings!Idle /\ UNCHANGED <<config, cfg, env>> /\ stale' = stale \cup S
    BY <1>3 DEF Settings!PostStrategy, Settings!IsIdle
  <2> DEFINE texts == [p \in {} |-> Absent]
  <2>3. DOMAIN texts = {} /\ Settings!Start(payload, texts, FALSE) /\ stale' = stale \cup (S \ DOMAIN texts)
    BY <2>1, <2>2
  <2> HIDE DEF texts
  <2> QED BY <2>2, <2>3, ValuesOfPayload, SettingsStart
<1>4. CASE Settings!ApplyNext
  <2>1. PICK p \in edit.left :
          /\ config' = [config EXCEPT ![p] = edit.values[p]]
          /\ cfg' = [b \in Bots |-> [cfg[b] EXCEPT ![p] = edit.values[p]]]
          /\ Settings!Settle([edit EXCEPT !.left = @ \ {p}])
    BY <1>4 DEF Settings!ApplyNext
  <2>2. UNCHANGED <<env, stale>>
    BY <1>4 DEF Settings!ApplyNext
  <2>3. cfg' = [b \in Bots |-> config']
    BY <2>1 DEF SettingsInv
  <2>4. /\ edit' = [left |-> edit'.left, values |-> edit'.values, texts |-> edit'.texts, form |-> edit'.form]
        /\ edit'.left = edit.left \ {p} /\ edit'.texts = edit.texts
        /\ Settings!Written # {} => edit'.values = edit.values
    <3> DEFINE j == [left |-> edit.left \ {p}, values |-> edit.values, texts |-> edit.texts,
                     form |-> edit.form]
    <3>1. [edit EXCEPT !.left = @ \ {p}] = j
      BY DEF SettingsInv, EditOK
    <3>2. CASE j.left = {} /\ j.texts = Settings!Idle.texts
      BY <2>1, <3>1, <3>2 DEF Settings!Settle, Settings!Idle, Settings!Written
    <3>3. CASE ~(j.left = {} /\ j.texts = Settings!Idle.texts)
      BY <2>1, <3>1, <3>3 DEF Settings!Settle
    <3> QED BY <3>2, <3>3
  <2>5. Settings!Written' = Settings!Written
    BY <2>4 DEF Settings!Written
  <2>6. \A q \in Settings!Params : config'[q] = IF q = p THEN edit.values[p] ELSE config[q]
    BY <2>1 DEF SettingsInv
  <2>7. p \in stale \cup Settings!Written
    BY DEF SettingsInv, EditOK
  <2>8. EditOK'
    BY <2>2, <2>4, <2>5, <2>6 DEF SettingsInv, EditOK, Settings!Survivors
  <2>9. DOMAIN config' = Settings!Params
    BY <2>1 DEF SettingsInv
  <2> QED BY <2>2, <2>3, <2>4, <2>5, <2>6, <2>7, <2>8, <2>9 DEF SettingsInv, Settings!Survivors
<1>5. CASE Settings!Persist
  <2>1. /\ edit.left = {} /\ edit' = Settings!Idle /\ UNCHANGED <<config, cfg>>
        /\ \/ /\ env' = [p \in Settings!Params |-> IF p \in Settings!Written THEN edit.texts[p] ELSE env[p]]
              /\ stale' = stale \ Settings!Written
           \/ UNCHANGED env /\ stale' = stale \cup Settings!Written
           \/ env' = [p \in Settings!Params |-> Absent] /\ stale' = Settings!Params
    BY <1>5 DEF Settings!Persist
  <2>2. /\ edit' = [left |-> edit'.left, values |-> edit'.values, texts |-> edit'.texts, form |-> edit'.form]
        /\ edit'.left = {} /\ Settings!Written' = {}
    BY <2>1 DEF Settings!Idle, Settings!Written
  <2>3. \A p \in Settings!Survivors \cap Settings!Written :
          Settings!FromText(p, edit.texts[p]) = config[p]
    BY <2>1 DEF SettingsInv, EditOK
  <2>4. EditOK'
    BY <2>1, <2>2 DEF SettingsInv, EditOK, Settings!Written
  <2> QED BY <2>1, <2>2, <2>3, <2>4 DEF SettingsInv, Settings!Survivors
<1>6. CASE Settings!Restart
  <2>1. /\ edit' = [left |-> edit'.left, values |-> edit'.values, texts |-> edit'.texts, form |-> edit'.form]
        /\ edit'.left = {} /\ Settings!Written' = {}
    BY <1>6 DEF Settings!Restart, Settings!Idle, Settings!Written
  <2>2. /\ DOMAIN env' = Settings!Params /\ stale' = {}
        /\ config' = [p \in Settings!Params |-> Settings!FromText(p, env'[p])]
        /\ cfg' = [b \in Bots |-> config']
    BY <1>6 DEF Settings!Restart, SettingsInv
  <2> QED BY <2>1, <2>2 DEF SettingsInv, EditOK, Settings!Survivors
<1>7. CASE Settings!FormRaises
  <2>1. /\ edit' = Settings!Idle /\ stale' = stale \cup (Settings!Written \ edit.left)
        /\ UNCHANGED <<config, cfg, env>>
    BY <1>7 DEF Settings!FormRaises
  <2>2. /\ edit' = [left |-> edit'.left, values |-> edit'.values, texts |-> edit'.texts, form |-> edit'.form]
        /\ edit'.left = {} /\ Settings!Written' = {}
    BY <2>1 DEF Settings!Idle, Settings!Written
  <2>3. EditOK'
    BY <2>1, <2>2 DEF SettingsInv, EditOK, Settings!Written
  <2> QED BY <2>1, <2>2, <2>3 DEF SettingsInv, Settings!Survivors
<1>8. CASE UNCHANGED configVars
  BY <1>8 DEF configVars, SettingsInv, EditOK, Settings!Written
<1> QED BY <1>1, <1>2, <1>3, <1>4, <1>5, <1>6, <1>7, <1>8 DEF Settings!Next

-----------------------------------------------------------------------------
(* The helper processes and the terminal's link.                           *)

Delays == 0..MaxBackoff
Failures == 0..MaxFailures
Pauses == 0..JobInterval
Trainer == [proc : Processes!Codes \cup {"off", "none", "running"}, age : Nat,
            delay : Delays, failures : Failures, gaveUp : BOOLEAN]
Job == [proc : {"none", "running", "exited"}, age : Nat, delay : Pauses]

(* A trainer that is not given up may fail once more.                      *)
TrainerOK(t) == t \in Trainer /\ (t.gaveUp \/ t.failures < MaxFailures)

ProcessInv == Processes!TypeOK /\ TrainerOK(trainer) /\ job \in Job

LEMMA ProcessConstants ==
    /\ FastFailure \in Nat /\ MaxFailures \in Nat /\ MaxFailures > 0 /\ MaxBackoff \in Nat
    /\ MaxBackoff > 0 /\ JobTimeout \in Nat /\ JobInterval \in Nat
    /\ \A n \in 0..MaxFailures : 2 ^ n \in Nat
  BY ServicesAssumption DEF ServicesAssumption, Processes!SupervisionAssumption

LEMMA ProcessRanges ==
    /\ 0 \in Delays /\ 1 \in Delays /\ 0 \in Pauses /\ JobInterval \in Pauses
    /\ 0 \in Failures /\ 0 < MaxFailures
    /\ \A n \in Failures : n < MaxFailures => n + 1 \in Failures /\ n + 1 \in 1..MaxFailures
    /\ \A n \in Failures : ~(n >= MaxFailures) => n < MaxFailures
  BY ProcessConstants DEF Delays, Pauses, Failures

LEMMA DelayType == ASSUME NEW n \in 1..MaxFailures PROVE Processes!Delay(n) \in Delays
<1>1. n - 1 \in 0..MaxFailures
  BY ProcessConstants
<1>2. 2 ^ (n - 1) \in Nat
  BY <1>1, ProcessConstants
<1> DEFINE power == 2 ^ (n - 1)
<1>3. power \in Nat
  BY <1>2
<1> HIDE DEF power
<1>4. Processes!Smaller(MaxBackoff, power) \in 0..MaxBackoff
  BY <1>3, ProcessConstants DEF Processes!Smaller
<1> QED BY <1>4 DEF Processes!Delay, power, Delays

LEMMA FailedOK ==
  ASSUME NEW t, TrainerOK(t), ~t.gaveUp
  PROVE  TrainerOK(Processes!Failed(t))
<1> DEFINE n == t.failures + 1
<1>1. n \in Failures /\ n \in 1..MaxFailures
  BY ProcessRanges DEF TrainerOK, Trainer
<1>2. Processes!Delay(n) \in Delays
  BY <1>1, DelayType
<1>3. CASE n >= MaxFailures
  <2>1. Processes!Failed(t) = [t EXCEPT !.proc = "none", !.failures = n, !.gaveUp = TRUE]
    BY <1>3 DEF Processes!Failed
  <2> HIDE DEF n
  <2> QED BY <1>1, <2>1 DEF TrainerOK, Trainer
<1>4. CASE ~(n >= MaxFailures)
  <2>1. Processes!Failed(t) = [t EXCEPT !.proc = "none", !.failures = n, !.delay = Processes!Delay(n)]
    BY <1>4 DEF Processes!Failed
  <2>2. n < MaxFailures
    BY <1>1, <1>4, ProcessRanges
  <2> HIDE DEF n
  <2> QED BY <1>1, <1>2, <2>1, <2>2 DEF TrainerOK, Trainer
<1> QED BY <1>3, <1>4

LEMMA LaunchOK ==
  ASSUME NEW t, TrainerOK(t), ~t.gaveUp, NEW u \in Processes!Launch(t)
  PROVE  TrainerOK(u)
<1>1. CASE u = [t EXCEPT !.proc = "running", !.age = 0]
  BY <1>1 DEF TrainerOK, Trainer
<1>2. CASE u = Processes!Failed(t)
  BY <1>2, FailedOK
<1> QED BY <1>1, <1>2 DEF Processes!Launch

LEMMA TrainerTickOK ==
  ASSUME NEW t, TrainerOK(t), NEW u \in Processes!TrainerTick(t)
  PROVE  TrainerOK(u)
<1>1. CASE u = t
  BY <1>1
<1>2. CASE ~t.gaveUp /\ u \in Processes!Launch(t)
  BY <1>2, LaunchOK
<1>3. CASE u = [t EXCEPT !.proc = "none", !.gaveUp = TRUE]
  BY <1>3 DEF TrainerOK, Trainer
<1>4. CASE u = [t EXCEPT !.proc = "none", !.failures = 0, !.delay = 1]
  BY <1>4, ProcessRanges DEF TrainerOK, Trainer
<1>5. CASE ~t.gaveUp /\ u = Processes!Failed(t)
  BY <1>5, FailedOK
<1> QED BY <1>1, <1>2, <1>3, <1>4, <1>5 DEF Processes!TrainerTick, TrainerOK, Trainer

LEMMA JobTickOK ==
  ASSUME NEW j \in Job, NEW u \in Processes!JobTick(j)
  PROVE  u \in Job
<1>1. [proc |-> "none", age |-> 0, delay |-> JobInterval] \in Job
  BY ProcessRanges DEF Job
<1>2. [j EXCEPT !.proc = "running", !.age = 0] \in Job
  BY DEF Job
<1>3. [j EXCEPT !.delay = JobInterval] \in Job
  BY ProcessRanges DEF Job
<1> QED BY <1>1, <1>2, <1>3 DEF Processes!JobTick

(* What the type invariant says of the helpers follows.                    *)
LEMMA HelpersType ==
  ASSUME ProcessInv, UNCHANGED <<app, connection, link, server, stopFlag, dog>>,
         bot' \in {"up", "stopped", "crashed"}, TrainerOK(trainer'), job' \in Job
  PROVE  ProcessInv'
<1>1. /\ trainer'.proc \in Processes!Codes \cup {"off", "none", "running"}
      /\ trainer'.failures \in Failures /\ trainer'.delay \in Delays
      /\ job'.delay \in Pauses /\ job'.proc \in {"none", "running", "exited"}
  BY DEF TrainerOK, Trainer, Job
<1> QED BY <1>1 DEF ProcessInv, Processes!TypeOK, TrainerOK, Failures, Delays, Pauses

LEMMA ProcessInit == Processes!Init => ProcessInv
<1> SUFFICES ASSUME Processes!Init PROVE ProcessInv
  OBVIOUS
<1>1. job \in Job
  BY ProcessRanges DEF Processes!Init, Processes!HelpersInit, Job
<1>2. TrainerOK(trainer)
  <2> DEFINE t == [proc |-> "none", age |-> 0, delay |-> 0, failures |-> 0, gaveUp |-> FALSE]
  <2>1. TrainerOK(t) /\ ~t.gaveUp
    BY ProcessRanges DEF TrainerOK, Trainer
  <2>2. TrainerOK([t EXCEPT !.proc = "off"])
    BY ProcessRanges DEF TrainerOK, Trainer
  <2>3. trainer \in Processes!Launch(t) \/ trainer = [t EXCEPT !.proc = "off"]
    BY DEF Processes!Init, Processes!HelpersInit
  <2> HIDE DEF t
  <2> QED BY <2>1, <2>2, <2>3, LaunchOK
<1>3. Processes!TypeOK
  <2>1. /\ trainer.proc \in Processes!Codes \cup {"off", "none", "running"}
        /\ trainer.failures \in Failures /\ trainer.delay \in Delays
        /\ job.delay \in Pauses /\ job.proc \in {"none", "running", "exited"}
    BY <1>1, <1>2 DEF TrainerOK, Trainer, Job
  <2> QED BY <2>1 DEF Processes!Init, Processes!HelpersInit, Processes!ConnectionInit,
          Processes!TypeOK, Failures, Delays, Pauses
<1> QED BY <1>1, <1>2, <1>3 DEF ProcessInv

LEMMA HelpersStep == ProcessInv /\ Processes!HelpersNext => ProcessInv'
<1> SUFFICES ASSUME ProcessInv, Processes!HelpersNext PROVE ProcessInv'
  OBVIOUS
<1>1. UNCHANGED <<app, connection, link, server, stopFlag, dog>>
  BY DEF Processes!HelpersNext, Processes!TickHelpers, Processes!StopHelpers, Processes!BotCrashes,
     Processes!TrainerExits, Processes!ParentWatch, Processes!JobExits, Processes!Elapse,
     Processes!linkVars
<1>2. bot \in {"up", "stopped", "crashed"} /\ TrainerOK(trainer) /\ job \in Job
  BY DEF ProcessInv, Processes!TypeOK
<1>3. CASE Processes!TickHelpers
  BY <1>1, <1>2, <1>3, TrainerTickOK, JobTickOK, HelpersType DEF Processes!TickHelpers
<1>4. CASE Processes!StopHelpers
  <2>1. TrainerOK(trainer') /\ job' \in Job /\ bot' = "stopped"
    BY <1>2, <1>4 DEF Processes!StopHelpers, TrainerOK, Trainer, Job
  <2> QED BY <1>1, <2>1, HelpersType
<1>5. CASE Processes!BotCrashes
  BY <1>1, <1>2, <1>5, HelpersType DEF Processes!BotCrashes
<1>6. CASE Processes!TrainerExits \/ Processes!ParentWatch
  <2>1. TrainerOK(trainer') /\ UNCHANGED <<bot, job>>
    BY <1>2, <1>6 DEF Processes!TrainerExits, Processes!ParentWatch, Processes!Codes, TrainerOK, Trainer
  <2> QED BY <1>1, <1>2, <2>1, HelpersType
<1>7. CASE Processes!JobExits
  <2>1. job' \in Job /\ UNCHANGED <<bot, trainer>>
    BY <1>2, <1>7 DEF Processes!JobExits, Job
  <2> QED BY <1>1, <1>2, <2>1, HelpersType
<1>8. CASE Processes!Elapse
  <2> DEFINE Down(n) == IF n = 0 THEN 0 ELSE n - 1
  <2>1. /\ trainer' = [trainer EXCEPT !.delay = Down(@), !.age = Processes!Smaller(@ + 1, FastFailure)]
        /\ job' = [job EXCEPT !.delay = Down(@), !.age = Processes!Smaller(@ + 1, JobTimeout + 1)]
        /\ bot' = bot
    BY <1>8 DEF Processes!Elapse
  <2>2. (\A n \in Delays : Down(n) \in Delays) /\ (\A n \in Pauses : Down(n) \in Pauses)
    BY ProcessConstants DEF Delays, Pauses
  <2>3. \A n \in Nat : /\ Processes!Smaller(n + 1, FastFailure) \in Nat
                        /\ Processes!Smaller(n + 1, JobTimeout + 1) \in Nat
    BY ProcessConstants DEF Processes!Smaller
  <2> HIDE DEF Down
  <2>4. TrainerOK(trainer')
    BY <1>2, <2>1, <2>2, <2>3 DEF TrainerOK, Trainer
  <2>5. job' \in Job
    BY <1>2, <2>1, <2>2, <2>3 DEF Job
  <2> QED BY <1>1, <1>2, <2>1, <2>4, <2>5, HelpersType
<1> QED BY <1>3, <1>4, <1>5, <1>6, <1>7, <1>8 DEF Processes!HelpersNext

LEMMA LinkStep == ProcessInv /\ Processes!LinkNext => ProcessInv'
<1> SUFFICES ASSUME ProcessInv, Processes!LinkNext PROVE ProcessInv'
  OBVIOUS
<1>1. UNCHANGED <<bot, trainer, job>>
  BY DEF Processes!LinkNext, Processes!ConnectBegin, Processes!ConnectEnd,
     Processes!DisconnectBegin, Processes!DisconnectEnd, Processes!ServerChanges,
     Processes!LinkDrops, Processes!DogStep, Processes!Watch, Processes!Reconnect,
     Processes!TryReturns, Processes!helperVars
<1> DEFINE LinkType ==
      /\ app \in {"out", "connecting", "in", "leaving"}
      /\ connection \in {"DISCONNECTED", "CONNECTING", "CONNECTED", "RECONNECTING", "FAILED"}
      /\ link \in BOOLEAN /\ server \in BOOLEAN /\ stopFlag \in BOOLEAN
      /\ dog \in [Dogs -> {"new", "watch", "reconnect", "trying", "ended"}]
<1>2. LinkType
  BY DEF ProcessInv, Processes!TypeOK
<1> HIDE DEF LinkType
<1>3. ASSUME NEW d \in Dogs, Processes!DogStep(d) PROVE LinkType'
  <2>1. CASE Processes!Watch(d)
    BY <1>2, <2>1 DEF Processes!Watch, LinkType
  <2>2. CASE Processes!Reconnect(d)
    BY <1>2, <2>2 DEF Processes!Reconnect, LinkType
  <2>3. CASE Processes!TryReturns(d)
    BY <1>2, <2>3 DEF Processes!TryReturns, LinkType
  <2> QED BY <1>3, <2>1, <2>2, <2>3 DEF Processes!DogStep
<1>4. ASSUME Processes!ConnectBegin PROVE LinkType'
  BY <1>2, <1>4 DEF Processes!ConnectBegin, LinkType
<1>5. ASSUME Processes!DisconnectBegin PROVE LinkType'
  BY <1>2, <1>5 DEF Processes!DisconnectBegin, LinkType
<1>6. ASSUME Processes!DisconnectEnd PROVE LinkType'
  BY <1>2, <1>6 DEF Processes!DisconnectEnd, LinkType
<1>7. ASSUME Processes!ServerChanges PROVE LinkType'
  BY <1>2, <1>7 DEF Processes!ServerChanges, LinkType
<1>8. ASSUME Processes!LinkDrops PROVE LinkType'
  BY <1>2, <1>8 DEF Processes!LinkDrops, LinkType
<1>9. ASSUME Processes!ConnectEnd PROVE LinkType'
  BY <1>2, <1>9 DEF Processes!ConnectEnd, Processes!StartWatchdog, LinkType
<1>10. LinkType'
  BY <1>3, <1>4, <1>5, <1>6, <1>7, <1>8, <1>9 DEF Processes!LinkNext
<1> QED BY <1>1, <1>10 DEF ProcessInv, Processes!TypeOK, TrainerOK, LinkType

-----------------------------------------------------------------------------
(* "A retried HTTP request cannot create a second order": of two requests  *)
(* with one key that one process admitted within the window, at most one   *)
(* can be on its way, for any requests, keys, window and number of lives.  *)
THEOREM OneOrder == Spec => []OneOrderPerWindow
<1>1. Init => BridgeInv
  BY BridgeInit DEF Init
<1>2. BridgeInv /\ [Next]_vars => BridgeInv'
  BY BridgeStep, BridgeInductive
<1>3. BridgeInv => OneOrderPerWindow
  BY DEF BridgeInv, OneOrderPerWindow
<1> QED BY <1>1, <1>2, <1>3, PTL DEF Spec

(* A model file that was replaced is never overlooked by the predictor.    *)
THEOREM PredictorFollowsFile == Spec => []PredictorIsCurrent
<1>1. Init => NeuralInv
  BY NeuralInit DEF Init
<1>2. NeuralInv /\ [Next]_vars => NeuralInv'
  BY NeuralStep, NeuralInductive
<1>3. NeuralInv => PredictorIsCurrent
  BY DEF NeuralInv, Neural!TypeOK, PredictorIsCurrent, Neural!PredictorIsCurrent
<1> QED BY <1>1, <1>2, <1>3, PTL DEF Spec

(* A model that votes has cleared the gate it was judged by.               *)
THEOREM VotesEarned == Spec => []VotesAreEarned
<1>1. Init => EnsembleInv
  BY EnsembleInit DEF Init
<1>2. EnsembleInv /\ [Next]_vars => EnsembleInv'
  BY EnsembleStep, EnsembleInductive
<1>3. EnsembleInv => VotesAreEarned
  BY DEF EnsembleInv, VotesAreEarned
<1> QED BY <1>1, <1>2, <1>3, PTL DEF Spec

(* Whatever was edited through which form, a restart reads back what was   *)
(* stored, for all that was written to the file.                           *)
THEOREM SettingsSurvive == Spec => []SavedSettingsSurvive
<1>1. Init => SettingsInv
  BY SettingsInit DEF Init
<1>2. SettingsInv /\ [Next]_vars => SettingsInv'
  BY SettingsStep, SettingsInductive
<1>3. SettingsInv => SavedSettingsSurvive
  BY IdleEdit DEF SettingsInv, SavedSettingsSurvive, Settings!SavedSettingsSurvive,
     Settings!IsIdle
<1> QED BY <1>1, <1>2, <1>3, PTL DEF Spec

(* Every variable of every service has its type.                           *)
THEOREM ServicesType == Spec => []TypeOK
<1> DEFINE Inv == ProcessInv /\ BridgeInv /\ EnsembleInv /\ NeuralInv /\ SettingsInv
<1>1. Init => Inv
  BY ProcessInit, BridgeInit, EnsembleInit, NeuralInit, SettingsInit DEF Init
<1>2. Inv /\ [Next]_vars => Inv'
  <2>1. ProcessInv /\ UNCHANGED processVars => ProcessInv'
    BY DEF processVars, ProcessInv, Processes!TypeOK, TrainerOK
  <2> QED BY <2>1, ProcessStep, HelpersStep, LinkStep, BridgeStep, BridgeInductive, EnsembleStep,
          EnsembleInductive, NeuralStep, NeuralInductive, SettingsStep, SettingsInductive
<1>3. Inv => TypeOK
  <2>1. BridgeInv => Http!TypeOK
    <3> SUFFICES ASSUME BridgeInv PROVE Http!TypeOK
      OBVIOUS
    <3>1. \A r \in Requests : req[r].step \in Steps /\ req[r].age \in Ages
      BY DEF BridgeInv, BridgeTypes, Requested
    <3> QED BY <3>1 DEF BridgeInv, BridgeTypes, Http!TypeOK, Steps, Ages
  <2>2. SettingsInv => Settings!TypeOK
    BY DEF SettingsInv, EditOK, Settings!TypeOK
  <2> QED BY <2>1, <2>2 DEF ProcessInv, EnsembleInv, NeuralInv, TypeOK
<1> QED BY <1>1, <1>2, <1>3, PTL DEF Spec
=============================================================================
