----------------------------- MODULE NeuralModel -----------------------------
(***************************************************************************)
(* core/ai/nn_trainer.py and nn_predictor.py: a trainer process looks for  *)
(* a better network on the latest bars and replaces the model file; the    *)
(* bot's predictor notices the new file and loads it, with no restart of   *)
(* either.                                                                 *)
(*                                                                         *)
(* Bars are numbered from 1; a network is the newest bar it was fitted on  *)
(* and the edge measured for it on the holdout, the bars kept apart.       *)
(***************************************************************************)
EXTENDS Integers, FiniteSets

CONSTANTS
    MaxBars,        \* bound of bars
    HoldoutBars, MinNewBars, MinTrainBars, Horizon,
    Edges,          \* edges a measurement may show
    Floor, Tolerance,
    MinEdge,        \* the predictor's own floor
    Unmeasured, NoModel, Unreadable

NeuralAssumption ==
    /\ {MaxBars, HoldoutBars, MinNewBars, MinTrainBars, Horizon} \subseteq Nat \ {0}
    /\ MinTrainBars <= MaxBars

VARIABLES
    bars,       \* newest closed bar
    artifact,   \* the model file
    history,    \* last bar of a finished cycle, in the history file; 0: none
    lastEnd,    \* the trainer's copy of it
    cycle,      \* the cycle under way
    changed,    \* whether the file was replaced since the predictor's last stat
    predictor,  \* what it last tried to load
    loaded,     \* whether that load succeeded
    loading,    \* between its stat and the prediction: "load", "keep"; else "no"
    signal      \* the network behind the last signal, or NoModel
trainerVars == <<artifact, history, lastEnd, cycle>>
predictorVars == <<predictor, loaded, loading, signal>>
vars == <<bars, changed, trainerVars, predictorVars>>

Larger(a, b) == IF a >= b THEN a ELSE b
Resting == [step |-> "resting"]
Sound(m) == m \notin {NoModel, Unreadable}

Init ==
    /\ bars \in 0..MinTrainBars /\ artifact = NoModel /\ history = 0 /\ lastEnd = 0
    /\ cycle = Resting /\ changed = TRUE
    /\ predictor = NoModel /\ loaded = FALSE /\ loading = "no" /\ signal = NoModel

BarCloses == bars < MaxBars /\ bars' = bars + 1 /\ UNCHANGED <<changed, trainerVars, predictorVars>>

-----------------------------------------------------------------------------
(* _cycle.                                                                 *)

(* The holdout starts at the newest HoldoutBars bars, or later, after the  *)
(* bars the champion was fitted on.                                        *)
HoldoutStart(n, champion) ==
    LET newest == n - HoldoutBars + 1
    IN  Larger(IF Sound(champion) THEN Larger(champion.through + 1, newest) ELSE newest, 1)

TrainEnd(n, champion) == HoldoutStart(n, champion) - 1 - Horizon

(* The skips: too few bars, too few since the last cycle or since the      *)
(* champion's, too few left before the holdout.                            *)
WorthTraining(n, champion) ==
    /\ n >= MinTrainBars + Horizon
    /\ lastEnd # 0 => n - lastEnd >= MinNewBars
    /\ Sound(champion) => n - champion.through >= MinNewBars
    /\ TrainEnd(n, champion) >= MinTrainBars

(* A cycle begins with the bars and the champion of that moment.           *)
BeginCycle ==
    /\ cycle = Resting /\ WorthTraining(bars, artifact)
    /\ cycle' = [step |-> "fitting", n |-> bars, champion |-> artifact]
    /\ UNCHANGED <<bars, changed, artifact, history, lastEnd, predictorVars>>

(* should_promote: a measured edge above the floor, that beats the         *)
(* champion's if that could be measured on the same bars.                  *)
ShouldPromote(champion, challenger) ==
    /\ challenger # Unmeasured /\ challenger > Floor
    /\ champion # Unmeasured => challenger > champion + Tolerance

(* Both are scored on the same holdout; an absent champion, and one that   *)
(* fails or trades too little there, counts as unmeasured.                 *)
JudgeChallenger ==
    /\ cycle.step = "fitting"
    /\ \E challenger \in Edges \cup {Unmeasured},
          champion \in IF Sound(cycle.champion) THEN Edges \cup {Unmeasured} ELSE {Unmeasured} :
         IF ShouldPromote(champion, challenger)
         THEN cycle' = [step |-> "writing", n |-> cycle.n, oos |-> challenger,
                        through |-> TrainEnd(cycle.n, cycle.champion)]
         ELSE cycle' = [step |-> "kept", n |-> cycle.n]
    /\ UNCHANGED <<bars, changed, artifact, history, lastEnd, predictorVars>>

(* Fitting or writing fails: nothing is remembered of the cycle.           *)
CycleFails ==
    /\ cycle.step \in {"fitting", "writing"} /\ cycle' = Resting
    /\ UNCHANGED <<bars, changed, artifact, history, lastEnd, predictorVars>>

(* _write_atomically: the temporary file takes the model's place at once.  *)
ReplaceModel ==
    /\ cycle.step = "writing"
    /\ artifact' = [through |-> cycle.through, oos |-> cycle.oos] /\ changed' = TRUE
    /\ cycle' = [step |-> "kept", n |-> cycle.n]
    /\ UNCHANGED <<bars, history, lastEnd, predictorVars>>

(* run_once, at its end: remembered in memory and in the history file,     *)
(* whose write may fail.                                                   *)
FinishCycle ==
    /\ cycle.step = "kept" /\ cycle' = Resting /\ lastEnd' = cycle.n
    /\ history' \in {history, cycle.n}
    /\ UNCHANGED <<bars, changed, artifact, predictorVars>>

RestartTrainer ==
    /\ cycle' = Resting /\ lastEnd' \in {0, history}
    /\ UNCHANGED <<bars, changed, artifact, history, predictorVars>>

FileSpoiled ==
    /\ Sound(artifact) /\ artifact' = Unreadable /\ changed' = TRUE
    /\ UNCHANGED <<bars, history, lastEnd, cycle, predictorVars>>

-----------------------------------------------------------------------------
(* _load, on every prediction: a stat first, which notices a file that is  *)
(* not the one of the last stat.                                           *)
CheckFile ==
    /\ loading = "no" /\ changed' = FALSE
    /\ loading' = IF changed /\ artifact # NoModel THEN "load" ELSE "keep"
    /\ predictor' = IF changed THEN NoModel ELSE predictor
    /\ loaded' = (loaded /\ ~changed)
    /\ UNCHANGED <<bars, trainerVars, signal>>

(* A stat that fails takes the file for gone; the next one finds it new.   *)
CheckFails ==
    /\ loading = "no" /\ changed' = TRUE /\ loading' = "keep"
    /\ predictor' = NoModel /\ loaded' = FALSE
    /\ UNCHANGED <<bars, trainerVars, signal>>

(* The network's signal, unless its edge is small or it favours no trade.  *)
Signals(network, ready) ==
    {NoModel} \cup {m \in {network} : ready /\ m.oos >= MinEdge}

(* Plausible bug: the time of the file is taken again after reading it.    *)
LoadAndPredictRestats ==
    /\ loading # "no" /\ loading' = "no" /\ changed' = FALSE
    /\ predictor' = IF loading = "load" THEN artifact ELSE predictor
    /\ loaded' \in IF loading = "load" THEN {FALSE, Sound(artifact)} ELSE {loaded}
    /\ signal' \in Signals(predictor', loaded')
    /\ UNCHANGED <<bars, trainerVars>>

(* Then the load of a file that is new to it.  Any load may fail, of a     *)
(* sound file too; the failure is remembered with the file's time, and the *)
(* file is not tried again until that changes.                             *)
LoadAndPredict ==
    /\ loading # "no" /\ loading' = "no"
    /\ predictor' = IF loading = "load" THEN artifact ELSE predictor
    /\ loaded' \in IF loading = "load" THEN {FALSE, Sound(artifact)} ELSE {loaded}
    /\ signal' \in Signals(predictor', loaded')
    /\ UNCHANGED <<bars, changed, trainerVars>>

(* The bot restarts: the first stat finds a file that is new to it.        *)
RestartBot ==
    /\ predictor' = NoModel /\ loaded' = FALSE /\ loading' = "no" /\ signal' = NoModel
    /\ changed' = TRUE
    /\ UNCHANGED <<bars, trainerVars>>

Next ==
    \/ BarCloses \/ BeginCycle \/ JudgeChallenger \/ CycleFails \/ ReplaceModel \/ FinishCycle
    \/ RestartTrainer \/ FileSpoiled \/ CheckFile \/ CheckFails \/ LoadAndPredict
    \/ RestartBot

Spec == Init /\ [][Next]_vars

-----------------------------------------------------------------------------
TypeOK ==
    /\ bars \in 0..MaxBars /\ {history, lastEnd} \subseteq 0..MaxBars
    /\ cycle.step \in {"resting", "fitting", "writing", "kept"}
    /\ {changed, loaded} \subseteq BOOLEAN /\ loading \in {"no", "load", "keep"}

(* A replaced file is never overlooked, however the trainer's writes fall  *)
(* between the predictor's stat and its load: with nothing left to notice  *)
(* it has tried to load what the file holds now, and a signal it gives is  *)
(* that network's, loaded and with the edge asked for.  (A load that fails *)
(* leaves it without a signal until the file changes again.)               *)
PredictorIsCurrent ==
    (loading = "no" /\ ~changed) =>
        /\ predictor = artifact
        /\ signal # NoModel => loaded /\ signal = artifact /\ signal.oos >= MinEdge
=============================================================================
