---------------------------- MODULE EnsembleModel ----------------------------
(***************************************************************************)
(* run.py, AIEnsemble: the tree model of one symbol, trained while it      *)
(* trades.  Each retraining fits a challenger; only a challenger that      *)
(* passes the gate replaces the live model, is saved, and is restored by   *)
(* the next start.                                                         *)
(*                                                                         *)
(* The first training of a process blocks the bot's loop, later ones run   *)
(* in threads of their own, and a slow one may still be running when the   *)
(* next is started.  A model is what was measured of it on the bars after  *)
(* those it was fitted on; accuracy and base rate are percentages.         *)
(***************************************************************************)
EXTENDS Integers, FiniteSets

CONSTANTS
    Samples,        \* what a training may find: [acc, auc, base], or no validation split
    Unsplit,        \* ... the window is too small for a validation split
    NoModel, NoAuc, Torn,
    Threads,        \* background trainings at a time: a bound
    RetrainBars, AccuracyFloor, AucFloor, Tolerance,
    Configs         \* [edge, label, persist]: minimum edge, label definition, saving

Loop == "loop"
Trainers == Threads \cup {Loop}
EdgeOff == -100     \* a minimum edge that switches the gate of predictions off

EnsembleAssumption == RetrainBars \in Nat \ {0} /\ Loop \notin Threads

VARIABLES
    config,     \* read when the model object is made
    live,       \* the pipeline in use and what is on record for it
    file,       \* the saved payload
    since,      \* bars since the last training, up to RetrainBars
    tried,      \* whether this process has trained before
    fit,        \* each training: where it is, its challenger or its payload
    phase,      \* the bot's loop: waiting for a bar, or about to predict
    vote        \* the pipeline behind the last prediction, or NoModel
vars == <<config, live, file, since, tried, fit, phase, vote>>

Larger(a, b) == IF a >= b THEN a ELSE b
Edge(s) == s.acc - Larger(s.base, 100 - s.base)
Idle == [step |-> "idle"]

(* What was measured of a pipeline: without a split, nothing.              *)
Measured(s) == IF s = Unsplit THEN [known |-> FALSE]
               ELSE [known |-> TRUE, acc |-> s.acc, edge |-> Edge(s)]
Pipeline(s) == [oos |-> Measured(s), label |-> config.label]

(* _passes_gate: the floors of accuracy, ranking and edge, and the live    *)
(* model's accuracy on its own window.                                     *)
PassesGate(s) ==
    /\ s.acc >= AccuracyFloor
    /\ s.auc # NoAuc => s.auc >= AucFloor
    /\ Edge(s) >= config.edge
    /\ (live # NoModel /\ live.oos.known) => s.acc >= live.oos.acc - Tolerance

(* load_from_disk: a file that can be read, of the labels in use.          *)
Restored(f, c) ==
    IF c.persist /\ f \notin {NoModel, Torn} /\ f.pipeline.label = c.label THEN {f, NoModel} ELSE {NoModel}

Init ==
    /\ config \in Configs /\ live = NoModel /\ file = NoModel
    /\ since = 0 /\ tried = FALSE /\ phase = "waiting" /\ vote = NoModel
    /\ fit = [t \in Trainers |-> Idle]

(* update, on a new bar: the first training is immediate and blocks, later *)
(* ones are due every RetrainBars bars, whatever became of the last.       *)
NewBar ==
    /\ phase = "waiting" /\ phase' = "predicting" /\ tried' = TRUE
    /\ IF ~tried
       THEN since' = 0 /\ fit' = [fit EXCEPT ![Loop] = [step |-> "fitting"]]
       ELSE IF since + 1 < RetrainBars
       THEN since' = since + 1 /\ UNCHANGED fit
       ELSE /\ since' = 0
            /\ \E t \in Threads : fit[t] = Idle /\ fit' = [fit EXCEPT ![t] = [step |-> "fitting"]]
    /\ UNCHANGED <<config, live, file, vote>>

(* train fails: too little data, one-sided labels, an exception, or a      *)
(* pipeline that never saw a rise.                                         *)
TrainFails(t) ==
    /\ fit[t].step = "fitting" /\ fit' = [fit EXCEPT ![t] = Idle]
    /\ UNCHANGED <<config, live, file, since, tried, phase, vote>>

(* A challenger is measured and compared with the model that is live now;  *)
(* one that could not be measured skips the gate.                          *)
Judge(t) ==
    /\ fit[t].step = "fitting"
    /\ \E s \in Samples \cup {Unsplit} :
         fit' = [fit EXCEPT ![t] = IF s = Unsplit \/ PassesGate(s)
                                   THEN [step |-> "passed", pipeline |-> Pipeline(s)] ELSE Idle]
    /\ UNCHANGED <<config, live, file, since, tried, phase, vote>>

AfterPromotion == IF config.persist THEN [step |-> "installed"] ELSE Idle

(* Plausible bug: a training without a measurement keeps the record of the *)
(* model before.                                                           *)
PromoteKeepsRecord(t) ==
    /\ fit[t].step = "passed"
    /\ live' = [pipeline |-> fit[t].pipeline,
                oos |-> IF live # NoModel /\ ~fit[t].pipeline.oos.known THEN live.oos
                        ELSE fit[t].pipeline.oos]
    /\ fit' = [fit EXCEPT ![t] = AfterPromotion]
    /\ UNCHANGED <<config, file, since, tried, phase, vote>>

(* _promote: the pipeline and everything on record about it, under the     *)
(* lock, whatever another training installed since the gate.               *)
Promote(t) ==
    /\ fit[t].step = "passed"
    /\ live' = [pipeline |-> fit[t].pipeline, oos |-> fit[t].pipeline.oos]
    /\ fit' = [fit EXCEPT ![t] = AfterPromotion]
    /\ UNCHANGED <<config, file, since, tried, phase, vote>>

(* save_to_disk: the payload is taken under the lock ...                   *)
SaveBegin(t) ==
    /\ fit[t].step = "installed" /\ fit' = [fit EXCEPT ![t] = [step |-> "saving", payload |-> live]]
    /\ UNCHANGED <<config, live, file, since, tried, phase, vote>>

(* ... and written afterwards, through a temporary file that all trainings *)
(* share: two at a time may spoil it.                                      *)
SaveEnd(t) ==
    /\ fit[t].step = "saving" /\ fit' = [fit EXCEPT ![t] = Idle]
    /\ \/ file' = fit[t].payload
       \/ UNCHANGED file
       \/ (\E u \in Trainers \ {t} : fit[u].step = "saving") /\ file' = Torn
    /\ UNCHANGED <<config, live, since, tried, phase, vote>>

(* predict: nothing without a model, nothing from a model whose edge on    *)
(* record is unknown or too small; else its vote, unless it is unsure.     *)
Predict ==
    /\ phase = "predicting" /\ fit[Loop] = Idle /\ phase' = "waiting"
    /\ \/ vote' = NoModel
       \/ /\ live # NoModel
          /\ config.edge > EdgeOff => live.oos.known /\ live.oos.edge >= config.edge
          /\ vote' = live.pipeline
    /\ UNCHANGED <<config, live, file, since, tried, fit>>

(* The bot stops at any point and starts again, perhaps reconfigured.      *)
Restart ==
    /\ config' \in Configs /\ live' \in Restored(file, config')
    /\ since' = 0 /\ tried' = FALSE /\ phase' = "waiting" /\ vote' = NoModel
    /\ fit' = [t \in Trainers |-> Idle] /\ UNCHANGED file

Next ==
    \/ NewBar \/ Predict \/ Restart
    \/ \E t \in Trainers : \/ TrainFails(t) \/ Judge(t) \/ Promote(t) \/ SaveBegin(t) \/ SaveEnd(t)

Spec == Init /\ [][Next]_vars

-----------------------------------------------------------------------------
TypeOK ==
    /\ config \in Configs /\ since \in 0..RetrainBars /\ tried \in BOOLEAN
    /\ phase \in {"waiting", "predicting"}
    /\ \A t \in Trainers : fit[t].step \in {"idle", "fitting", "passed", "installed", "saving"}

(* The edge gate: "a model promoted once" must not keep "emitting          *)
(* confidence forever".  Whatever trainings overlap, fail or are restored  *)
(* from the file, the pipeline behind a vote was itself measured, with at  *)
(* least the edge now asked for, on labels of the kind now used.           *)
VotesAreEarned ==
    vote # NoModel =>
        /\ vote.label = config.label
        /\ config.edge > EdgeOff => vote.oos.known /\ vote.oos.edge >= config.edge
=============================================================================
