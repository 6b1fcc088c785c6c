------------------------------ MODULE Services ------------------------------
(***************************************************************************)
(* The services around the bots - helper processes and the terminal's      *)
(* link, the bridge, the two kinds of model, the runtime settings - and    *)
(* an order engine with its keys to reconcile, in one specification.       *)
(* They share no state: a behaviour is one of them alone, chosen at the    *)
(* start by focus, while the variables of the others keep their initial    *)
(* values.  Fairness is each component's own, stated for its focus.        *)
(***************************************************************************)
EXTENDS Integers

CONSTANTS
    FastFailure, MaxFailures, MaxBackoff, JobTimeout, JobInterval, Dogs,
    Requests, KeyOf(_), KindsOf(_), Logins, Ttl, MaxLives,
    Samples, Unsplit, NoAuc, Torn, NoModel, Trainings, RetrainBars, AccuracyFloor, AucFloor,
    AccuracyTolerance, Configs,
    MaxBars, HoldoutBars, MinNewBars, MinTrainBars, Horizon, Edges, Floor, EdgeTolerance,
    MinEdge, Unmeasured, Unreadable,
    Bots, Typed, Timeframes, MaxEdits, Absent,
    Threads, Keys, RawCalls, InComment, MaxRetries, MaxEpoch

VARIABLES
    focus,
    bot, trainer, job, app, connection, link, server, stopFlag, dog,
    account, login, cache, life, req,
    settings, live, file, since, tried, fit, phase, vote,
    bars, artifact, history, lastEnd, cycle, changed, predictor, loaded, loading, signal,
    config, cfg, env, edit, edits, stale,
    epoch, ledger, thread, recon, sent, filled, refused

processVars == <<bot, trainer, job, app, connection, link, server, stopFlag, dog>>
bridgeVars == <<account, login, cache, life, req>>
ensembleVars == <<settings, live, file, since, tried, fit, phase, vote>>
neuralVars == <<bars, artifact, history, lastEnd, cycle, changed, predictor, loaded, loading, signal>>
configVars == <<config, cfg, env, edit, edits, stale>>
orderVars == <<epoch, ledger, thread, recon, sent, filled, refused>>
vars == <<focus, processVars, bridgeVars, ensembleVars, neuralVars, configVars, orderVars>>

-----------------------------------------------------------------------------
Processes == INSTANCE Supervision
Http == INSTANCE Bridge WITH config <- account
Ensemble == INSTANCE EnsembleModel WITH
    config <- settings, Threads <- Trainings, Tolerance <- AccuracyTolerance
Neural == INSTANCE NeuralModel WITH Tolerance <- EdgeTolerance
Settings == INSTANCE RuntimeSettings WITH job <- edit
Orders == INSTANCE OrderExecution

ASSUME ServicesAssumption ==
    /\ Processes!SupervisionAssumption /\ Http!BridgeAssumption /\ Ensemble!EnsembleAssumption
    /\ Neural!NeuralAssumption /\ Settings!SettingsAssumption /\ Orders!OrderExecutionAssumption

-----------------------------------------------------------------------------
Init ==
    /\ focus \in {"helpers", "link", "bridge", "ensemble", "neural", "settings", "orders"}
    /\ Processes!Init /\ Http!Init /\ Ensemble!Init /\ Neural!Init /\ Settings!Init /\ Orders!Init
    /\ focus # "helpers" => trainer.proc = "off"        \* one initial state when not in focus
    /\ focus # "bridge" => ~account.token /\ ~account.writes /\ ~account.mock
                            /\ account.expected = "none" /\ login = "none"
    /\ focus # "ensemble" => settings = CHOOSE c \in Configs : TRUE
    /\ focus # "neural" => bars = 0

Others == <<focus, bridgeVars, ensembleVars, neuralVars, configVars, orderVars>>

Next ==
    \/ focus = "helpers" /\ Processes!HelpersNext /\ UNCHANGED Others
    \/ focus = "link" /\ Processes!LinkNext /\ UNCHANGED Others
    \/ /\ focus = "bridge" /\ Http!Next
       /\ UNCHANGED <<focus, processVars, ensembleVars, neuralVars, configVars, orderVars>>
    \/ /\ focus = "ensemble" /\ Ensemble!Next
       /\ UNCHANGED <<focus, processVars, bridgeVars, neuralVars, configVars, orderVars>>
    \/ /\ focus = "neural" /\ Neural!Next
       /\ UNCHANGED <<focus, processVars, bridgeVars, ensembleVars, configVars, orderVars>>
    \/ /\ focus = "settings" /\ Settings!Next
       /\ UNCHANGED <<focus, processVars, bridgeVars, ensembleVars, neuralVars, orderVars>>
    \/ /\ focus = "orders" /\ Orders!Next
       /\ UNCHANGED <<focus, processVars, bridgeVars, ensembleVars, neuralVars, configVars>>

(* The loops of the helpers and of the watchdogs keep running, and a call  *)
(* that has begun returns; nothing is assumed of crashes or of the server. *)

Spec ==
    /\ Init /\ [][Next]_vars
    /\ WF_vars(focus = "helpers" /\ Processes!TickHelpers /\ UNCHANGED Others)
    /\ WF_vars(focus = "helpers" /\ Processes!Elapse /\ UNCHANGED Others)
    /\ WF_vars(focus = "helpers" /\ Processes!ParentWatch /\ UNCHANGED Others)
    /\ WF_vars(focus = "link" /\ Processes!ConnectEnd /\ UNCHANGED Others)
    /\ WF_vars(focus = "link" /\ Processes!DisconnectEnd /\ UNCHANGED Others)
    /\ \A d \in Dogs : WF_vars(focus = "link" /\ Processes!DogStep(d) /\ UNCHANGED Others)

-----------------------------------------------------------------------------
(* Every variable of the services has its type; that of the order engine   *)
(* is checked and proved with its own module.                              *)
TypeOK == /\ Processes!TypeOK /\ Http!TypeOK /\ Ensemble!TypeOK /\ Neural!TypeOK
          /\ Settings!TypeOK

(* The supervisor and the watchdog: what has died comes back.              *)
ServicesRecover ==
    /\ focus = "helpers" => Processes!HelpersRecover
    /\ focus = "link" => Processes!LinkIsRestored

(* The bridge: a key buys at most one order while it is remembered.        *)
OneOrderPerWindow == Http!OneOrderPerWindow

(* AIEnsemble: a model that votes has cleared the gate it was judged by.   *)
VotesAreEarned == Ensemble!VotesAreEarned

(* NNPredictor: it last tried to load what the file holds, and a signal is  *)
(* that network's.                                                         *)
PredictorIsCurrent == Neural!PredictorIsCurrent

(* _apply_config_values and _update_env_file: a restart reads what was set. *)
SavedSettingsSurvive == Settings!SavedSettingsSurvive

(* ExecutionEngine: what the ledger says when one reconciliation goes over *)
(* several keys and one of them is part of another's comment; and the      *)
(* promise, for the key no other order can be taken for.                   *)
LedgerIsEvidence == Orders!LedgerIsEvidence
ImplementsPromise == Orders!ImplementsPromise
=============================================================================
