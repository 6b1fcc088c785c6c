----------------------------- MODULE Supervision -----------------------------
(***************************************************************************)
(* What the program keeps running beside its trading loop.                 *)
(*                                                                         *)
(* core/runtime/helpers.py: a trainer process that is restarted with       *)
(* growing delays or given up, and a collector run on a schedule; both are *)
(* looked after between two steps of the bots.                             *)
(*                                                                         *)
(* core/mt5/connection.py: a watchdog thread that restores the connection  *)
(* to the terminal, beside an application thread that connects and         *)
(* disconnects.                                                            *)
(*                                                                         *)
(* Time is counted in units of the smallest delay; a timer is the number   *)
(* of units that are left, or have passed up to the longest one that is    *)
(* compared with.                                                          *)
(***************************************************************************)
EXTENDS Integers, FiniteSets

CONSTANTS
    FastFailure,    \* a run shorter than this counts as a failure to start
    MaxFailures,    \* failures in a row after which a helper is given up
    MaxBackoff,     \* cap of the delay, which doubles from one unit
    JobTimeout,     \* longest run of the collector
    JobInterval,    \* pause between two runs of it
    Dogs            \* watchdog threads the program may have started: a bound

SupervisionAssumption ==
    /\ {FastFailure, MaxFailures, MaxBackoff, JobTimeout, JobInterval} \subseteq Nat \ {0}
    /\ \A n \in 0..MaxFailures : 2 ^ n \in Nat   \* of arithmetic: the provers know no powers

VARIABLES
    bot,        \* the launching process: "up", "stopped" or "crashed"
    trainer,    \* ManagedProcess: process, exit code, age, delay, failures
    job,        \* PeriodicJob: process, age, delay
    app,        \* what the application thread does with the connection
    connection, \* ConnectionState
    link,       \* whether the adapter is connected
    server,     \* whether the terminal answers
    stopFlag,   \* _stop_watchdog
    dog         \* position of each watchdog thread

helperVars == <<bot, trainer, job>>
linkVars == <<app, connection, link, server, stopFlag, dog>>
vars == <<helperVars, linkVars>>

Codes == {"ok", "error", "unavailable"}
Smaller(a, b) == IF a <= b THEN a ELSE b

-----------------------------------------------------------------------------
(* The trainer.                                                            *)

Delay(failures) == Smaller(MaxBackoff, 2 ^ (failures - 1))

(* Plausible bug: it is tried again however often it has failed.           *)
FailedForEver(t) == [t EXCEPT !.proc = "none", !.failures = @ + 1, !.delay = Delay(t.failures + 1)]

(* _failed: one more quick failure, up to giving up.                       *)
Failed(t) ==
    LET n == t.failures + 1
    IN  IF n >= MaxFailures THEN [t EXCEPT !.proc = "none", !.failures = n, !.gaveUp = TRUE]
        ELSE [t EXCEPT !.proc = "none", !.failures = n, !.delay = Delay(n)]

(* _launch: the process starts or cannot be spawned.                       *)
Launch(t) == {[t EXCEPT !.proc = "running", !.age = 0], Failed(t)}

(* tick: start it when its delay is over; when it is found dead, give up,  *)
(* forget its failures after a long run, or count one more.                *)
TrainerTick(t) ==
    IF t.gaveUp \/ t.proc \in {"off", "running"} THEN {t}
    ELSE IF t.proc = "none" THEN (IF t.delay = 0 THEN Launch(t) ELSE {t})
    ELSE IF t.proc = "unavailable" THEN {[t EXCEPT !.proc = "none", !.gaveUp = TRUE]}
    ELSE IF t.age >= FastFailure THEN {[t EXCEPT !.proc = "none", !.failures = 0, !.delay = 1]}
    ELSE {Failed(t)}

(* The collector: stopped when it runs too long, started when its pause is *)
(* over; a failure only starts the pause again.                            *)
JobTick(j) ==
    IF j.proc = "running"
    THEN {IF j.age > JobTimeout THEN [proc |-> "none", age |-> 0, delay |-> JobInterval] ELSE j}
    ELSE IF j.proc = "exited" \/ j.delay > 0
    THEN {IF j.proc = "exited" THEN [proc |-> "none", age |-> 0, delay |-> JobInterval] ELSE j}
    ELSE {[j EXCEPT !.proc = "running", !.age = 0], [j EXCEPT !.delay = JobInterval]}

(* from_env: "auto" trains where torch is installed; bars of a timeframe    *)
(* that the trainer does not know are not trained on at all.               *)
NNEnabled(mode, torch, supported) == (mode = "on" \/ (mode = "auto" /\ torch)) /\ supported

HelpersInit ==
    /\ bot = "up"
    /\ \E mode \in {"on", "off", "auto"}, torch, supported \in BOOLEAN :
         LET t == [proc |-> "none", age |-> 0, delay |-> 0, failures |-> 0, gaveUp |-> FALSE]
         IN  IF NNEnabled(mode, torch, supported) THEN trainer \in Launch(t)
             ELSE trainer = [t EXCEPT !.proc = "off"]
    /\ job = [proc |-> "none", age |-> 0, delay |-> JobInterval]

(* HelperSupervisor.tick, between two passes over the bots.                *)
TickHelpers ==
    /\ bot = "up"
    /\ trainer' \in TrainerTick(trainer) /\ job' \in JobTick(job)
    /\ UNCHANGED <<bot, linkVars>>

(* Shutdown stops the trainer and runs the collector once more, to its end.*)
StopHelpers ==
    /\ bot = "up" /\ bot' = "stopped"
    /\ trainer' = [trainer EXCEPT !.proc = IF @ = "off" THEN @ ELSE "none"]
    /\ job' = [job EXCEPT !.proc = "none"]
    /\ UNCHANGED linkVars

BotCrashes == bot = "up" /\ bot' = "crashed" /\ UNCHANGED <<trainer, job, linkVars>>

TrainerExits ==
    /\ trainer.proc = "running" /\ \E code \in Codes : trainer' = [trainer EXCEPT !.proc = code]
    /\ UNCHANGED <<bot, job, linkVars>>

(* start_parent_watch, in the trainer: it ends when the bot is gone.       *)
ParentWatch ==
    /\ bot # "up" /\ trainer.proc = "running" /\ trainer' = [trainer EXCEPT !.proc = "ok"]
    /\ UNCHANGED <<bot, job, linkVars>>

JobExits ==
    /\ job.proc = "running" /\ job' = [job EXCEPT !.proc = "exited"]
    /\ UNCHANGED <<bot, trainer, linkVars>>

Elapse ==
    LET Down(n) == IF n = 0 THEN 0 ELSE n - 1
    IN  /\ trainer' = [trainer EXCEPT !.delay = Down(@), !.age = Smaller(@ + 1, FastFailure)]
        /\ job' = [job EXCEPT !.delay = Down(@), !.age = Smaller(@ + 1, JobTimeout + 1)]
        /\ UNCHANGED <<bot, linkVars>>

-----------------------------------------------------------------------------
(* The connection.                                                         *)

ConnectionInit ==
    /\ app = "out" /\ connection = "DISCONNECTED" /\ link = FALSE /\ server = TRUE
    /\ stopFlag = FALSE /\ dog = [d \in Dogs |-> "new"]

ConnectBegin ==
    /\ app = "out" /\ app' = "connecting" /\ connection' = "CONNECTING"
    /\ \E d \in Dogs : dog[d] = "new"
    /\ UNCHANGED <<link, server, stopFlag, dog, helperVars>>

(* Plausible bug: the flag of an earlier shutdown is never cleared.        *)
StartWatchdogUncleared(d) == dog' = [dog EXCEPT ![d] = "watch"] /\ UNCHANGED stopFlag

StartWatchdog(d) == dog' = [dog EXCEPT ![d] = "watch"] /\ stopFlag' = FALSE

(* connect returns: each success starts a watchdog of its own.             *)
ConnectEnd ==
    /\ app = "connecting"
    /\ IF server
       THEN /\ app' = "in" /\ connection' = "CONNECTED" /\ link' = TRUE
            /\ \E d \in Dogs : dog[d] = "new" /\ StartWatchdog(d)
       ELSE app' = "out" /\ connection' = "FAILED" /\ UNCHANGED <<link, dog, stopFlag>>
    /\ UNCHANGED <<server, helperVars>>

DisconnectBegin ==
    /\ app = "in" /\ app' = "leaving" /\ stopFlag' = TRUE
    /\ UNCHANGED <<connection, link, server, dog, helperVars>>

(* It waits for the watchdog only so long, and goes on without it.         *)
DisconnectEnd ==
    /\ app = "leaving" /\ app' = "out"
    /\ link' = FALSE /\ connection' = "DISCONNECTED"
    /\ UNCHANGED <<server, stopFlag, dog, helperVars>>

(* _watchdog_loop: the flag ends it, a lost link sends it reconnecting.    *)
(* (No exception does: the adapters' is_connected answers False instead of *)
(* raising, and nothing in the repository passes a callback.)              *)
Watch(d) ==
    /\ dog[d] = "watch"
    /\ dog' = [dog EXCEPT ![d] = IF stopFlag THEN "ended" ELSE IF link THEN "watch" ELSE "reconnect"]
    /\ connection' = IF ~stopFlag /\ ~link THEN "RECONNECTING" ELSE connection
    /\ UNCHANGED <<app, link, server, stopFlag, helperVars>>

(* _reconnect_loop: until the flag, drop the link and try again.           *)
Reconnect(d) ==
    /\ dog[d] = "reconnect"
    /\ IF stopFlag
       THEN dog' = [dog EXCEPT ![d] = "watch"] /\ connection' = "FAILED" /\ UNCHANGED link
       ELSE dog' = [dog EXCEPT ![d] = "trying"] /\ link' = FALSE /\ UNCHANGED connection
    /\ UNCHANGED <<app, server, stopFlag, helperVars>>

(* The attempt returns; after a failure the flag is looked at again, at    *)
(* the latest when the delay is over.                                      *)
TryReturns(d) ==
    /\ dog[d] = "trying"
    /\ IF server THEN dog' = [dog EXCEPT ![d] = "watch"] /\ link' = TRUE /\ connection' = "CONNECTED"
                 ELSE dog' = [dog EXCEPT ![d] = "reconnect"] /\ UNCHANGED <<link, connection>>
    /\ UNCHANGED <<app, server, stopFlag, helperVars>>

ServerChanges ==
    /\ server' = ~server /\ link' = (link /\ server')
    /\ UNCHANGED <<app, connection, stopFlag, dog, helperVars>>

LinkDrops == link /\ link' = FALSE /\ UNCHANGED <<app, connection, server, stopFlag, dog, helperVars>>

-----------------------------------------------------------------------------
Init == HelpersInit /\ ConnectionInit

HelpersNext == \/ TickHelpers \/ StopHelpers \/ BotCrashes \/ TrainerExits \/ ParentWatch
               \/ JobExits \/ Elapse
DogStep(d) == Watch(d) \/ Reconnect(d) \/ TryReturns(d)
LinkNext == \/ ConnectBegin \/ ConnectEnd \/ DisconnectBegin \/ DisconnectEnd
            \/ ServerChanges \/ LinkDrops \/ \E d \in Dogs : DogStep(d)

TypeOK ==
    /\ bot \in {"up", "stopped", "crashed"}
    /\ trainer.proc \in Codes \cup {"off", "none", "running"} /\ trainer.failures \in 0..MaxFailures
    /\ trainer.delay \in 0..MaxBackoff /\ job.delay \in 0..JobInterval
    /\ job.proc \in {"none", "running", "exited"}
    /\ app \in {"out", "connecting", "in", "leaving"}
    /\ connection \in {"DISCONNECTED", "CONNECTING", "CONNECTED", "RECONNECTING", "FAILED"}
    /\ {link, server, stopFlag} \subseteq BOOLEAN
    /\ dog \in [Dogs -> {"new", "watch", "reconnect", "trying", "ended"}]

(* A trainer that died runs again or is given up as long as the bot is up, *)
(* one that outlives a crashed bot ends, and a collector that hangs does   *)
(* not stay.                                                               *)
HelpersRecover ==
    /\ (bot = "up" /\ trainer.proc \notin {"off", "running"} /\ ~trainer.gaveUp)
         ~> (trainer.proc = "running" \/ trainer.gaveUp \/ bot # "up")
    /\ (bot = "crashed") ~> (trainer.proc # "running")
    /\ (bot = "up" /\ job.proc = "running") ~> (job.proc # "running" \/ bot # "up")

(* While the application wants the connection, a lost link comes back once *)
(* the terminal stays up, even when earlier watchdogs are still around.    *)
LinkIsRestored ==
    (<>[]server) => ((app = "in" /\ ~link) ~> (link \/ app # "in"))
=============================================================================
