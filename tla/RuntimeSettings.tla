--------------------------- MODULE RuntimeSettings ---------------------------
(***************************************************************************)
(* run.py: parameters edited from the dashboard while the bots run.        *)
(*                                                                         *)
(* A write goes to several places: the defaults of the module, each bot's  *)
(* own copy, and the .env file that the next start reads.                  *)
(* Handlers run one at a time on the server's event loop; the bots' thread *)
(* and a crash can fall between any two writes.                            *)
(*                                                                         *)
(* Four parameters stand for the ways in which one is converted on its way *)
(* to the file and back; those that are written there but that no start    *)
(* reads are left out.  Fractions are counted in hundredths of a percent,  *)
(* and so are the numbers typed into the old forms.                        *)
(***************************************************************************)
EXTENDS Integers, FiniteSets

CONSTANTS
    Bots,
    Typed,          \* percentages a user may type
    Timeframes,     \* by their label
    MaxEdits,       \* requests in a behaviour
    Absent          \* not in the file, not in the payload

(* What stands for a missing text is no text.                              *)
SettingsAssumption ==
    /\ Typed \subseteq Nat
    /\ Absent \notin Typed /\ Absent \notin {100 * n : n \in Typed}
    /\ Absent \notin Timeframes /\ Absent \notin {"paper", "live", "number"}

Params == {"risk_per_trade", "max_daily_dd", "dry_run", "timeframe"}
Default == [risk_per_trade |-> 200, max_daily_dd |-> 500, dry_run |-> TRUE, timeframe |-> "M15"]
FallbackTimeframe == "M15"

VARIABLES
    config,     \* CONFIG, the module's defaults
    cfg,        \* each bot's copy
    env,        \* the .env file: a text for each parameter
    job,        \* the handler under way: values to apply, texts to write
    edits,      \* requests accepted so far
    stale       \* parameters whose last change, or whose line, the file has lost
vars == <<config, cfg, env, job, edits, stale>>

Idle == [left |-> {}, values |-> Default, texts |-> [p \in Params |-> Absent], form |-> FALSE]
IsIdle == job = Idle

(* _profile_cfg and CONFIG: a text in the file wins over the default; only *)
(* labels are timeframes.                                                  *)
FromText(p, text) ==
    IF text = Absent THEN Default[p]
    ELSE CASE p = "dry_run" -> text # "live"
           [] p = "timeframe" -> IF text \in Timeframes THEN text ELSE FallbackTimeframe
           [] OTHER -> text

(* _apply_config_values writes a timeframe as the number it stands for.    *)
ToText(p, v) == CASE p = "dry_run" -> IF v THEN "paper" ELSE "live"
                  [] p = "timeframe" -> "number"
                  [] OTHER -> v

(* A text that an old form writes: the label, as it was typed.             *)
FormText(p, v) == IF p = "timeframe" THEN v ELSE ToText(p, v)

Init ==
    /\ env = [p \in Params |-> Absent] /\ config = Default /\ cfg = [b \in Bots |-> Default]
    /\ job = Idle /\ edits = 0 /\ stale = {}

(* coerce_value: the declared range.                                       *)
InRange(p, v) == CASE p = "risk_per_trade" -> v \in 10..500
                   [] p = "max_daily_dd" -> v \in 50..2000
                   [] OTHER -> TRUE

(* validate_payload: every value in range, and the pairs that the payload  *)
(* holds both of in order.                                                 *)
IsValid(payload) ==
    /\ \A p \in DOMAIN payload : InRange(p, payload[p])
    /\ {"risk_per_trade", "max_daily_dd"} \subseteq DOMAIN payload
         => payload["risk_per_trade"] < payload["max_daily_dd"]

Payloads(S) == {[p \in S |-> full[p]] : full \in
    [risk_per_trade : Typed, max_daily_dd : Typed, dry_run : BOOLEAN, timeframe : Timeframes]}

Start(values, texts, form) ==
    /\ edits < MaxEdits /\ edits' = edits + 1
    /\ job' = [left |-> DOMAIN values,
               values |-> [p \in Params |-> IF p \in DOMAIN values THEN values[p] ELSE Default[p]],
               texts |-> [p \in Params |-> IF p \in DOMAIN texts THEN texts[p] ELSE Absent],
               form |-> form]

(* POST /api/config: all of a payload or nothing, and a dangerous one only *)
(* when it is confirmed.                                                   *)
PostConfig(S) ==
    /\ IsIdle
    /\ \E payload \in Payloads(S), confirm \in BOOLEAN :
         /\ IsValid(payload)
         /\ "dry_run" \in S => confirm
         /\ Start(payload, [p \in S |-> ToText(p, payload[p])], FALSE)
    /\ UNCHANGED <<config, cfg, env, stale>>

(* POST /api/settings, and the risk section of POST /api/config/{section}: *)
(* nothing is checked, and a percentage above 0.05 is divided by a hundred.*)
FromForm(p, typed) == IF p \notin {"risk_per_trade", "max_daily_dd"} \/ typed > 5 THEN typed ELSE 100 * typed

PostSettings(S) ==
    /\ IsIdle
    /\ \E form \in Payloads(S) :
         Start([p \in S |-> FromForm(p, form[p])],
               [p \in S |-> FormText(p, FromForm(p, form[p]))], TRUE)
    /\ UNCHANGED <<config, cfg, env, stale>>

(* The strategy section stores whatever it is given, and saves nothing.    *)
PostStrategy(S) ==
    /\ IsIdle /\ \E payload \in Payloads(S) : Start(payload, [p \in {} |-> Absent], FALSE)
    /\ stale' = stale \cup S
    /\ UNCHANGED <<config, cfg, env>>

Written == {p \in Params : job.texts[p] # Absent}
Settle(j) == job' = IF j.left = {} /\ j.texts = Idle.texts THEN Idle ELSE j

(* One parameter after the other, everywhere it is kept.                   *)
ApplyNext ==
    /\ \E p \in job.left :
         /\ config' = [config EXCEPT ![p] = job.values[p]]
         /\ cfg' = [b \in Bots |-> [cfg[b] EXCEPT ![p] = job.values[p]]]
         /\ Settle([job EXCEPT !.left = @ \ {p}])
    /\ UNCHANGED <<env, edits, stale>>

(* A later field of a form is no number: the handler raises, what it has   *)
(* applied stays and nothing of the form reaches the file.                 *)
FormRaises ==
    /\ job.form /\ job.left # {} /\ job' = Idle
    /\ stale' = stale \cup (Written \ job.left)
    /\ UNCHANGED <<config, cfg, env, edits>>

(* Plausible bug: only lines that are there already are rewritten.         *)
PersistUpdatesOnly ==
    /\ job.left = {} /\ Written # {}
    /\ env' = [p \in Params |-> IF p \in Written /\ env[p] # Absent THEN job.texts[p] ELSE env[p]]
    /\ stale' = stale \ Written /\ job' = Idle
    /\ UNCHANGED <<config, cfg, edits>>

(* _update_env_file: lines there are replaced, others appended.  A failure *)
(* is logged and the answer is "ok" all the same; when it comes after the  *)
(* file was opened, and so emptied, every line is lost.                    *)
Persist ==
    /\ job.left = {} /\ Written # {}
    /\ \/ /\ env' = [p \in Params |-> IF p \in Written THEN job.texts[p] ELSE env[p]]
          /\ stale' = stale \ Written
       \/ UNCHANGED env /\ stale' = stale \cup Written
       \/ env' = [p \in Params |-> Absent] /\ stale' = Params
    /\ job' = Idle /\ UNCHANGED <<config, cfg, edits>>

(* The file is emptied before it is written: a crash in between leaves     *)
(* none of it.                                                             *)
Restart ==
    /\ env' \in {env} \cup (IF Written # {} THEN {[p \in Params |-> Absent]} ELSE {})
    /\ config' = [p \in Params |-> FromText(p, env'[p])]
    /\ cfg' = [b \in Bots |-> config'] /\ job' = Idle /\ stale' = {}
    /\ UNCHANGED edits

Next ==
    \/ \E S \in SUBSET Params : Cardinality(S) \in 1..2 /\ (PostConfig(S) \/ PostSettings(S) \/ PostStrategy(S))
    \/ ApplyNext \/ FormRaises \/ Persist \/ Restart

Spec == Init /\ [][Next]_vars

-----------------------------------------------------------------------------
TypeOK == job.left \subseteq Params /\ stale \subseteq Params /\ DOMAIN env = Params

(* "Three stores have to move together": whenever no handler is at work,   *)
(* every bot runs on what the module holds; and the next start reads the   *)
(* same, whatever was edited in which order through which of the forms,    *)
(* for every parameter whose last change the file has not lost - to a form *)
(* that raised, a section that saves nothing, or a write that failed.  The *)
(* timeframe is left out: a form writes it as a number, which a start      *)
(* cannot read.                                                            *)
Survivors == Params \ {"timeframe"}
SavedSettingsSurvive ==
    IsIdle =>
        /\ \A b \in Bots : cfg[b] = config
        /\ \A p \in Survivors \ stale : FromText(p, env[p]) = config[p]
=============================================================================
