# Formal verification of the trading bot

This directory keeps TLA+ models of the parts of the trading bot where order,
timing and failure decide what happens to money: how an order is submitted, how a
bot limits its losses, how the manager loop, the broker and the dashboard act on
the same positions, how the stop of an open position is moved, what may open a
position and how large, and what keeps the services around the bots going. Each
module translates code under `src/`; `PROJECT.json` ("map") names the lines behind
every definition. TLC checks the models on small instances, TLAPS proves the main
results for every value of the constants.

Contents: 1 the system · 2 order execution · 3 the risk ladder · 4 the trading
loop · 5 stop management · 6 entry rules and sizing · 7 the central gate · 8 the
market and the entry plan · 9 two writers of one stop · 10 the services · 11 the
runs · 12 the proofs · 13 where code and documents disagree · 14 not modelled ·
15 plan.

## 1. The system

The repository holds two stacks that share a broker, MetaTrader 5 (MT5).

* `run.py` is the live program. Its `StandaloneAIBot` trades one symbol; one
  manager thread steps every bot in turn (`__main__`), and a FastAPI dashboard
  runs in a second thread and calls methods of the same bot objects.
* `core/` is a library with its own pipeline: `trading/orchestrator.py` asks
  `risk/engine.py` for approval and gives the proposal to `execution/engine.py`,
  which sends it through `mt5/adapter.py`. `bridge/app.py` serves the adapter
  over HTTP, `api/main.py` shows the database.

### Components

| Component | State it keeps | Operations that change it | What makes it correct |
|---|---|---|---|
| Order execution `core/execution` | ledger of idempotency keys, in memory | `submit`, `execute_proposal`, `reconcile_unresolved_keys`, `modify_position`, `close_position` | one decision, at most one order; the ledger never reports a guess |
| Bot risk ladder `run.py` | daily, weekly and peak references, halt, cooldown, streak, counters; mirror in `data/state/risk_<symbol>.json` | `connect`, `_daily_dd_ok`, `_hard_drawdown_reason`, `_record_trade_result`, `_entry_gate`, `reset_risk_halt` | a halt binds until it is reset, whatever restarts happen; references do not move |
| Manager loop, entries, dashboard controls `run.py` | `paused`, positions and requests at the broker | `step`, `_send_order`, `_close_position`, `_close_all`, `api_emergency_stop`, `api_control` | caps hold, one order per decision, a stop stops |
| Risk engine `core/risk/engine.py` | daily and weekly references, trade count, kill switch, under a lock | `approve`, `update_equity`, `record_trade_result`, `on_trade_opened`, kill switch | limits hold for concurrent callers; a kill switch rejects everything after it |
| Entry rules `run.py`, `core/risk/daily_state.py`, `core/risk/sizing.py` | ACTIVE / LOCKING / REACHED per day, pause per direction, recent results | `_apply_daily_target`, `update`, `record_loss`, `_size_lot` | latches once a day; a loss pauses its direction; an entry keeps to its budget |
| Position and stop management `core/position`, `run.py` | stop and target of each open position (at the broker), peak profit | `_manage_positions`, `_modify_sl`, `_modify_sltp`, `sl_guard` | a stop only ever tightens |
| MT5 connection `core/mt5/connection.py` | connection state, stop event, watchdog threads | `connect`, `disconnect`, watchdog | a lost link comes back; reconnects with growing delays |
| MT5 adapter `core/mt5` | none of its own | field translation, `send_order` | a code means the same on both sides |
| Orchestrator `core/trading` | the stage of each evaluation, a decision log | `evaluate`, operator controls | approval precedes execution |
| Bridge `bridge/` | idempotency cache with expiry | order and reading endpoints, restart | a retried request is not sent twice |
| Helper processes `core/runtime/helpers.py` | restart counts, delays | `ManagedProcess`, `PeriodicJob` | restart with backoff, give up at last, never overlap |
| Model lifecycle `core/ai`, `AIEnsemble` | live model and its record, model files, history | train, judge, promote, save, restore, reload | a model that votes was measured; what predicts is what the file holds |
| Accounts `core/accounts` | users, licences, seats, revisions in a database | activate, revoke, merge settings | seats never exceed the licence |
| Runtime configuration `run.py`, `core/config` | `CONFIG`, each bot's copy, `.env`, audit table | four editing handlers, `.env` writer, start | the copies agree, and a restart reads what was set |
| Event log `core/events` | bounded queue, database rows | publish, drain | no caller blocks |
| Market analysis `core/market` | none: recomputed at each bar | swings, structure, levels, liquidity, location | what was confirmed is not taken back; a stop keeps to its bounds |
| Strategies, instruments, AI numerics | none | pure functions | the result agrees with its definition |
| Notifications, dashboard views, migrations, scripts, backtests | none that trading reads | | |

### Interactions

* Bot → terminal: `order_send`, `positions_get`, `account_info`. Each may fail;
  `positions_get` then returns `None`, which `_open_positions` turns into an
  empty list (`or []`).
* Dashboard → bots: endpoints run in the web server's threads and write
  `paused`, the halt fields and the configuration dictionary with no lock.
* Guard → disk: `_persist_risk_state` writes the whole state after some changes
  and not after others; `connect` reads it back.
* Orchestrator → risk engine → execution engine → adapter → broker, all in the
  caller's thread; any number of callers.
* Broker → everything: it fills a request late, closes a position at its stop
  or target, refuses, requotes, or does not answer.

### What is hard

Threads without a common lock (manager loop, dashboard, reconciliation,
training); answers that settle nothing (`TIMEOUT`, `None`) followed by a late
fill; crashes between a change in memory and the next write to disk; calendar
boundaries (a new day and a new week are noticed by different fields at
different steps); several closes of which one fails; files replaced under a reader, and
threads started before earlier ones have ended. `PROJECT.json` ("hazards")
lists each at its line with the property that would catch it, or the reason why
there is none.

## 2. Order execution: `OrderPromise`, `OrderExecution`

**Abstract specification.** `OrderPromise` states what the keyed path promises
to its callers, with no thread, retry or ticket: a decision is claimed once,
the broker settles it once, and the ledger's answer follows the facts
(`Confirm` needs an execution, `Deny` needs that nothing can still be
executed). `Renew` is a restart: the ledger is in memory, so the promise is per
life of the process, and `earlier` remembers what former lives executed.

**Detailed specification.** `OrderExecution` has one step per call that other
threads can interleave with.

| TLA+ | Code |
|---|---|
| `ledger[k]` | `IdempotencyLedger._records`: report and `in_flight` |
| `thread[t]` | a caller inside `submit` or `_send_with_retry`: place, key, attempts, report in hand |
| `recon` | the thread in `reconcile_unresolved_keys`: snapshot of keys, positions read, current key |
| `sent`, `filled`, `refused` | external: requests on the wire and what the broker did with them |
| `Begin`, `GetExisting` | `ledger.begin`, and `ledger.get` with the return of a suppressed duplicate |
| `SendOrder`, `Reply` | the loop of `submit`: one attempt, and `state_from_retcode` of its answer |
| `RecordOutcome` | `ledger.complete` and the return |
| `Told`, `ResultOf` | what a caller walks away with: the report, and what `_order_result_from_report` makes of it for a keyed `execute_proposal` |
| `Matches`, `InComment` | the test of the reconciliation: the deal number, or `key in pos.comment` |
| `RawCall`, `RawReply` | `execute_proposal` without a key: `_send_with_retry`, outside the ledger |
| `Reconcile*` | one action per ledger or broker call of the reconciliation |
| `Restart` | external: the process dies; its requests stay on the wire |

The return codes are the classes `state_from_retcode` tells apart (`StateOf`).
The broker may decide a request at any time after it was sent. It answers
truthfully when the answer is definite; an indefinite answer comes whatever it
does, now or later (`MayAnswer`).

The reconciliation looks for a key as a *part* of a position's comment
(`engine.py:406`), so a key is found in its own order only if its caller wrote
it there, and may be found in another's: `x:1` is part of `x:10`, and of any
strategy's name that contains it. `InComment` is that relation between keys and
calls, any relation at all in the proofs. `Silent` are the keys found in no
comment, `Own` those found in no comment but that of their own order.

**Refinement.** `Abstract` substitutes `outcome` by `OutcomeOf` (read from the
broker's sets), `earlier` by the keys filled in earlier epochs and `told` by
`ToldOf` (the class of the ledger's record), for the keys in `Own`.
`ImplementsPromise` says that every step is a step of the promise or a stutter;
TLC checks it in two runs and section 12 proves it for any number of threads,
keys, comments, retries and lives. For other keys the promise is not kept: the
ledger may confirm such a key by another decision's order while its own is
pending or was refused. `LedgerIsEvidence` says what remains true of them.

**Properties.** `AtMostOnce`, `LedgerIsEvidence`, `CallerIsNotMisled`,
`UntaggedVerdictIsFinal`, `ImplementsPromise`, `EveryCallReturns`; each is stated
in words above its definition. `TerminalOutcomeIsFinal` is what `states.py` says
of terminal states and the code does not keep (section 13). Run `execution` checks
the others over two lives of the process with a key that no comment holds;
`services` checks `LedgerIsEvidence` and the refinement with two keys of which the
first is found in the order of the second, so that the deal number and the comment
both decide.

`CallerIsNotMisled` is about whoever has an answer in hand, the thread that sent
the order and the suppressed duplicate alike. A "refused" it was told stays true
however long it holds it: no request of the key is executed or undecided, and no
other thread will send one.

**Fairness.** A thread that can step keeps stepping, and `send_order` returns
(the terminal answers within its timeout, if only with `TIMEOUT`). Nothing is
assumed of the broker, of new calls or of restarts.

## 3. The risk ladder: `BotRiskLadder`

| TLA+ | Code |
|---|---|
| `mem` | the guard's fields on the bot: `_daily_date`, `daily_start`, `_dd_positions_closed`, `_trade_date`, `trades_today`, loss streak, cooldown, `peak_equity`, week key and baseline, halt reason |
| `disk` | the file `save_state` and `load_state` use |
| `pc`, `tick` | where the manager loop is in `step()`, with the equity it read and the reason it found |
| `dash` | where the dashboard is in `reset_risk_halt()` |
| `Connect` | `connect()` with `_restore_risk_state`, at start or from `_ensure_connected` |
| `BeginStep` | the account read and the new-day branch of `_daily_dd_ok` |
| `RollWeek`, `CheckCaps`, `Arm` | `_hard_drawdown_reason` in its three phases |
| `Flatten`, `DailyGuard` | the two closing branches of `_daily_dd_ok` |
| `Manage` | `_manage_positions`: some position may be closed, its result recorded |
| `Enter` | slot, `_trades_today_ok`, `_entry_gate`, `_send_order` |
| `ResetClear`, `ResetRebase`, `ResetSave` | the field writes of `reset_risk_halt` |
| `Reads(e)` | `account_info()`: an equity, or `None`, which the code reads as 0.0 |
| `Clock`, `BrokerCloses`, `SessionDrops`, `Crash` | external |

The account can be unreadable at a connect and at any step. `connect` then takes
0.0 for the day's reference (`run.py:2852`), and so does a new day; the weekly and
the peak reference are left alone, because `_hard_drawdown_reason` looks at
nothing without an equity. A reference of 0 is one that was not taken, in the
code (`run.py:2933`) and in `SavedDayReferenceIsFixed`: once a positive reference of
a day was saved, the file holds that one for the rest of the day. What a 0 does
to the guard is in section 13.

The dashboard's three steps interleave with the loop's phases. Whether a change
is persisted follows the code exactly: a new day is, a new peak is not, an
entry counted on a fill is not.

Equities are a small set and percentages are integers; the breach test is the
code's inequality multiplied out. Dates are indices of a tick clock. `known`,
`ruined`, `cool` and `idleSkip` are history variables: no guard reads them.

**Properties.** `NoEntryWhileRuined`, `NoEntryDuringCooldown`,
`SavedDayReferenceIsFixed`, `SavedPeakOnlyRises`, `WeeklyHaltEndsWithItsWeek`.
There is no liveness property: nothing in the guard waits. `RestartForgetsNothing`
and `SkippedTickIsFlat` are what two comments say and the code does not keep.

One race has no property of its own. `Flatten`'s second branch writes back the
halt reason that was read some phases earlier; if the operator's reset runs in
between, the reset is undone in memory. It errs on the side of not trading, so
it shows in `NoEntryWhileRuined` only as more halts than necessary.

## 4. The trading loop: `BotTrading`

| TLA+ | Code |
|---|---|
| `loop` | the manager thread: idle, managing a bot, sending or waiting, with `_send_order`'s attempt and alternative |
| `dash` | the request serving `api_emergency_stop`: bots left, positions it read |
| `paused`, `decisions` | `b.paused`; entries decided so far |
| `wire`, `open`, `gone` | external: requests undecided, positions open, positions closed |
| `BeginStep`, `ManageClose`, `EndStep` | `step()` up to the entry block |
| `Decide` | `_entry_slots_ok` and the call of `_send_order` |
| `SendOrder`, `ReceiveAnswer`, `AfterAnswer` | one `order_send` and what `_send_order` does with its answer |
| `BeginStop`, `StopRead`, `StopClose`, `StopPause` | `api_emergency_stop`, bot by bot |
| `Resume` | `api_control` with `resume`, in another thread of the server |

`ReadPositions` returns the bot's positions or nothing, because a failed
`positions_get` looks like an empty book. `unclear`, `blind` and `admitted` are
history: decisions with an answer that settles nothing, bots that decided on a
failed read, decisions taken for a paused bot. They are what
`OneOrderWhileSettled`, `CapWhileSettled` and `StopAdmitsOnlyTheRunningStep` are
conditional on. The conditions are not decoration: without them TLC finds the
violations of section 13.

**Fairness.** The loop's sends, answers and ends of step, and the dashboard's
steps: both threads run, a call into the terminal returns, and a management
pass goes through a list it read once. The broker owes nothing.

## 5. Stop management: `StopManagement`

One open position, of the bot or opened by hand, and the management passes over
it. A pass reads the tick and the position once; seven paths then compute stops
from that snapshot, one after the other, and most compare with the snapshot
before `_modify_sl` compares with the stop the broker holds.

| TLA+ | Code |
|---|---|
| `pos` | external: the position at the broker (stop, target present or not, volume) |
| `kind` | bot trade, or a manual trade in mode SMART, FULL or OBSERVE |
| `pass` | `_manage_positions` for this position: place, tick, snapshot, and the request in hand |
| `book` | `_partial_stages` and `_manual_sltp_failed` |
| `limbo` | external: requests whose answer was lost |
| `IsTighter`, `StepOk`, `SlModifyAllowed` | `sl_guard.py` and `_sl_modify_allowed` |
| `Intel` … `Trail`, `Ratchet`, `Wanted` | what each path asks for; `Optional` marks conditions left open |
| `BeginPass`, `BeginRatchet` | the start of the loop body, and `_ratchet_for_lock` as a pass of its own |
| `Protect` | the manual-trade block with `_modify_sltp` |
| `Exit` | the early and the late exits, each an attempt that ends the pass |
| `Modify(path)` | a path's conditions with `_live_sl` and the comparison in `_modify_sl` |
| `SendDone`, `SendRefused`, `SendLost` | the answer of the SLTP request |
| `CutDone`, `CutLost`, `CutNot` | the two stages of `_partial_close` |
| `UserEdits`, `Closes`, `LateExecution`, `Restart` | external |

Prices are points from the entry in the trade's favour, so a buy and a sell are
the same model: the code's two branches are mirror images. `_live_sl` falls
back to the snapshot when the read fails or the position is gone. The
reasoner's proposals, swing lows and the reasons to close are free choices.
`mover`, `pass.clean`, `pass.ground` and `doubt` are history: on what grounds
the stop moved last, whether the pass met no refusal or interference, and
whether a partial close was lost or forgotten. No guard reads them.

**Properties.** `MovesOnlyTighten`: a stop that was compared with the broker's
only tightens, whatever the earlier paths did (the mutant that compares with
the snapshot loosens a locked stop back to break-even). `StopProtects`: no path
asks for a stop beyond its tick. `WinnerIsSecured`: what the break-even, early
and trailing paths achieve together. `RemainderIsTradeable` and
`ScaleOutIsBounded`: the two stages, whose shares come from one snapshot, leave
a volume the broker can trade and take no more than half and a quarter.
`EveryMoveTightens` is what `sl_guard.py` says of every stop change and
`_modify_sltp` does not keep (section 13).

The conditions say where the guarantees end. `MovesOnlyTighten` excludes a move
of the stop between the comparison and the order, and a comparison that fell
back to the snapshot: there is no compare-and-set at the broker, so either can
loosen. `ScaleOutIsBounded` excludes a restart after a stage, because
`_partial_stages` is kept in memory only and the stages then repeat, and a
partial close that was not answered, because it is repeated too.

There is no liveness property: a pass is straight-line code, and the broker may
refuse every request.

## 6. Entry rules and sizing: `Sizing`, `BotEntryRules`

`Sizing` holds the three sizers (`_size_lot`, `size_within_budget`, the
engine's `calculate_lot_size`) and their scalers as operators on integers: money
in grains, volumes in hundredths of a lot, so that no factor is rounded away.
`BotEntryRules` puts them into one bot's step, with everything else that decides
whether an entry is made.

| TLA+ | Code |
|---|---|
| `tracker`, `TrackerAfter`, `MustClose` | `DailyTargetTracker` in `daily_state.py`, `_apply_daily_target` |
| `track`, `Manage`, `until`, `PausedUntil` | the trade the bot has seen, the detection of its end in `_manage_positions`, `DirectionCooldown` |
| `trades`, `pnls` | the trades table (the day's realised result) and `_recent_pnls` |
| `BeginStep`, `Manage`, `CloseBar`, `Enter` | `step()`, in its order |
| `EntryAllowed`, `Multiplier` | the gates before `_send_order`, and the product of rung, streak and network boost |
| `BrokerCloses`, `MarketMoves`, `NextDay`, `DashboardEditsTarget`, `Restart` | external, between any two phases |

The losing-streak brake is off unless `streak_sizing` is set (`run.py:544`, `2717`).
`Enter` chooses the switch freely: `LossesCounted` is the streak when it is on and
0 otherwise, and `Multiplier` has its factor only when it is on.

The drawdown ladder is an input here (`rung`). A close that the bot makes is
recorded; a close by the broker is not, and is learnt a pass later from the deal
history or from the last profit seen. `entry`, `lossBar` and `lockedDay` are
history.

**Properties.** `LosingDirectionPauses`, `NoEntryAfterLock` (a day seen to reach
its target opens nothing more, whatever happens to the net or to the target),
`EntryRiskIsBounded` (the rung, the streak where it is counted, and the boost
together, and what the forced minimum lot may cost; with the brake off a losing
streak bounds nothing). The first two hold per life of the process: neither the
pause nor the latch is saved, so `Restart` clears the history with them.

## 7. The central gate: `RiskEngine`, `Orchestrator`

`RiskEngine` splits `approve` at its four lock regions (`ApproveBegin`,
`ApproveStop`, `ApproveCount`, `ApproveCooldown`); between two of them any other
method runs. The two day resets go through the two dates the code keeps, and the
week is its ISO number, without the year. `Orchestrator` extends it with
`evaluate`: `Analyse` (the refusals that only read the market, `TargetFor`),
`LookUpPositions`, `Approve`, `Conclude` (the verdict, which ends the call or goes
on to `_send_with_retry`), then `Request`, `Requote`, `Execution` and `Answer`:
the request leaves, the broker may execute it while the thread waits, and an
answer frees the thread. An answer that settles nothing counts as a failure
(`orchestrator.py:317`) and leaves a request behind (`late`) that `LateExecution`
may execute at any later time, when the same thread is approving another; `strays`
counts those executed. `Monitor` stands for the caller that the engine's
docstrings ask for and the repository does not have: no code calls
`update_equity`, `record_trade_result` or `on_trade_opened`.

**Property.** `RiskGateIsSound`, of two parts. `StopAdmitsOnlyRunningCalls`: after the
kill switch, each thread sends at most the order whose approval was already past
the switch. `CapOvershootIsBounded`: the cap is compared with a count taken
earlier and nothing is reserved, so overlapping threads exceed it, by at most
one position for each of the other threads, and by one more for each request
executed after its caller was told of a timeout.

Two details of the engine. A missing account gives the equity of the session's
start, an account that shows zero or less is taken as it is (`hasAccount`,
`equity`; `OrElse` is Python's `or`, by which a reference of 0 counts as unset).
The loss streak is counted without limit in the code and here, where `MaxLosses`
only bounds how many losses a behaviour has.

## 8. The market and the entry plan: `MarketLocation`, `EntryPlan`

`MarketLocation` is `core/market`: `ConfirmedSwings`, `Alternating`, `Structure`,
`BuildLevels`, `ScanLiquidity`, `ActiveRange`, `EntryGate` and `StructuralStop`
are the functions of `swings.py`, `structure.py`, `levels.py`, `liquidity.py` and
`location.py`. The one action, `CloseBar`, appends a bar and makes the analysis
again from the newest `Window` bars and their ATR, as the code does: nothing is
remembered, so what an earlier analysis said can only be kept if the functions
agree. `run.py:2643` passes no ATR, so `resolve_atr` takes the newest bar's, and
with it every edge and margin is scaled anew at each bar: `CloseBar` chooses one of
`AtrValues` each time. They are multiples of 40, so that the fractions taken of
them are whole, and 0 stands for a series too short for one. Scores and
confidences are left out, and with them the cut to the 24 strongest zones and
the first 16 pools: what falls out of a list by rank is not taken back by what
is modelled. `EntryPlan` adds the entry half of `dynamic_sltp.py`: `CalculateEntry`,
which uses the structural stop and the pool only of a location that `is_valid`
and multiples of the ATR otherwise, and its safety guard `ValidateEntry`.

**Properties.** `ConfirmedNeverRepaints` is an action property about every pair of
consecutive analyses, for as long as what they speak of is inside the window. A
confirmed swing stays, whatever the ATR does. A broken zone and a swept pool of
the same members stay broken and swept, at the same bar or an earlier one, as long
as the ATR does not rise; when it rises, wider margins can take both back (section
13), and the property does not claim otherwise. `EntryIsDefensible` joins
`StopIsDefensible` (0.75 to 3 ATR away after rounding to a tick as coarse as the
ATR), `EntryIsBalanced` (the reward is the configured multiple of the risk really
taken, up to the rounding of each price) and `FadesOnlyTheExtreme` (an entry
against the trend only in the last fifth of the range).

## 9. Two writers of one stop: `PositionRules`

`core/position/manager.py` and the reasoner of `dynamic_sltp.py` may move the same
stop. `ManagePositions` decides and `ModifyPosition` is the guard of
`ExecutionEngine.modify_position`, which reads the stop again before
`ManagerSends`; `EvaluatePosition` and `ReasonerSends` are the other writer, whose
guard compares with the stop it was shown. `ManagerProposals`,
`ReasonerProposals`, `WithCorrectionBuffer` and `ValidateNewSl` are the rules.

**Property.** A stop that only tightens is not to be had: either writer may send
over a tighter stop it has not seen. `NeverLooserThanFirstStop` is what remains, and
holds because every comparison was with a stop that itself kept to the first. It
needs a market that stays within half of the opening price (`PositionAssumption`):
beyond it the manager trails a position that has no stop (section 13), and may
then overwrite the first stop with a looser one.

## 10. The services

**`Supervision`: helpers and the link.** `TrainerTick`, `Failed`, `JobTick` are
`ManagedProcess` and `PeriodicJob` of `core/runtime/helpers.py`; `ConnectBegin` …
`DisconnectEnd` and `Watch`, `Reconnect`, `TryReturns` are the application thread
and the watchdogs of `core/mt5/connection.py`. `disconnect` waits five seconds
for the watchdog and goes on without it, so several may run at once; the stop
event is shared. Time is counted in units of the smallest delay. `ServicesRecover`:
a dead trainer runs again or is given up, one that outlives the bot ends, a
hanging collector is stopped, and a lost link comes back once the terminal stays
up. A watchdog is not ended by an exception: `is_connected` of the adapter
catches its own and answers False (`core/mt5/adapter.py:209`), and nothing in the
repository registers a callback; a callback of a later caller that raises would
end the thread, and the property with it.

**`Bridge`.** One action per guard of a request in `bridge/app.py`, in the code's
order, each with its own look at the terminal; `cache` is `_IdempotencyCache` with
its expiry, `Restart` loses it. `OneOrderPerWindow`: two requests with one key are
never both sent by one bridge process within the window.

**`EnsembleModel`.** `AIEnsemble` of `run.py`: each retraining is a thread that may
overlap the last (`Judge`, `Promote`, `SaveBegin`, `SaveEnd`), and `Predict` reads
the live model and its record. A model is what was measured of it. `VotesAreEarned`:
whatever overlaps, fails or is restored from the file, the pipeline behind a
vote was measured, and had the edge the configuration asks for.

**`NeuralModel`.** The trainer's cycle in `nn_trainer.py` and the reload in
`nn_predictor.py`, which looks at the file's time and then reads it, while the
trainer may replace it. The stat may fail (`CheckFails`: the file counts as gone
until the next one), and so may the load, of a sound file too: the file's time was
recorded before (`nn_predictor.py:105`), so a failed load is not tried again until
the file changes. `PredictorIsCurrent`: with nothing left to notice, the predictor
has tried to load what the file holds now, and a signal it gives is that very
network's, successfully loaded and with the edge asked for. That a sound file is
loaded in the end is not true and not claimed.

**`RuntimeSettings`.** The handlers that edit parameters (`PostConfig`,
`PostSettings`, `PostStrategy`), `ApplyNext` (one parameter at a time, seen by the
bots' thread), `FormRaises` (a later field of an old form is no number: what was
applied stays, nothing is written), `Persist` (the `.env` file) and `Restart` (at any
point, after the file was emptied too). A write may fail before the file is
opened, and leaves it as it was, or after, when `open('w')` has emptied it
(`run.py:854`): a file torn in the middle of the write counts as one without
lines. Four parameters stand for the ways a value is converted on its way to the
file and back. Twelve of the schema's parameters are written to the file and read
by no start, so no property of this kind holds of them, and they are left out:
`AI_PROTECT_MANUAL_TRADES`, `DEVIATION`, `DYNAMIC_RISK`, `ENABLE_BREAKEVEN`,
`ENABLE_PARTIAL_CLOSE`, `LONDON_START_UTC`, `LONDON_END_UTC`, `NY_START_UTC`,
`NY_END_UTC`, `MANUAL_TRADE_SL_ATR`, `MIN_RISK_SCALE`, `SLEEP_INTERVAL`.
`SavedSettingsSurvive`: between requests every bot agrees with the module's values,
and a restart reads them back, for every parameter whose last change the file has
not lost (`stale`: to a form that raised after applying it, to the section that
saves nothing, or to a failed write, which after the truncation loses all of
them). The timeframe is excluded because one of the forms writes it as a number
that a start cannot read.

**Fairness** in `services`: weak fairness of `TickHelpers`, `Elapse` and `ParentWatch`
(the manager loop, the clock and the child's own watch keep running), of
`ConnectEnd` and `DisconnectEnd` (a call that was begun returns) and of each
watchdog's steps. Nothing is assumed of crashes, exits or the terminal;
`LinkIsRestored` has the condition that the terminal stays up.

## 11. The runs

| Run | Module, cfg | What it shows |
|---|---|---|
| `execution` | `OrderExecution_Main` | two threads, a key and a call without one, one retry, a reconciliation, a late broker and two lives of the process with requests left on the wire: the properties of section 2, liveness and refinement included |
| `execution_terminal` | `OrderExecution_Terminal` | violation of `TerminalOutcomeIsFinal` |
| `ladder` | `BotRiskLadder_Main` | two days of one week and the first of the next, with any two of process deaths, lost sessions, unread accounts and resets, at any points of `step()` |
| `ladder_restart`, `ladder_skip` | `BotRiskLadder_Restart`, `_Skip` | violations of `RestartForgetsNothing`, `SkippedTickIsFlat` |
| `trading` | `BotTrading_Main` | two decisions of a bot, each resent on a requote and on an unsupported filling mode, against every answer; stop and resume at any time |
| `trading_retry`, `trading_stop` | `BotTrading_Retry`, `_Stop` | violations of `UnknownIsNeverRetried`, `StopMeansStopped` |
| `stops_main` | `StopManagement_Main` | every kind of trade, every order of a pass's requests with their refusals, and one edit, failed read, lost answer or restart at any point |
| `stops_widen` | `StopManagement_Widen` | violation of `EveryMoveTightens` |
| `rules` | `MCRules` | the properties of sections 6 to 9: what may open a position, how large, with which stop, and who may move it |
| `services` | `MCServices` | the properties of section 10, liveness included, and of section 2 the refinement and the evidence with two keys, one of them found in the other's comment |

`Rules` and `Services` put components that share no state into one specification
each; `MCRules` and `MCServices` add the constants a configuration file cannot
hold. A variable `focus` chooses one component at the start of a behaviour; the
variables of the others keep their initial values. So a run is the union of the
components' behaviours and never their product, and each property is checked on
all behaviours of its own component.

**Bounds, and why they are enough.** `MaxRetries` = 1 gives a first attempt, a
retry and the exhausted loop. `MaxEpoch` counts lives; two are needed for a
request that outlives its sender. `MaxTime` = 2 with one tick per day and two
days per week crosses a midnight and a week. `MaxUpsets` counts process deaths,
lost sessions, unread accounts and resets together: two of them in `ladder`, in
any combination and at any points, so that a reference of 0 meets the reconnect
that follows it; one is enough for the two violations. `Equities` of two values can
rise, fall and breach every cap; the two violation runs use three, to breach and
recover. `Attempts` = 2 and `Alternatives` = 1 take every branch of
`AfterAnswer` but a second alternative; `MaxDecisions` = 2 makes one decision
meet the remains of another. One bot is enough in `trading`: the loop is
sequential and bots share nothing but the terminal and the dashboard's pass. In
`stops_main` the four prices are a loss, a profit between the early and the
trailing thresholds, one past trailing with the widest distance, and one past
every threshold; the three anchors are below, at and above break-even, and one
is above the smallest profit. The distances keep the order of the default
configuration, where the first trailing distance is larger than its threshold so
that the break-even floor decides. Sixteen lots with a smallest lot of two let
both stages run, and a third one would too. `MaxFaults` = 1 puts one fault at
every point, and section 12 proves the same properties for any number.
`MCStopManagement` only holds the constants a `.cfg` file cannot write, negative
numbers. The invariants of `trading` hold with two alternatives as well (checked
once, without liveness), and section 12 proves them for all values, any number
of bots included.

In `rules`, the entry rules see four bars, two days, a cooldown of one bar, a
memory of two results, a target that may be switched off, a news event on one bar
and one recorded close: enough for a loss, its pause, the end of the pause and the
next entry, and for a target reached, edited and passed by midnight. The gate has
two threads, which differ in nothing but their name (`SYMMETRY`), a cap of one
position, limits of one loss and one trade, an operator whose edits are one
permitted and one not, one request answered with a timeout and executed late, and
one tick that is a new day and a new week. The permitted edit changes nothing:
that an invalid one changes nothing either is what the type invariant's mutant
tests. Two threads with one stray can open three positions; `MaxPositions` = 4
does not stop them. The market prints six bars of four shapes with pivots of one
bar on each side, an ATR of 40 or 120 at each bar, analysed five bars at a time,
with ticks of 0, 7 and 40: the shapes swing, sweep a high, break a low and trend,
five bars confirm swings of both kinds, break zones and sweep pools, and the sixth
moves the window and the ATR. The two writers see four prices, below the opening,
around break-even and beyond one risk, with a first stop or none. The run is the
longest: about 610,000 states, three minutes.

In `services`, three quick failures and delays of one and two units reach the
give-up, two watchdogs meet (a third would repeat the second), two requests share
one key remembered for one unit over two bridge lives, two trainings overlap every
second bar with samples that pass, pass without a ranking score and fail, nine
bars let the network's cycle run, skip and run again, and two edits through any
two forms, one or two parameters each, meet a restart at any point. Order
execution has two threads and two keys, both found in the comment of the second's
order, without a retry; run `execution` has the retry and the restart with one
key, and the invariants are proved for any number of keys, comments and lives. The
constants are in the two modules, because a `.cfg` file cannot write records and
negative numbers.

Deadlock is not checked: each model stops when its bounds are used up, and a
bot that is paused and idle is a legal end.

Every property has a mutant in `PROJECT.json`: a slip one could make in the
code (a dropped guard, an off-by-one, a missing persist, an answer counted as a
refusal) that makes TLC report the property violated. Their definitions stand
beside the ones they replace and nothing else uses them.

## 12. The proofs

| Module | Theorems |
|---|---|
| `OrderExecution_proofs` | `TypeCorrect`, `ExecutedAtMostOnce`, `LedgerTellsTheTruth`, `CallersAreToldTheTruth` |
| `OrderPromise_proofs` | `PromiseKept` (the refinement), `UntaggedVerdictStands` |
| `BotRiskLadder_proofs` | `LadderTypes`, `RuinBlocksEntries`, `CooldownIsServed`, `DayReferenceFixed`, `PeakOnlyRises`, `WeeklyHaltEnds` |
| `BotTrading_proofs` | `TradingTypes`, `OneOrderPerDecision`, `CapHolds`, `StopAdmitsOne` |
| `StopManagement_proofs` | `StopTypes`, `NeverWidened`, `NoStopBeyondPrice`, `WinnersSecured`, `RemainderTradeable`, `ScaleOutBounded` |
| `Rules_proofs` | `LockedDayStaysShut`, `LosersPause`, `EntryKeepsBudget`, `GateHolds`, `StopNeverLooser`, `RulesType` |
| `Market_proofs` | `EntriesDefended`, `NothingRepaints` |
| `Services_proofs` | `OneOrder`, `PredictorFollowsFile`, `VotesEarned`, `SettingsSurvive`, `ServicesType` |

**Assumptions.** Each module names what it needs of its constants, and TLC
evaluates all of it on every run. Most say that a count is a natural number or
that two kinds of names are different. Those that say more:

* `LadderAssumption`: caps are percentages; `BotTradingAssumption`: caps and attempts
  are positive. `CapHolds` needs no finiteness of the set of bots.
* `StopAssumption`: the break-even buffer is not beyond the trailing threshold. With
  a larger buffer the floor of the trailing stop would lie beyond the price, and
  `NoStopBeyondPrice` is false.
* `EntryAssumption`: sizing inputs are integers, and a symbol that has the data to be
  sized with loses money at its stop, which is what a tick size and value mean.
* `EngineAssumption`: the callers are finitely many and every limit stays in the range
  `update_config` permits (`RiskConfig`'s validation), of which the cap's is bounded.
* `PositionAssumption`: prices within half of the opening price, see section 9.
* `LocationAssumption`: a bar is three whole numbers with its close between its low
  and its high, an ATR is a multiple of 40, and at least one bar is fetched.
* `PlanAssumption`: the default multiples of `location_stop_min_atr`, `sl_atr_mult`
  and `location_stop_max_atr` are in that order, as in every profile
  (`run.py:576`), and the tick and the broker's minimum distance are small beside
  the smallest stop. The settings forms check only the first against the third.
  Where the tick is wider than the bounds are apart, no price on the grid lies
  between them, and where the broker's minimum is larger the broker decides the
  stop: there `EntryIsDefensible` is false.
* `NeuralAssumption`: the series is at least as long as the shortest training window.
* `SettingsAssumption`: an absent line is not the text of any value.
* `SupervisionAssumption` also says that powers of two are numbers, because the
  provers know nothing of `^`.

*Order execution.* `AtMostOnce` is not inductive: a state in which an attempt is
on the wire while its thread is about to retry satisfies it and breaks it in
two steps. The strengthening `OnceInv` says that a claimed key has one owner
(`OneOwner`), that attempts are numbered without gaps up to the thread's count
(`AttemptsInOrder`) and that all but the last are refused (`LastAttempt`), which
is why a retry is harmless. `EvidenceInv` adds that each record, each report in
a thread's hand, each answer a caller was given and the reconciliation's snapshot
are backed by the broker's sets (`ToldIsClosed` for a refusal that was told: its key
is used up, and nobody submits it any more); it implies `LedgerIsEvidence` and
`CallerIsNotMisled`.

*The promise.* `ImplementsPromise` takes one lemma for each action (`BeginKept` …
`RestartKept`): which step of the promise it is, or why it is a stutter. Most
follow from `EvidenceInv`. Reconciliation needs one fact more, `SnapshotInv`: what
the thread has in its snapshot has a record, a key found in no comment is written
only after a deal found by the number its own record holds, and a refusal names
no deal. A key in `Own` is confirmed by its own order, whichever way it was found.
The same invariant gives `UntaggedVerdictStands`.

*Risk ladder.* The properties are about steps, and follow from an invariant that
ties memory, file and history: `RuinInv` (an armed halt is in memory or about to
be restored from the file), `CoolInv`, `DayInv` (while memory and file are of the
same day, a positive reference in the file is the one in memory), `PeakInv`,
`WeekInv`, and `Threads`, which says what may hold in each phase of `step()`.

*Trading.* `OrderInv` follows a decision through its resends: before each send
every earlier request of a settled decision was refused. `CapInv` reserves a
place for the entry in progress, so the cap test made once before the first
send is enough. `StopInv` says that a decision beyond the pause belongs to the
step that was running.

*Stop management.* `GuardInv` says that the request in hand is tighter than the
stop it was compared with, until somebody else moves it. `SecureInv` follows a
clean pass: its stop is never behind the snapshot's, so when the trailing path
asks for nothing the snapshot's stop, and hence the live one, was at break-even
already. `RemainderInv` relates the volume to the snapshot's at each stage; what
the second stage leaves is at least what it takes (`ShareBounds`), which is why
its test on a volume that is out of date is still enough. `ScaleInv` says which
part of the first volume the stages not yet taken still vouch for.

*Rules.* Each component has an inductive invariant of its own, kept by its own
steps and untouched by those of the others, so a theorem takes only what it needs.
`EntryInv`: a locked day's tracker is not ACTIVE for as long as the day lasts
(`LockKept`), the pause of a direction is at least what its last noticed loss asks
for (`PauseKept`), and the entry on record kept to its budget (`EntrySafe`, from
`SizeKeepsBudget`, `MultiplierBounds` and `BoostBounded`, the lemmas about
rounding down, the product of the scalers and the boost). `GateInv`:
`CapOvershootIsBounded` is not inductive, since a thread that was counted out may
still send. `CapKept` counts for each symbol the threads whose approval may still
become a position (`Claims`): every one of them saw a count below the cap, so open
positions and claims together stay below the cap, the number of threads and the
strays. A thread answered with a timeout drops its claim; the request it leaves
behind pays with a stray when it is executed. `SwitchKept` says that a thread past
the kill switch has sent nothing since it was set. `StopInv`: what a writer is
about to send, and what it was compared with, is never looser than the first stop;
`ManagerTightens` and `ReasonerTightens` are the lemmas about the two writers'
rules, down to the choice of the tightest proposal.

*Market.* Here the invariant is simple, `MarketInv`: the series is one of bars and
the view is what the analysis says of its window under one of the ATRs. The work
is in the analysis, which sorts and folds; induction over data is out of the
provers' reach as a scheme, but the existence of a least counterexample is not,
and `LeastOf` (from the library's theorem on well-founded subsets) gives what is
needed. `FoldTyped` and `FoldKeeps` say what a fold keeps, for the function behind
`FoldLeft`; `Ranked` and `SameSorted` that a finite set has one ordered sequence.
They speak of functions and relations, because a lemma with an operator for a
parameter cannot be applied; for the same reason the model writes `InOrder` and
`Those` where it could have written `SortSeq` and `SelectSeq`. `NothingRepaints`
then has three parts. A swing looks at a fixed number of bars, and those of a
confirmed one end before the newest and begin inside the fetched ones
(`ConfirmedStays`). A cluster is a nonempty sequence ordered by price, so the set
of its members determines it (`SameCluster`), whatever tolerance gathered it. And
under an ATR that did not rise every margin is as narrow as before or narrower
(`MultiplesGrow`, `SnapMonotone` for the edges that are rounded to a tick), so
each bar that broke or swept still does, and the first that does is no later
(`ZoneStays`, `PoolStays` and `FirstNoLater`). `EntriesDefended` is arithmetic:
rounding moves a price by half a tick at most, whole ticks bring a stop back
between bounds that are a tick apart (`HeldOK`), and the critic's target pays the
multiple of the risk with what the roundings cost (`RewardPays`).

*Services.* `BridgeInv`: the age of an admitted request is that of its key's entry
in the cache, until the entry is forgotten. `NeuralInv`: what the predictor took
up is the file's content or `changed` is set, and a signal is that of a network it
has loaded. `EnsembleInv`: every record that can become live, in the model, the
file or a training's hand, is a measurement of the pipeline beside it.
`SettingsInv`: for each parameter the text in the file reads back to the value in
force, unless it was lost (`stale`) or an edit under way has applied it and not
yet written it; that edit still holds its text. `ProcessInv` is the type invariant
with the link between a launch and its failures, which keeps the delays in their
range.

**Only model-checked.** Liveness: `EveryCallReturns`, `StepReturns` and `ServicesRecover`
rest on fairness, hence on ENABLED, which the prover does not reason about.
`PromiseKept` is a theorem about `OrderExecution` for all its constants; run `services`
instantiates that module with other constants and checks the same definition, so
nothing is proved again there. The type invariant of `OrderExecution` covers both
runs likewise. The six violations of section 13 are counterexamples TLC finds,
and need no proof. Every other property of a passing run has a theorem.

## 13. Where code and documents disagree

Six statements of the repository are not what the code does. Each is a run
that ends in a violation, with the finding in `PROJECT.json`.

* `execution_terminal`: reconciliation writes `FILLED` over a record completed
  after its snapshot, so a terminal state changes without a new action.
* `ladder_restart`: the daily reference `connect()` takes is not saved, and
  counted fills are not; a reconnect grants a second budget.
* `ladder_skip`: the flatten-once flag outlives the breach that set it, so later
  ticks are skipped with a position open.
* `trading_retry`: an `order_send` that returned `None` is sent again with
  another filling mode.
* `trading_stop`: a step already running when the stop pauses its bot can still
  open a position.
* `stops_widen`: giving a manual trade its missing target moves a stop that is
  closer to the price than the broker's minimum away from the price.

Seen while reading, or met while modelling, and not shown by a run of its own:

* *Reconciliation.* It looks for a key as a part of the comment, so a position of
  `x:10` confirms `x:1` as filled (`core/execution/engine.py:406`). The conversion for
  keyed callers tests `ExecutionState.PARTIAL_FILL`, which the enum does not have
  (`engine.py:47`): a rejected or cancelled order raises `AttributeError` to the caller
  of `execute_proposal`, and the `REJECT` answer below it is unreachable. The ledger has
  its record by then, so nothing is sent twice.
* *Unreadable account.* With `account_info()` giving `None`, `connect` and a new day take
  0.0 for the day's reference (`run.py:2852`), which switches the daily guard off until
  the next connect or day. In the middle of a day it is the opposite: an equity of 0
  is a loss of everything, and all positions are closed. A reset after a
  connect that found no account may put the peak at 0.
* *Late answers at the gate.* The orchestrator takes a timeout for a failure
  (`core/trading/orchestrator.py:317`), so an order executed after it exceeds the cap on open
  positions. That the keyed path exists for exactly this is no help: the
  orchestrator calls it without a key.
* *Levels under a rising ATR.* Every analysis rescales its margins with the newest
  ATR (`core/market/series.py:57`): a zone that was broken, or a pool that was swept, by less
  than the wider margin is unbroken or resting again at the next bar.
* *Risk gate.* No code calls `update_equity`, `record_trade_result` or
  `on_trade_opened`, so for the orchestrator the references stay unset and
  `max_trades_per_day` never binds; the orchestrator, the core position manager,
  the connection manager and the event log are constructed in tests only. The
  weekly reset compares ISO week numbers, so the same week of the next year is
  no new week (`core/risk/engine.py:234`).
* *Closes.* `_record_trade_result` is called by `_close_position` only: a position
  the broker closes reaches neither the trades table nor the losing streak nor
  the day's realised result. A trade that opens and closes between two passes
  is never tracked. `tests/unit/test_manual_trades_and_order_execution.py` says
  manual trades are never closed by a trend flip, and the H1 trend-flip close
  does not ask whose trade it is (`run.py:4739`).
* *Daily target.* `_apply_daily_target` returns early when the target is 0, so
  disabling the target while the tracker is LOCKING keeps entries blocked, while
  `daily_state.py` says that such a target means "always ACTIVE". `restore()` has
  no caller: the latch and the re-entry pause end with the process.
* *Stops.* A `_modify_sl` later in a pass sends the snapshot's target, erasing one
  that `_modify_sltp` has just set. `core/position/manager.py` measures "1R" from
  the stop of the moment, so it shrinks as the stop is moved (lines 182, 215), and
  takes the distance to a stop of 0, the whole opening price, for the risk of a
  position that has none: once the price has moved by half it trails it, where the
  comment says it cannot without a stop (line 217).
* *Entry plan.* `calculate_entry_sltp` asks for Fibonacci extensions that the
  location never provides, and measures the reward before it widens the stop.
  `structure.py` claims a causal classification, but a confirmed pivot is
  replaced by a later, more extreme one of its kind.
* *Models.* A model that could not be measured (too small a window,
  `run.py:1669`) is installed, saved and erases its predecessor's record, against
  the comment that the file always holds a model that cleared the gate
  (`run.py:1839`); the edge gate of `predict` keeps it silent unless it is
  switched off. Overlapping trainings share one temporary file. A champion that
  cannot be read or evaluated counts as absent (`nn_trainer.py:200`). A network
  signal of an earlier bar is kept when the predictor is switched off or raises. A
  load of a sound network that fails once is not tried again until its file changes
  (`core/ai/nn_predictor.py:105`).
* *Bridge.* A key is used up before the order is validated, so a corrected retry
  gets 409; `/ready` answers ready with no expected login, where writes answer
  503; the lists are empty, with code 200, when there is no terminal. The
  account is checked when a request begins and not when it is sent.
* *Link and helpers.* A watchdog that outlives `disconnect` may set CONNECTED again.
  The collector is given no parent to watch, so one that hangs outlives a crash.
* *Settings.* A timeframe saved through `/api/config` is a number that a start
  cannot read (`run.py:424`), so the bot returns to M15; several saved parameters
  are never read back; `.env` is emptied before it is written, so a failed write loses
  every line of it, and is answered with "ok"; a form with a bad later field is half
  applied and not saved (`run.py:5317`); a percentage typed as 0.05 becomes 5; cross checks see only
  the pairs inside one payload; the old settings form arms live trading with no
  confirmation.

## 14. Not modelled

`PROJECT.json` ("components") gives the reason for each component.

* *Numerics.* Signals, scores, features and the training of either model are
  floating-point computations: the models take their results as free choices,
  and check what is done with them.
* *Accounts and licensing.* The seat count and the insertion are separate
  statements of a transaction: whether two sessions can exceed the licence is
  decided by the database's isolation level, which the code does not choose.
* *Event log, notifications.* They drop or delay messages and nothing reads back
  what they wrote.
* *Database, migrations, dashboard views, backtests, scripts.* They keep no state
  that trading reads.
* *Inside modelled parts.* The ladder leaves out the half-size rung (an input of
  `BotEntryRules`), dry-run mode and a failing disk write; position management the
  display fields; the market analysis its scores, the cut of its lists to the
  strongest, the volume profile and the pipeline's cache; the settings their audit
  table, the parameters no start reads, and a file torn in the middle of a line;
  `close_position` of the
  execution engine, which shares `_send_with_retry`, is not an action of its own.
* *The composition of all of it.* The bot's step is split over four modules by
  concern, the ladder, the loop, the stops and the entry rules, each with the
  others' results as free choices. So what is shown of one holds whatever the
  others do; properties that need two of them at once are not stated.

## 15. Plan

Every invariant and action property that a passing run checks is now a theorem.
What is left, in this order:

1. Two components at once: the ladder's halt with the loop's cap and the stop
   manager's volume in one step of one bot. The union of behaviours of `Rules` says
   nothing about a property that needs two of them.
2. The accounts service, with the isolation level of its transactions as a
   constant: the seat count is safe under one level and not under another, which
   is a result worth stating.
3. The network's trainer, whose champion counts as absent when it cannot be read:
   a property of two files and two processes.
4. Weaker assumptions where a proof uses more than the code justifies; the first
   candidate is the order of the multiples in `PlanAssumption`, which the settings
   forms do not enforce.
