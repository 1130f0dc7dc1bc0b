# Formal model of the regime-detection engine

TLA+ modules, TLC configurations and TLAPS proofs for the program in `src/`: an
engine that classifies every trading session of a market into regime labels, the
shadow mode that qualifies it for use, and the pipeline that acquires, publishes
and materialises its data and builds its event calendar. Paths below are relative
to the repository root (`src/src/...` is the Python package tree,
`src/scripts/...` the entry points); a bare file name is one of
`src/src/regime_detection` or `src/src/regime_data_fetch`.

1. [Inventory](#1-inventory) - the system, its state, its operations, its hazards
2. [Modules](#2-modules) - how state and actions correspond to the code
3. [Runs](#3-runs) - what TLC checks, the bounds, the fairness
4. [Proofs](#4-proofs) - what TLAPS proves and along which argument
5. [Disagreements](#5-disagreements) - where code and documentation part
6. [Not modelled](#6-not-modelled) - limits, and what comes next

## 1. Inventory

Three layers, connected by files and SQLite databases; nothing is called across
them except through those.

**Acquisition and artifacts** (`regime_data_fetch`, `scripts/fetch_*`,
`scripts/publish_*`). Fetch modes write `data/raw`, each inside a row of the
ledger `fetch_runs`, some of them in a thread pool. A consolidation merges
acquisition databases. The event calendar is built from pages, statutes and
geopolitical signals, some of its rows only after an operator approved them. A
publisher canonicalises the raw tree, uploads each new content under a key that
holds its hash, and patches a manifest. A manifest is committed as a lockfile;
`materialize` turns it back into a tree on another machine.

**Engine** (`regime_detection`). `classify` and `classify_series` are pure
functions of a market context, but *stateful inside*: they slice a window of
sessions, replay it session by session and carry memories along it (the
hysteresis of the axes, the debounce of the transition risk, the days since an
axis switch). What is published of a session depends on all sessions before it
in the window. A session is a pipeline: ten axes in build order, an event label
set, a transition score and state, a cohort, a strategy response and the
constraints of five strategy families.

**Shadow mode** (`scripts/run_shadow_*`). A daily runner, a replay checker and a
dead man's switch are independent processes over one SQLite ledger, a directory
of archived inputs per date and an output file per date. A walk over the ledger
decides whether the program has enough consecutive clean sessions to qualify.

| component | state it keeps | operations | what is hard |
|---|---|---|---|
| label hysteresis (`hysteresis.py`) | stable label, candidate, count | one vote per session | counts that outlive their run; off by one in the confirmation |
| data-quality freeze (`hysteresis.py`, `axis_builders/per_label.py`) | gap length, last known labels | hold, give up, override | a hold that never ends or comes back after giving up |
| replay window (`timeline.py`, `engine.py`) | none between calls | slice, replay | the memory depends on where the window begins |
| feature store and input contracts (`engine.py`, `feature_store.py`, `_feature_specs.py`) | none | check a request, build features in order | three layers of checks that must agree on what is missing |
| rule tables of nine axes (`*_rules.py`) | none | readings to a label | thresholds that overlap or leave gaps; missing readings |
| data quality, coverage (`data_quality.py`, `axis_builders/*`, `classification_coverage.py`) | none | grade, age, choose the credit output | two clocks; "safe" said of a held label |
| transition score and risk (`transition_score.py`, `transition_risk*.py`) | active state, candidate, count, days since switch | evidence, precedence, refusal, debounce | emergency override against missing evidence; cooldown against debounce |
| strategy response and routing (`strategy_response.py`, `cohort_routing.py`, `effective_constraints.py`) | none | modifiers, event overlay, cohort, vetoes | later modifiers overwrite earlier ones; missing data routed to a calm cohort |
| event labels (`event_calendar.py`) | none | load, window, label | point, bulk and replay answers that differ; foresight |
| event calendar build (`event_sources/`, `event_calendar*.py`) | candidates, quarantine, overlay, calendar, report | fetch, triangulate, approve, render | two processes over files that are not written atomically |
| fetch workflow (`fetch_regime_engine_v1_data.py`, `fetch_workflow.py`, fetchers) | files under `data/raw`, the pool | groups of modes, each a program of reads and writes | one mode raises while others run; histories that sources no longer serve |
| run ledger (`acquisition_store.py`) | `fetch_runs`, artifacts, outputs, lineage, checkpoints | start, finish, record | methods of several commits; nested runs and exceptions |
| consolidation (`acquisition_consolidation.py`) | target database | read sources, map ids | the sources change while they are read |
| OHLCV refresh (`local_daily_ohlcv_sqlite.py`) | a file per symbol, a row store | merge, import | files written in place; a stale database |
| artifact store (`artifact_store.py`) | objects by key | put, get | a torn copy under the key of the true content |
| publisher (`publish_canonical_snapshot.py`) | raw tree, manifest | select, digest, upload, patch | kills between upload and patch; content that comes back; files that are missing or break their contract |
| materialisation (`materialization.py`) | the local tree | stage, verify, promote, roll back | failures and kills between two renames, and inside the rollback itself |
| shadow ledger (`shadow_storage.py`, `run_shadow_regime.py`) | runs, incidents, replay checks, archives, outputs | run a date | crashes between commits; reruns; config changes; dates out of order |
| replay checker (`run_shadow_replay_check.py`) | replay checks, incidents | compare, report | crash between the check and its incident |
| dead man's switch (`run_shadow_deadman_check.py`) | incidents | look at the previous session | books incidents that break the window it watches; looks while a run is under way |
| qualification (`shadow_qualification.py`) | none | walk back | the incident window shrinks on the way; weekends |

`PROJECT.json` lists every component, also the ones that are not modelled, and
every hazard at its line with the properties that watch it.

What makes each component correct:

- *hysteresis*: a stable label is left only after an uninterrupted run of the
  new raw label that is long enough; a label that runs long enough always wins;
  the published active label never under-reports the risk the rules saw.
- *freeze*: a hold is bounded, only continues what the last row showed, and a
  forced session shows held labels or `unknown`, never a guess.
- *replay window*: two replays that overlap agree after a long enough run, and
  never part again.
- *rules*: a reading that moves towards stress never calms the label; an axis
  says `unknown` only for want of a reading; what credit says names a systemic
  stress but does not rank it.
- *session*: an outage never routes to a calmer cohort, events only tighten, the
  credit label that goes downstream is no calmer than any usable signal, "safe"
  is said of labels made from that session's own data, a crisis survives the
  loss of the data that showed it.
- *transition risk*: no published state changes on less than its confirmation; a
  crisis shows on its day; a requested session is never published on unknown
  evidence.
- *events*: an unapproved shock labels no session; every approval a build loaded
  is either in the calendar or in the report; replays see what the live run saw.
- *acquisition*: no fetch loses a date of a history; an imported run is whole; a
  manifest pins the files of finished runs; every invocation ends.
- *artifacts*: a lockfile once committed can always be materialised; a patched
  manifest names the files it was made for and leaves the other entries alone; a
  materialisation that fails, is killed or fails again in its rollback leaves a
  new part, an old part and at most two holes, and running again repairs it.
- *shadow mode*: the program qualifies exactly for an unbroken clean window of
  one configuration; a missed session stays missed; outputs match their rows.

## 2. Modules

| module | models | extends / instances |
|---|---|---|
| `LabelTable` | the configuration of one axis: labels, ranks, days of confirmation | |
| `LabelHysteresis` | `apply_per_label_asymmetric_hysteresis`; also the abstract specification `MemorySpec` of the next one | extends `LabelTable` |
| `QualityHysteresis` | `apply_data_quality_aware_hysteresis` and the override of the axis builder | extends `LabelHysteresis`; refines its `MemorySpec` |
| `ReplayWindow` | two replays of one axis that end together | two instances of `LabelHysteresis` |
| `HysteresisProofs` | theorems | extends `QualityHysteresis`, `ReplayWindow` |
| `Readings`, `Thresholds` | missing values, precedence walks; the thresholds and what the schema demands of them | |
| `MarketRules`, `NetworkRules`, `MacroRules` | the rule tables of the nine axes | extend `Thresholds` |
| `RuleBook` | axes by name: rank, rule table, labels heard | extends the rule modules |
| `AxisRules` | one axis, its readings changing one at a time | extends `RuleBook` |
| `AxisQuality` | quality ladder, staleness, classification status, coverage, effective credit | extends `Readings` |
| `TransitionScore` | components, weighted mean, bands, overrides | extends `Readings` |
| `StrategyRules` | response, event overlay, cohort, family and effective constraints | extends `Readings` |
| `FeatureStore` | checks of a request, input contracts, feature specs | extends `Readings` |
| `SessionPipeline` | a request from its checks to the constraints of every session | extends `RuleBook`, `AxisQuality`, `TransitionScore`, `StrategyRules`, `FeatureStore` |
| `SessionProofs` | theorems | extends `SessionPipeline`, `AxisRules` |
| `TransitionRisk` | history evidence, precedence, refusal, debounce | |
| `TransitionRiskProofs` | theorems | extends `TransitionRisk` |
| `ShadowQualification` | the walk and, beside it, its definition without a walk | |
| `ShadowLedger` | runner, replay checker, dead man's switch, calendar | extends `ShadowQualification` |
| `LedgerProofs` | theorems | extends `ShadowLedger` |
| `EventCalendar` | rows, windows, expiry weeks, earnings seasons, "window just passed" | |
| `EventSources` | fetchers, parsers, generators of scheduled rows and candidates | extends `EventCalendar` |
| `EventTriage` | validators, promotion, quarantine, withholding, rendering, report | extends `EventSources` |
| `EventBuild` | builds beside operators who approve | extends `EventTriage` |
| `FetchPrograms` | what each fetch mode does, step by step, and its merges | |
| `Acquisition` | the tables and methods of the run ledger; invocations, thread pool, kills, manifest, consolidation | extends `FetchPrograms` |
| `AcquisitionProofs` | theorems | extends `Acquisition` |
| `OhlcvRefresh` | refresh, import, nested run records | |
| `OhlcvProofs` | theorems | extends `OhlcvRefresh` |
| `PublishSnapshot` | publisher and `put_file`, fetchers as environment | |
| `FileProofs` | theorems | extends `PublishSnapshot`, `EventBuild` |
| `Materialize` | `materialize_manifest` and `get_file` | |
| `MaterializeProofs` | theorems | extends `Materialize` |

`MC*` modules instantiate them for TLC; `PublishSnapshot` and `OhlcvRefresh` take
plain values and are run as they are. An operator whose comment begins with
"A plausible slip" or "Slip" is a wrong variant of the definition that follows it; it is
used by no specification and names the mistake a property would catch.
Variables marked *history* are not in the program; they remember what the
properties speak of and never occur in a guard.

### LabelHysteresis, QualityHysteresis

`stable`, `pending`, `pendingCount` are `stable_label`, `pending_label`,
`pending_count` of the loop at hysteresis.py:61; `gap`, `lastStable`,
`lastActive` are `data_gap_count`, `last_known_stable`, `last_known_active` of
the quality-aware loop. A session is one of four actions: `ClassifiedSession`
(a vote), `HeldSession` (a forced session inside the freeze: the labels are
repeated, the memory untouched), `ExhaustedSession` (the freeze is used up: the
memory restarts from `unknown`) and `OverriddenSession` (the freeze is off: the
memory votes, the row says `unknown`). Python's `None` is the model value
`None`. The raw label of a session and whether its data quality forces
`unknown` are free choices, so the results hold for every rule set.
`freezeDays` is drawn at the start and fixed for the replay, as the
configuration is.

### ReplayWindow

`long` is the replay of `classify_series` with a lookback, `short` the one of
`classify` on the date of the compared row. `LeadSession` feeds only the long
one, `SharedSession` both. Both are given the same raw labels, as features over
a shared history would; only the memory differs.

### Readings to RuleBook, AxisRules

A rule table is an operator from a record of readings to a label, a precedence
walk (`FirstMatch`) over its rules as the code writes them, thresholds from one
record per rules section. Numbers are integers on the scale of their thresholds.
A reading that is not there is `NaN`, and each rule treats it as its code does;
a series that was not supplied is a field the row does not have (`ScalarAt`).
Network fragility hears the active labels of breadth, volatility and credit,
growth that of credit; credit `None` means that the axis is not built, which the
rules do not treat like `unknown`. `AxisRules` lets the readings of one axis
arrive, be revised and be lost one at a time, so that properties can compare a
label with its successor. `Required` names the readings without which an axis may
say `unknown`, `Worse` the direction in which a reading is stress.

### AxisQuality, TransitionScore, StrategyRules

Quality, score, response and routing are operators over what the code tells
apart: a window by whether it is full, its age and its share of observations; a
source by its age on its own clock (`ClockOf`); a score component by a
percentage; a response by a size, what it permits and what it demands.
`Classification` and `AxisSafe` are the statuses of the coverage report.

### FeatureStore

`Refusal` is the sequence of checks of a request, in the order the code makes
them: `classify_request` and the market context, the input contracts of the
configured sections, the strict feature store, the inputs of the transition
score. `Store` builds the features in the order of `_FEATURE_SPECS`; `Lacks`
says what each misses of its section, its inputs and the features before it. A
version 2 configuration has every section, so its store is strict: a missing
input refuses the request. A version 1 configuration hands no section to the
store, and features it cannot build are left out and reported with a policy.

### SessionPipeline

`Answer` or `Refuse` is a request, `WarmUp` a session before the first one
wanted, which moves the memories and publishes nothing; `ScoredSession`,
`UnscoredSession` and `RefusedSession` are the sessions a client gets or that
end the request. A session is built as `axis_series.py` builds it: every axis is
graded, classified, passed through its memory and published (`AxisStep`), the
late axes hear the rows of the early ones (`Heard`). The memory of an axis is
abstracted to what `LabelHysteresis` promises (the stable label is the raw one
or the old one), the transition state to what `TransitionRisk` promises: the
runs `hysteresis` and `risk` show the promises. The reason of an unknown names a
missing feature only if its loss is reported (`MissesFeature`): market axes
report that their history is short, and three features are not binding
(classification_status.py:11). `Rows` puts `Unbuilt` rows where
the configuration builds no axis: network fragility has a placeholder, the
others `None`.

### TransitionRisk

One action per kind of session: `ReadySession`, `InsufficientSession`,
`RefusedSession`. `Select` is `_select_transition_state`, its predicates the
rule flags of `transition_risk_series.py`; `Debounce` is
`apply_transition_state_debounce`. The score is a record of its band and of the
override components it crosses. `SwitchHorizon` and `BearHorizon` are 60 in the
code: beyond them `days_since_axis_switch` is `None` and a bear print is out of
the window. `strict` turns true at the first requested session.

### ShadowQualification, ShadowLedger

`Ledger(version)` is what the three queries of `evaluate_shadow_qualification`
return; `Evaluate` is its loop, `Walk`, as a recursive function over sessions
(`Until` is `incident_window_end`), `CleanWindow` what the specification asks without a walk. In `ShadowLedger`
every committed step is an action: `StartRun` (the incident of a changed
config), `ArchiveInputs`, `InsertRunRow`, `ClassifyAndWrite`, `UpdateSuccess` or
`UpdateFailure`; `ReplayMismatch` then `ReportMismatch`; `DeadmanCheck`. Crashes
may fall between any two. Days pass (`NextDay`), with or without a check having
run. A classification is a function of what it is given, so that a difference of
inputs is a difference of outputs. Only replay checks that do not match are
actions; a matching one changes nothing that is read.

### EventCalendar to EventBuild

Days are integers; months and years have one length, which keeps what the code
asks of a calendar (the year of a day, the third Friday) and drops the rest.
`Classify` is the label set of one session, `Outputs` that of a range in bulk,
`WindowJustPassed` the signal of the volatility rule, which raises on an empty
calendar (`None`); a row counts from its
publication (`PublishedOn`). `EventSources` turns an answer of the sources into
scheduled rows, which must be complete or the build raises, and candidates.
`EventTriage` is the orchestrator: candidates that fall close together merge,
validators confirm or contradict, geopolitical and budget candidates are
withheld until an approval names them; the id of a candidate is a digest of the
sources that spoke for it. Promoted rows are built by date and type, and the
first that `ScheduledEvent` refuses decides what the build raises (`Refusal`). `EventBuild` runs it: `StartBuild`,
`LoadApprovalOverlay`, `Gather`, `Triage` and one action per file written, with
a `Kill` that leaves the file of the moment torn or cut at a row boundary, and
beside it the approval script: read the candidates, load the overlay, open it
for writing (which empties it), write it.

### FetchPrograms, Acquisition

`Acquisition` begins with the store, one operator per transaction. A fetch mode is
a program, a sequence of steps (read a source, merge into a file, write a
report, record an output), one program per outcome of its choices; a mode that the parser
of the entry point refuses has none. `Table` and `Contents` are what a source can
serve and what a file can hold. `Acquisition`
runs an invocation: groups of modes, those that allow it in a pool of
`MaxWorkers` threads, each task opening a run, proceeding step by step and
closing it. A step may raise (`RaiseMidway`; `RaiseUnreadable` for a torn file);
then the pool cancels what is queued and raises the first failure in mode order.
`Kill` may come at any moment and tears the file being written; of the
partitioned tree, which is removed and written anew, it leaves nothing, a torn
tree, or some partitions that read well (`Leftovers`).
`StartConsolidation` to `ImportRows` is the other process: it reads runs,
artifacts and outputs in statements of their own while fetches go on.

### OhlcvRefresh

Bars are the revision of the provider's data they come from. `MergeSymbol`
reads the file of the symbol `InHand`, the first one not written yet, merges and
opens it for writing (from here it is torn); `WriteSymbol` completes it. The import is one transaction in one action; the two
context managers of `AcquisitionStore.run` are `outer` and `inner`, which
`Unwind` closes from the inside out, one UPDATE per step; `LoseEnd` is an UPDATE
that itself raises. `Merged` is a set of outcomes: pandas sorts the object dates
of a merged file with a quicksort that is not stable beyond 16 rows, so either
of two bars of a date may be the last and be kept.

### PublishSnapshot, Materialize

A content stands for its hash. The store is a function from keys to objects, a
key an artifact and a content address (or `Logical`, the legacy key). A copy is
two steps, `PartialCopy` in between, because `put_file` copies in place. Fetchers run
between publishes; files may also be missing (`LoseFile`). A publish takes the
artifacts `--only` names, passes over the rest and over missing files, ends when
a daily OHLCV file breaks its contract (`DigestRaises`: the contents in `Barred`,
for the artifacts in `Daily`), and otherwise goes through digest, upload, copy and
one patch at its end. `Materialize` stages and verifies all downloads, then takes
the artifacts in the order of the manifest (`InHand` is the first one left), moves
each destination away and places the new file, two renames. The rollback takes
completed promotions from the last: `Unlink`, then `Restore`. Each of these
operations may raise; one of the rollback ends it (`RollBackFails`, outcome
"aborted") with the rest still promoted. `Kill` leaves everything as it is. `Republish` is the
operator who completes a store between two runs.

## 3. Runs

| run | question | bounds | result |
|---|---|---|---|
| `hysteresis` | do counts, holds and rows keep their promises, and does the quality-aware loop refine the plain memory? | 5 labels, freeze off or 2 days, 11 sessions | holds |
| `replay_sync` | when do two replays agree? | the 7 labels of trend_direction, 12 shared sessions | holds |
| `risk` | debounce, cooldown, emergency and refusal together | 4 x 2 x 3 x 3 labels, 5 scores, horizons 4 and 2 | holds |
| `axes` | are the rule tables monotone and without gaps? | nine axes, shipped thresholds, each reading on both sides of them or missing | holds |
| `session` | may a session be called safe, calmed by an outage or loosened by an event? | 11 kinds of session in every order, requests with each input missing and each fit failing | holds |
| `events` | which shocks label a session, is every approval answered, do replays see what the live run saw? | 2 builds, 11 answers, 1 operator with 2 approvals, kills in every file; curated calendars of every pair of 21 rows | holds |
| `acquire` | are runs whole, histories kept, manifests honest, and does every invocation end? | 22 scripts: every mode twice, files in orders that matter, a pool of 2 threads, fetches under a consolidation; 1 fault | holds |
| `ohlcv` | is the import whole, and is history kept? | 2 symbols, 2 dates, 4 run rows, 2 faults, 1 restatement | holds |
| `publish` | do lockfiles stay fetchable, what may a patch change, does the manifest converge? | 2 artifacts, one of them daily OHLCV, 3 contents, one of them in breach, every selection, 3 fetches or losses, 2 kills | holds |
| `materialize` | what may a run that fails, fails in its rollback or is killed leave? | 3 artifacts, every starting tree and store, 2 faults | holds |
| `materialize_contract` | does a run that raises leave every file as it was? | as above | violated |
| `ledger_window` | does the ledger qualify exactly clean windows of one config? | 3 sessions with a weekend day, 2 configs, 2 mishaps | holds |

A run that is violated is a disagreement, see [section 5](#5-disagreements).

**Why the bounds are enough.** `MaxSessions` 11 holds a label through the
longest de-escalation of the table (5), lets a gap exhaust every hold (4) and
start again. `Warmup` 12 is more than twice the longest confirmation of the axis
(5). In `risk` the horizons only have to exceed the cooldown (2) and the longest
confirmation (2) to tell "just switched", "cooling down" and "long ago" apart.

In `axes` a rule compares one reading with one threshold, so a value on each
side and one on the threshold meet every case; readings no rule of a property
distinguishes have one value. The axes are explored one at a time, with every
label they may hear.

In `session` each kind of session is one an adverse day could be: calm,
stressed, stressed without volatility or spreads, calm without credit, an
outage, thin data, an event day, euphoria before and after its survey, a score
without its model. All properties relate one session to its successor, and the
memory of an axis is a stable label, the last known ones and a gap, so that
every order of the eleven reaches every memory; `KeepSets` lets all labels
outlive their session or none. Requests configure cohort routing and family
constraints together (`PipelineAssumption`), as the shipped configurations do.

In `events` a day is one of 24 in a year of three months, two years are built,
and a weekend falls every fourth day: release, blackout, expiry and season
windows reach over the ends of months, of the year and of the request. The
answers are a full one and its degradations, each for one path of the code.
`CutDays` and `Torn` are what a kill may leave; two builds let the second meet
what the first or an approval left. Curated calendars are not rebuilt;
`PointMatchesBulk` and `NoForesight` are stated for them, as they hold rows of
every kind a build writes.

In `acquire` the sources publish twice, stop serving a date and revise another;
that is the least for a merge to lose or to keep something. One fault is enough
for every exit of a call, as a fault ends the invocation; the second invocation
of a script meets what it left. In `ohlcv` two faults allow an exception and a
second one while it is handled; four run rows are two complete refreshes.

Two faults in `materialize` allow a failure and then a failure or a kill in its
rollback, which is where one tree has its two holes, or in the run that would
repair it; three artifacts give one promoted, one in hand, one to come.
Two fetches in `publish` are the least for a content to come back, the third
replaces it again. `ledger_window` needs two sessions for a window, one before
it and a day without trading between two of them, so that incidents fall inside,
outside and between; two mishaps are a crash or failure and a mismatch, or a
rerun of a date another one spoiled. Its two configs are symmetric.

**Deadlock.** Most configurations say `CHECK_DEADLOCK FALSE`: their models stop
when the bound on sessions, days, fetches, builds, runs or faults is used up,
or, as in `Materialize` and `TransitionRisk`, when the run has returned or the
replay has raised. `axes` and `session` never stop and are checked for it.

**Fairness.** Three specifications state any. `Materialize` has `WF_vars(Run)`:
the process is sequential code without waiting, and the operator starts it again
until it returns (`Start` is part of `Run`); faults are bounded, so
`RerunsRepair` says that no state left by failures and kills is beyond repair.
`PublishSnapshot` has `WF_publishVars(Publish)` for the same reasons: a publish is
scheduled again and again and never waits. `PublishConverges` is conditional:
infinitely often no torn object lies in the store and no file breaks its
contract, and publishes of all artifacts are started again and again. Each
condition is needed: after a kill in the copy every later publish is refused
(section 5), a file in breach ends every publish, and an artifact that `--only`
leaves out is not looked at. A missing file is exempt, not excluded.
`Acquisition` has weak fairness of the steps of an invocation that has begun, as
the operating system schedules the process and its threads;
`InvocationsEnd` then says that no thread waits for another for ever. That an
invocation begins, that sources publish, faults, fetches, kills and `Republish`
are never assumed to happen.

## 4. Proofs

TLAPS proves eight modules for every value of their constants. No fact is taken
from anywhere but the named assumptions on constants, which TLC evaluates in
the runs; the few conditions that are not properties of every configuration
stand in the theorem that needs them, and the runs assert them of the shipped
one. Every safety and action property that a passing run checks is a theorem.
The inductive invariants of the machines with counters, processes or files hold
in TLC on the instance of their run as well. The proofs use SMT and Zenon for
the steps and PTL for the temporal conclusions. What would be an induction over
data (the walk of the qualification, the maximum of a finite set) is an
argument by least counterexample: a set of naturals that is not empty has a
least element (`WFMin`).

**`HysteresisProofs`** - any label set, rank table, day tables and freeze
lengths that the constructor accepts (`LabelAssumption`, `FreezeAssumption`).

- `TypeCorrect`, `CandidateCorrect`, `RiskNeverUnderReported`,
  `HoldsAreBounded`: invariants. The inductive invariant `IInv` is their
  conjunction with what a forced row shows and with the links between the last
  row, the gap and what is remembered for a hold: a held row shows exactly the
  remembered labels, a forced row that is not held has dropped them, a published
  row ends the gap, and a row of known labels is what is remembered. Without
  these links a state in which a hold begins with labels no row ever published
  satisfies every property, and its successor breaks `HoldContinues`.
- `LongRunDecides`: a label that has run long enough for every change to it is
  the stable one. It follows from `CandidateIsRun` alone: otherwise the
  candidate's count would have to be both the length of the run and below a
  threshold the run has reached.
- `LeaveIsConfirmed`, `HoldOnlyContinues`: action properties, from `IInv` and
  one case per action.
- `MemoryRefinement`: `Spec => ImplementsMemory`, the quality-aware loop
  implements the plain memory; a held session maps to a pause, an exhausted one
  to a restart, the others to a vote.
- Two replays, for any hysteresis with finitely many thresholds and windows of
  any length (`ReplayAssumption`): `LongRunSynchronises` (`SyncedAgree`). Both
  replays are one machine (`Moves`);
  `ReplayInv` says of each that its candidate is the current run and below its
  limit, and of both that the long replay has seen at least the run the short
  one has. A long run then settles both on its label with an empty candidate.
- `AgreementLasts` (`AgreementIsPermanent`), where `UnknownYields`: every label
  takes over from `unknown` on its first print, as in the version 2
  configuration (`unknown: 0` on every axis). The condition is needed: with
  three days to leave `unknown`, which the version 1 configuration has on two
  axes, TLC finds two windows that agree on `unknown`, have counted different
  candidates and part again.

**`TransitionRiskProofs`** - any confirmation table with positive days, any
cooldown, horizons, labels and scores (`RiskAssumption`).

- `TypeCorrect`, `VotesCorrect`, `RequestedKnown`: `IInv` adds to them that no
  session has voted before the first row; without it the first session's
  candidate could be the continuation of a run nobody has seen.
- `StateIsConfirmed`: a step that changes the published state was backed by a
  run as long as the confirmation asks for (`VotesCountRun`: a vote counts
  exactly the current run, up to the length asked for).
- `QuietCooldown`, `CrisisOnTheDay`: from the lemma that a published state other
  than the raw one means that the raw one is pending and needs a second print.
  The second assumes a table that publishes a crisis on its first print, as the
  shipped one does; the theorem states the condition.

**`LedgerProofs`** - any calendar, window length and set of configs
(`CalendarAssumption`, `LedgerAssumption`).

- `WalkIsTheWindow` (`QualifiesIffClean`): the loop and the definition without
  a loop agree on every ledger. `WalkExists` shows that the recursive function
  has the value its equation asks for; the rest compares the count of the walk
  with the number of sessions after the first one that is not clean.
- `WindowHasOneConfig` (`OneConfigPerWindow`), `MissedStaysMissed`
  (`MissedSessionStaysMissed`), `OneRowPerRun`, `TypeCorrect`: from `LedgerInv`.
  Its heart is `ChangesAreBroken`: two rows of one version with different
  contents have a breaking incident on or after the earlier date. The incident
  is committed before the row, so `RunIsCovered` says the same of the run in
  hand, or the insert would not keep it; `RunnerHasRow` says that the row the
  run will update is there.
- `FinishedStaysFinished`: action property, a finished row never changes.
- `OutputIsKept` (`SuccessKeepsOutput`) under `OneVersionInUse`; section 5 has
  the reason for the condition.

**`AcquisitionProofs`** - any plan of modes, pool size, served history and
foreign database (`AcquisitionAssumption`).

- First, lemmas about programs: every program of every mode opens its run once,
  before it records anything, writes a history only by a merge that read it,
  bootstraps the sentiment file only when there is none, and reports only files
  it writes, that were provided, or that are absent.
- `EndedRunsAreFinal` and `HistoriesOnlyGrow` (`HistoryOnlyGrows`): action
  properties, from `FetchInv`. A thread has a run exactly when it is past its
  opening step, that run is still running, and no two threads have the same
  one (`ThreadInv`); without it one thread could write to a run another has
  closed.
- `ManifestIsFinished` (`ManifestOfFinishedRuns`): every run opened since the
  invocation began has ended well or has a thread that answers for it
  (`BatchInv`), and until a thread fails no reported file is torn unless its
  writer is about to complete it (`FileInv`). A group that is done has no
  failure and no writer left, which is when the manifest is written.
- `ConsolidationIsWhole` (`OkRunIsWhole`): a run read as ok has ended, so that
  its artifacts and outputs, read by later statements while fetches write, are
  those it had then (`Keeps`). `ImportInv` carries this through the three
  statements and the import of a second source.
- `TypeCorrect`.

**`OhlcvProofs`** - any number of symbols and dates (`RefreshAssumption`).
`RefreshInv` is the conjunction of the types, of the control (`ControlInv`: which
rows may be running at which step), of the data (`DataInv`: the frame in hand
holds every date the file is known to hold, and from an import to the next
refresh the database holds the tree) and of the records (`RecordInv`). From it:
`TypeCorrect`, `NoHistoryLost` (`HistoryIsKept`), `ImportMovesWhole`
(`ImportIsWhole`) and, without a run of their own, `DatabaseHoldsTree`,
`OkRefreshIsWhole` (a refresh recorded as ok has its import recorded as ok) and
`OnlyLostRunsHang` (a row that stays running was left by a kill or a failing
UPDATE, never by an exception).

**`SessionProofs`** - any threshold table, modifiers, event rules, cohorts,
families, limits, features and requests the schema accepts (`ThresholdAssumption`,
`StrategyAssumption`, `QualityAssumption`, `FeatureAssumption`,
`PipelineAssumption`, `AxisAssumption`). Most of it is about operators; a table of
rules is walked by `FirstMatchIn`, `FirstMatchBy` and `MatchSeven`, a fold of
modifiers by its steps (`AfterSteps`).

- `SessionInvariant` (`IInv`): the memories are those of the axes wired for the
  request, a published row of an axis is what its memory and its quality make of
  it (`Graded`), and an answered version 2 request has wired every axis. That
  last part needs the checks of a request: a store that refuses nothing has built
  every feature (`AllFeaturesBuilt`, by following the order of the specs).
- `EventsTightenHolds` (`EventsOnlyTighten`): two folds over the event rules, of
  more and of fewer labels, stay ordered in size, permissions and demands at
  every rule (`MoreEventsTighten`), and so do the vetoes read off at the end.
- `EffectiveHolds` (`EffectiveAtLeastSignals`), `SafeHolds` (`SafeMeansUsable`):
  from `Shows`. A held row keeps its status, which is what tells it from a safe
  one.
- `OutageHolds` (`OutageNeverCalms`) if the crisis rule names regimes only
  (`CrisisNamesRegimes`): a rule that called a crisis where an axis says `unknown`
  would be left by losing other labels.
- `CrisisHolds` (`CrisisIsHeld`) if holding is on (`Hold > 0`) and the crisis
  cohort hears a volatility crisis (`CrisisHearsVol`); `MCSession` asserts all
  three conditions.
- `CreditNames` (`CreditNamesNotRanks`), for every threshold table: under the
  gates of systemic stress correlation to one fires too, and its rank is the same.
- `UnknownIsMissing` (`UnknownMeansMissing`) if the bands of the network meet
  (`BandsMeet`, asserted in `MCAxes`): with a gap between two bands a correlation
  in it is called `unknown`. The seven other axes have no gap under any table.
- `WorseIsNotCalmer` (`WorseNeverCalmer`), for every threshold table: the rank of
  a label is a chain of conditions (`CreditIsRanked`, `VolIsRanked`,
  `VolumeIsRanked`), each of which a worse reading keeps or replaces by one of at
  least its rank. A flat spread that widens is the case that needs care: it leaves
  `credit_divergence` only for `spread_widening`.

**`FileProofs`** - the two programs that write files other programs read while
they are written.

*Publisher*, any number of artifacts and contents (`PublishAssumption`).
`TypeCorrect`, `LockfilesStayFetchable` (`PinnedStaysFetchable`) and
`PatchNamesTheTree` (`PatchedIsRaw`), from `PublishInv`: the payload in memory
is fetchable at every step, the file in hand hashes to the key it is copied to,
and of what lies behind the publisher every artifact it was to take and found is
canonical and pinned, and every other entry is the manifest's. The property itself
speaks of committed manifests only, and would not survive the commit of a
payload it says nothing of.

*Event calendar*, any finite set of sessions, any rows the loader can date, years
of any number of whole months (`CalendarAssumption`), expiry windows that stay in
their month (`ExpiryAssumption`).

- `LabelsArePointwise`, `PointIsBulk` (`PointMatchesBulk`): the bulk and the point
  classifier count trading days on different lists of sessions. Either list holds
  every session between two days of the years of the request and of the rows
  (`Spans` in the lemmas), and a window, an expiry week and a season depend on no
  other. `LabelsArePointwise` says it of any dated rows, not only of the curated
  calendars.
- `UnknownRowsAreSilent` (`NoForesight`): a row that is not published yet marks
  no session, and closes no window.

*Event build*, any sources, any number of operators, approvals and builds, any
kill (`SourcesAssumption`, `BuildAssumption`: what sources serve are lists and
finite sets of days, what an overlay holds are approvals).

- `EventInvariant`: `EventInv` says that no key is approved in the overlay, on a
  desk, in the build or on a row but by an operator or by the overlay a first
  build found; that from triage on the rows of a build hold the row of every
  promoted key and no other approved row; and that the calendar, then the report,
  are those of the build until the next one starts. A kill can only take from
  this: what a cut leaves has lost rows, labels and windows, never gained an
  approval.
- `ShocksAreApproved` (`OnlyApprovedShocksFire`): a row that may label is approved.
- `ApprovalsAnswered` (`EveryApprovalAnswered`): the first candidate of a key is
  the one triage judges, the last the one that is rendered and the approvals of a
  key are read at their first; an approved key is promoted unless it is
  contradicted or has no candidate, which the report then names.

**`MaterializeProofs`** - any number of artifacts and any manifest
(`MaterializeAssumption`). An artifact is right already, queued, in hand, or
promoted with its backup on the stack; what is missing is the one in hand when a
rename failed and, while the rollback is between its two operations, the one on
top of the stack (`StackIsSound`, `RunIsPlaced`, `TreeIsSound`). From
`MaterializeInv`: `TypeCorrect`, `OnlyPinnedBytesArrive` (`OldOrPinned`),
`OneSeamAlways` (`OneSeam`, which holds of a rollback that itself fails or is
killed), `EndsWholeOrRestored` (`WholeOrRestored`) and, without a run of its own,
`MatchingStays` (a file that matches its pin is never touched).

Only model-checked: the three liveness properties (`RerunsRepair`,
`PublishConverges`, `InvocationsEnd`), which the prover does not treat.
`AllOrNothing` is violated. `CreditNamesNotRanks` is proved only.

## 5. Disagreements

With a run that shows it:

- **`materialize_contract`** - materialization.py:61 promises that all artifacts
  "promote together or none of them do", and :98 a rollback "without leaving a
  mixed old/new manifest directory". An artifact enters `promoted` only after its
  second rename (:109): when that one raises (:108), the file just moved away is
  not rolled back, its backup goes with the temporary directory, and the run
  raises with the file gone. A rollback step that raises (:113, :116) leaves the
  promotions it had not come to. `WholeOrRestored` and `OneSeam` state what holds.

Met while modelling, without a run of their own. *Engine*:

- engine.py:520 promises rows that are "byte-identical to the corresponding
  classify(as_of_date) output". timeline.py:163 slices a longer window for a
  series, the label memory starts earlier, and a candidate that never completes
  its run keeps the two apart. `SyncedAgree` states when they agree.
- hysteresis.py:117 calls `max_unknown_freeze_days` the bound of a freeze;
  hysteresis.py:170 stretches it to one session short of the de-escalation.
  `HoldBounded` states the bound the code keeps.
- transition_risk.md:139 says the crisis rule fires even when another axis is
  unknown; transition_risk_series.py:756 decides on insufficient evidence first.
  `CrisisShows` therefore speaks of complete evidence.
- transition_risk.md:192 says that "by default" the first session of a run is
  accepted immediately; transition_risk_history.py:29 refuses to run without an
  initial active state, and a first session of another state waits for its
  confirmation.
- _config_evidence_strategy.py:84 describes a score over the components that are
  present; transition_score.py:105 gives none when a component is missing.
- network_fragility_rules.py:19 says that an absent credit axis "fails closed"
  to systemic stress; the label is `systemic_stress_unconfirmed`, of the same
  rank (`CreditNamesNotRanks`).
- engine.py:598 says a missing input that version 2 requires surfaces as the
  contract error. The contracts ask neither for point-in-time intervals and
  constituents, nor for one real sector ETF in a dictionary, nor for the survey's
  columns: such a request passes them and dies in the strict feature store.
- strategy_response.py: a later modifier replaces the size an earlier one chose,
  and a session with an unknown axis gets a size of 0.75, more than the stressed
  regimes it may hide. Event rules only cap (`EventsOnlyTighten`), and
  `CrisisIsHeld` says what keeps a crisis from being hidden.
- A version 1 request with a `transition_score` section is always refused, one
  with `monetary_pressure_state` always raises (the store builds no monetary
  features for it), and one without network fragility is never safe, as the
  placeholder reads `insufficient_history`.

*Event calendar*:

- docs/market_data_fetch_plan.md:249 has promoted rows rendered into
  `configs/events/us_events.yaml`, with `budget_week` from Treasury and GovInfo
  discovery too. `EVENT_SOURCES` (event_calendar_models.py:30) has neither of
  their names, so the row of a confirmed or approved discovery is refused and
  the build raises before it writes a file. Rows are built in the order of date
  and type, so an earlier row with a fault of its own raises first (`Refusal`).
  Triage judges the first candidate of a key and rendering takes the last
  (orchestrator.py:273), so the row of the second discovery is refused even when
  no operator has approved it;
- an approved shock dated on a weekend or holiday (the index is daily) labels no
  session, and nothing reports it;
- the overlay and the calendar are written in place: a file cut at the end of a
  row loads without the rest, a build that loads the overlay while an approval
  is being written sees no approvals, drops the shock and reports nothing, and
  two approvals at once lose one;
- the quarantine share counts keys above and candidates below, so a small range
  aborts on one contradiction;
- the confirmation of a shock by AI-GPR is a spike date of the same author's
  index; when AI-GPR is unreachable in one build, the evidence of a shock has
  another id and the report calls its approval's evidence stale;
- scheduled FOMC rows exist only once the minutes are published, while the
  loader dates them 90 days ahead, and approved shocks carry no date of
  approval: a replay with a later file sees labels the live run could not have.
  `NoForesight` is about one file;
- the "window just passed" signal ignores a row's own window.

*Acquisition and artifacts*:

- scripts/consolidate_regime_acquisition.py:18 passes no sources and always
  raises; a source found missing later leaves the old target unlinked, and its
  report stale.
- the test at tests/test_local_daily_ohlcv_sqlite.py:421 expects the fetched bar
  to win. `sort_values("date")` (local_daily_ohlcv_sqlite.py:453) is not stable
  beyond 16 rows, so `keep="last"` may keep the old one after a restatement.
- fetch_workflow.py:140 removes the partitioned market tree before it writes it
  anew; a kill in between loses bars the source no longer serves, and the next
  fetch merges with what is left. `HistoryOnlyGrows` speaks of steps in which
  nothing fails.
- yahoo_chart_daily.py:49 stores `adjusted_close = close`; :194 takes the
  `adjclose` the provider sends.
- a workbook of the EPS archive torn by a kill is reused and pinned; its loop
  only skips it (`ManifestOfFinishedRuns` leaves it out).
- a checkpoint calls a run successful before the run closes.
- `content_addressed_key` promises immutable keys, and the publisher calls
  itself idempotent. `put_file` copies in place (artifact_store.py:192); after a
  kill in the copy every later publish of the content raises
  `ArtifactOverwriteError`.
- publish_canonical_snapshot.py:623: a digest that is already pinned counts as
  stored; after `--skip-upload` its object is never uploaded.
  `PinnedStaysFetchable` is stated for histories without it.
- artifact_store.py:182 hashes and copies in two reads; a fetcher that rewrites
  the file between them makes the pinned hash false. The model lets fetchers run
  between publishes only.

*Shadow mode*:

- docs/shadow_runner_spec.md:28 archives "the exact inputs used". A second
  attempt at a recorded date overwrites the archive (run_shadow_regime.py:295)
  before the UNIQUE constraint refuses its row.
- shadow_runner_spec.md:93 calls the outputs of a versioned run immutable;
  run_shadow_regime.py:325 names the file by date only, so two config versions
  share it. `SuccessKeepsOutput` is checked where one version is in use.
- shadow_runner_spec.md:30 says that replays reproduce the stored output
  exactly; a replay of a session run with explicit membership reconstructs it
  from the archived market file, and reports a mismatch that is none.
  `ReplayMismatch` models it.
- shadow_runner_spec.md:120 lets a run classify "using only the archived
  inputs"; the macro file of an earlier attempt stays in the archive of a run
  without one (`WithFeed`, shadow_storage.py:196) and is read back as that run's.
- run_shadow_deadman_check.py:47 says that the left edge of a young window "is
  NOT a gap"; the qualification walk that the same script runs afterwards ends
  at that edge as `missing_session_gap`, and the script books it as a breaking
  incident. A window begins only after that morning.

## 6. Not modelled

*Arithmetic.* The numeric content of features and of the trained layers (HMM,
clustering, change points) is outside a model checker's reach: they enter as
readings, or as a fit that raises. The news score is evidence only and chooses
nothing. Parsing, formatting, payload shapes, provenance and logging decide
nothing the properties tell apart.

*The walk-forward batch* (`scripts/run_historical_walkforward.py`, its replay
check, its report gates) works on the storage functions that `ShadowLedger`
models, one session after the other, with hazards of its own that no property
covers: a rerun of a recorded date raises at the UNIQUE constraint outside the
handler of the session, after the frozen configuration and the archive were
overwritten, and ends the batch without its summary; inputs of an earlier attempt
stay in the archive; the report's gate is not bound to the outputs it accepts.

*Also left out*: the S3 store (its writes are atomic per object, so the torn
copies are the local store's); `record_artifact_version`, which nothing under
`src/src` calls; the TinyFish search, never configured by a build; the fixture
modes of the event fetchers; dry runs and the row report of the publisher;
profiling and calibration tools, which change no state of the system. Processes
of one kind are not run twice at once: there is one runner, one publisher, one
refresh, one operator at a time. The models do not cover loss of a SQLite file,
nor a power failure that loses a committed transaction. SQLite lock timeouts are
among the exceptions that may be raised at any step.

Worth modelling next: the walk-forward batch, on the ledger that exists; and a
second publisher or refresh at the same time as the first, for which the programs
have no lock.
