---------------------------- MODULE Acquisition ----------------------------
(***************************************************************************)
(* The fetch script (scripts/fetch_regime_engine_v1_data.py) running fetch *)
(* programs in groups, some of them in a thread pool, against the data     *)
(* files and the acquisition database; the manifest it emits at the end;   *)
(* and a consolidation of acquisition databases that another process runs  *)
(* meanwhile (acquisition_consolidation.py).                               *)
(*                                                                         *)
(* A call may raise at any step and the process may be killed at any       *)
(* moment.  Sources publish between invocations.                           *)
(***************************************************************************)
EXTENDS FetchPrograms, SequencesExt

-----------------------------------------------------------------------------
(* The database (acquisition_store.py, acquisition_schema.py) as a record  *)
(* of tables, and one operator per method of AcquisitionStore.  Every      *)
(* method opens a connection, commits and closes, so each operator is one  *)
(* transaction; the methods that commit twice are built from the two       *)
(* operators they call, and a failure may fall between them.  A run is     *)
(* known by its id, its position in the table of runs.  Notes, timestamps, *)
(* sizes and the store keys are left out; the source that an artifact came *)
(* from and the file an output is the record of are kept.                  *)

(* The tables of a fresh database.                                         *)
EmptyDb == [runs |-> <<>>, artifacts |-> {}, outputs |-> {}, records |-> {},
            lineage |-> {}, checkpoints |-> {}]

RunIds(db) == DOMAIN db.runs

(* start_fetch_run: the id of the new run is the last of the table.        *)
StartFetchRun(db, mode) ==
  [db EXCEPT !.runs = Append(@, [mode |-> mode, status |-> "running"])]

FinishFetchRun(db, run, status) == [db EXCEPT !.runs[run].status = status]

InsertArtifact(db, run, source) ==
  [db EXCEPT !.artifacts = @ \cup {[run |-> run, source |-> source]}]

InsertDerivedOutput(db, run, file, content) ==
  [db EXCEPT !.outputs =
     @ \cup {[run |-> run, file |-> file, content |-> content]}]

RecordArtifactRecord(db, run, name, stage) ==
  [db EXCEPT !.records =
     @ \cup {[run |-> run, name |-> name, stage |-> stage]}]

(* record_text_artifact and record_file_artifact: the row and its blob,    *)
(* then the object in the artifact store and its record.                   *)
RecordArtifact(db, run, source) ==
  RecordArtifactRecord(InsertArtifact(db, run, source), run, source, "raw_capture")

(* record_output: the output row, then, unless the caller declines, the    *)
(* object in the artifact store and its record.                            *)
RecordOutput(db, run, file, content, declined) ==
  LET inserted == InsertDerivedOutput(db, run, file, content) IN
  IF declined THEN inserted
              ELSE RecordArtifactRecord(inserted, run, file, "canonical")

RecordArtifactLineage(db, run, file, source) ==
  [db EXCEPT !.lineage =
     @ \cup {[run |-> run, output |-> file, input |-> source]}]

(* set_source_checkpoint: one row per source, the last writer's.           *)
SetSourceCheckpoint(db, source, run) ==
  [db EXCEPT !.checkpoints =
     {c \in @ : c.source # source} \cup {[source |-> source, run |-> run]}]

-----------------------------------------------------------------------------
CONSTANTS
  Registry,   \* the unattended modes in their order, and which may share a pool
  MaxWorkers, \* threads of the pool
  Served,     \* Served[e]: the table every source serves in epoch e
  OtherDb,    \* the first source of the consolidation, or NoSource
  NoSource,
  Scripts,    \* what is explored: invocations, files there at first, consolidation
  MaxFaults   \* exceptions and kills explored

Dates == UNION {DOMAIN Served[e] : e \in DOMAIN Served}
Revisions == UNION {Range(Served[e]) : e \in DOMAIN Served}
Table == UNION {[dates -> Revisions] : dates \in SUBSET Dates}
Contents == Table \cup {NoFile, Torn}

(* A database in which every row is of a run it has.                       *)
IsLedger(store) ==
  /\ DOMAIN store = {"runs", "artifacts", "outputs", "records", "lineage", "checkpoints"}
  /\ store.runs \in Seq([mode : Modes, status : {"running", "ok", "skipped", "failed"}])
  /\ \A row \in store.artifacts :
       row.run \in RunIds(store) /\ row = [run |-> row.run, source |-> row.source]
  /\ \A row \in store.outputs :
       /\ row.run \in RunIds(store)
       /\ row = [run |-> row.run, file |-> row.file, content |-> row.content]

ASSUME AcquisitionAssumption ==
  /\ MaxWorkers \in Nat \ {0} /\ MaxFaults \in Nat
  /\ Served \in Seq(Table) /\ Served # <<>>
  /\ IsFiniteSet(Dates) /\ Dates \subseteq Int
  /\ NoFile \notin Table /\ Torn \notin Table /\ NoFile # Torn
  /\ OtherDb # NoSource => IsLedger(OtherDb)
  /\ \A script \in Scripts : script.files \subseteq Files

VARIABLES
  db,       \* the acquisition database
  files,    \* file -> table, Torn or NoFile
  epoch,    \* which of the served tables the sources answer with
  calls,    \* the invocations to come
  main,     \* the invocation: groups to run, reports of the groups that ran
  tasks,    \* mode of the group being run -> its thread
  manifest, \* the manifest emitted last, or NoFile
  target,   \* the consolidated database, or NoFile
  import,   \* the consolidation: source, phase and open transaction
  faults

vars == <<db, files, epoch, calls, main, tasks, manifest, target, import, faults>>
fetching == <<db, files, epoch, calls, main, tasks, manifest, faults>>
consolidating == <<target, import>>

Idle == [st |-> "idle", groups |-> <<>>, required |-> FALSE, base |-> 0, reports |-> {}]
NoTasks == [m \in {} |-> 0]
Queued == [st |-> "queued", prog |-> Run(<<>>), pc |-> 1, run |-> 0, data |-> Report]

Init ==
  \E script \in Scripts :
    /\ db = EmptyDb
    /\ files = [f \in Files |-> IF f \in script.files THEN Served[1] ELSE NoFile]
    /\ epoch = 1 /\ calls = script.calls
    /\ main = Idle /\ tasks = NoTasks
    /\ manifest = NoFile /\ target = NoFile
    /\ import = [st |-> IF script.consolidates THEN "planned" ELSE "never",
                 source |-> 1, phase |-> "runs", seen |-> 0, tx |-> EmptyDb]
    /\ faults = 0

---------------------------------------------------------------------------
(* The invocation.                                                         *)

(* _plan_fetch_mode_execution: adjacent modes that may share a pool do, if *)
(* the operator asks for it; every other mode is a group of its own.       *)
Plan(call) ==
  IF call.mode # "all" THEN << <<call.mode>> >>
  ELSE LET Shares(spec) == call.conservative /\ spec.concurrent
           Placed(plan, spec) ==
             IF Shares(spec) /\ plan.open
             THEN [plan EXCEPT !.groups[Len(plan.groups)] = Append(@, spec.name)]
             ELSE [groups |-> Append(plan.groups, <<spec.name>>), open |-> Shares(spec)]
       IN FoldLeft(Placed, [groups |-> <<>>, open |-> FALSE], Registry).groups

TasksOf(group) == [m \in Range(group) |-> Queued]

StartInvocation ==
  /\ main.st = "idle" /\ calls # <<>>
  /\ epoch' \in {epoch, Min({epoch + 1, Len(Served)})}
  /\ calls' = Tail(calls)
  /\ main' = [Idle EXCEPT !.st = "fetching", !.groups = Plan(Head(calls)),
                          !.required = Head(calls).mode = "sentiment",
                          !.base = Len(db.runs)]
  /\ tasks' = TasksOf(Plan(Head(calls))[1])
  /\ UNCHANGED <<db, files, manifest, faults, consolidating>>

Group == main.groups[1]
Running == {m \in DOMAIN tasks : tasks[m].st = "running"}

(* A worker takes the task that was submitted first.                       *)
StartTask(i) ==
  /\ Cardinality(Running) < MaxWorkers
  /\ tasks[Group[i]].st = "queued"
  /\ \A j \in 1 .. i - 1 : tasks[Group[j]].st # "queued"
  /\ \E prog \in Programs(Group[i], files, main.required) :
       tasks' = [tasks EXCEPT ![Group[i]].st = "running", ![Group[i]].prog = prog]
  /\ UNCHANGED <<db, files, epoch, calls, main, manifest, faults, consolidating>>

---------------------------------------------------------------------------
(* The steps of a fetch program.                                           *)

At(task) == task.prog.steps[task.pc]
Midway(m) == m \in Running /\ tasks[m].pc <= Len(tasks[m].prog.steps)

(* A call that raises by itself: what it reads is not there, or torn.      *)
Raises(step) ==
  CASE step.op \in {"keep", "record"} -> files[step.file] = NoFile
    [] step.op = "inspect" -> files[step.file] = Torn
    [] step.op = "save" ->
         \/ step.from \notin {"net", "report"} /\ ~IsTable(files[step.from])
         \/ Reads(step.how) /\ files[step.file] = Torn
    [] OTHER -> FALSE

LedgerAfter(task, step) ==
  CASE step.op = "open" -> db
    [] step.op \in {"fetch", "keep"} -> RecordArtifact(db, task.run, step.file)
    [] step.op = "record" ->
         RecordOutput(db, task.run, step.file, files[step.file], step.how = "declined")
    [] step.op = "link" -> RecordArtifactLineage(db, task.run, step.file, step.from)
    [] step.op = "checkpoint" -> SetSourceCheckpoint(db, step.file, task.run)
    [] OTHER -> db

Written(task, step) ==
  IF step.from = "report" THEN Report
  ELSE Saved(step.how,
             IF step.how = "bootstrap" THEN files[step.from] ELSE files[step.file],
             IF step.from = "net" \/ step.how = "bootstrap" THEN task.data
                                                            ELSE files[step.from])

OpenRun(m) ==
  /\ Midway(m) /\ At(tasks[m]).op = "open"
  /\ db' = StartFetchRun(db, m)
  /\ tasks' = [tasks EXCEPT ![m].pc = @ + 1, ![m].run = Len(db.runs) + 1]
  /\ UNCHANGED <<files, epoch, calls, main, manifest, faults, consolidating>>

Proceed(m) ==
  LET task == tasks[m]
      step == At(task)
  IN /\ Midway(m) /\ step.op # "open" /\ ~Raises(step)
     /\ db' = LedgerAfter(task, step)
     /\ files' = IF step.op = "save"
                 THEN [files EXCEPT ![step.file] = Written(task, step)] ELSE files
     /\ tasks' = [tasks EXCEPT ![m].pc = @ + 1,
                    ![m].data = IF step.op \in {"download", "fetch"}
                                THEN Served[epoch] ELSE @]
     /\ UNCHANGED <<epoch, calls, main, manifest, faults, consolidating>>

(* run() closes the run with the program's status when its block is left.  *)
CloseRun(m) ==
  /\ m \in Running /\ tasks[m].pc > Len(tasks[m].prog.steps)
  /\ db' = FinishFetchRun(db, tasks[m].run, tasks[m].prog.status)
  /\ tasks' = [tasks EXCEPT ![m].st = "done"]
  /\ UNCHANGED <<files, epoch, calls, main, manifest, faults, consolidating>>

(* What a step leaves in the database and in its file when it is broken    *)
(* off: a row without its artifact record, a torn file; of a tree that is  *)
(* removed and written anew, nothing or some partitions.                   *)
BrokenLedgers(task, step) ==
  {db} \cup
  (CASE step.op \in {"fetch", "keep"} -> {InsertArtifact(db, task.run, step.file)}
     [] step.op = "record" ->
          {InsertDerivedOutput(db, task.run, step.file, files[step.file])}
     [] OTHER -> {})

(* The partitions of a table that a write has got to.                      *)
PartsOf(table) == {[d \in dates |-> table[d]] : dates \in (SUBSET DOMAIN table) \ {{}}}

Leftovers(task, step) ==
  {Torn} \cup (IF step.how = "rewrite" THEN {NoFile} \cup PartsOf(Written(task, step)) ELSE {})

BrokenFiles(task, step) ==
  IF step.op # "save" THEN {files}
  ELSE {files} \cup {[files EXCEPT ![step.file] = c] : c \in Leftovers(task, step)}

(* An exception leaves the run's block, which closes the run as failed.    *)
FailTask(m, ledger) ==
  /\ db' = IF tasks[m].run = 0 THEN ledger
           ELSE FinishFetchRun(ledger, tasks[m].run, "failed")
  /\ tasks' = [tasks EXCEPT ![m].st = "failed"]
  /\ UNCHANGED <<epoch, calls, main, manifest, consolidating>>

RaiseUnreadable(m) ==
  /\ Midway(m) /\ Raises(At(tasks[m]))
  /\ FailTask(m, db)
  /\ UNCHANGED <<files, faults>>

RaiseMidway(m) ==
  /\ Midway(m) /\ ~Raises(At(tasks[m])) /\ faults < MaxFaults
  /\ \E ledger \in BrokenLedgers(tasks[m], At(tasks[m])) : FailTask(m, ledger)
  /\ files' \in BrokenFiles(tasks[m], At(tasks[m]))
  /\ faults' = faults + 1

(* The process is killed: the runs stay running, the save of one thread    *)
(* may be broken off.                                                      *)
Kill ==
  /\ main.st # "idle" /\ faults < MaxFaults
  /\ faults' = faults + 1
  /\ files' \in {files} \cup
       UNION {BrokenFiles(tasks[m], At(tasks[m])) :
                m \in {n \in Running : Midway(n) /\ ~Raises(At(tasks[n]))}}
  /\ main' = Idle /\ tasks' = NoTasks
  /\ UNCHANGED <<db, epoch, calls, manifest, consolidating>>

---------------------------------------------------------------------------
(* The end of a group and of the invocation.                               *)

(* executor.map: results are taken in the order of the modes; the first    *)
(* exception cancels what has not started.                                 *)
CancelQueued(i) ==
  /\ tasks[Group[i]].st = "failed"
  /\ \A j \in 1 .. i - 1 : tasks[Group[j]].st = "done"
  /\ \E m \in DOMAIN tasks : tasks[m].st = "queued"
  /\ tasks' = [m \in DOMAIN tasks |->
                 IF tasks[m].st = "queued" THEN [tasks[m] EXCEPT !.st = "cancelled"]
                                           ELSE tasks[m]]
  /\ UNCHANGED <<db, files, epoch, calls, main, manifest, faults, consolidating>>

(* A plausible slip: the pool waits for tasks that were cancelled.         *)
SettledWhenRun(task) == task.st \in {"done", "failed"}

Settled(task) == task.st \in {"done", "failed", "cancelled"}

(* A plausible slip: an exception counts only if no mode of the group is done. *)
SomeDone == \E m \in DOMAIN tasks : tasks[m].st = "done"

AllDone == \A m \in DOMAIN tasks : tasks[m].st = "done"

ReportOf(m) == [paths |-> ReportPaths(m, tasks[m].prog),
                materializable |-> tasks[m].prog.status # "skipped"]

GroupDone ==
  /\ main.st = "fetching" /\ (\A m \in DOMAIN tasks : Settled(tasks[m])) /\ AllDone
  /\ LET rest == Tail(main.groups)
     IN /\ main' = [main EXCEPT !.st = IF rest = <<>> THEN "emitting" ELSE @,
                                !.groups = rest,
                                !.reports = @ \cup {ReportOf(m) : m \in DOMAIN tasks}]
        /\ tasks' = IF rest = <<>> THEN NoTasks ELSE TasksOf(rest[1])
  /\ UNCHANGED <<db, files, epoch, calls, manifest, faults, consolidating>>

GroupRaises ==
  /\ main.st = "fetching" /\ (\A m \in DOMAIN tasks : Settled(tasks[m])) /\ ~AllDone
  /\ main' = Idle /\ tasks' = NoTasks
  /\ UNCHANGED <<db, files, epoch, calls, manifest, faults, consolidating>>

(* emit_manifest_for_report_paths: the files of all reports as they are    *)
(* now; a report without files is an error unless it says so.              *)
Exportable(report) == {f \in report.paths : files[f] # NoFile}
Emittable ==
  /\ \A report \in main.reports : report.materializable => Exportable(report) # {}
  /\ \E report \in main.reports : Exportable(report) # {}

EmitManifest ==
  /\ main.st = "emitting"
  /\ manifest' =
       IF Emittable
       THEN [runs |-> main.base + 1 .. Len(db.runs),
             pins |-> {[file |-> f, content |-> files[f]] :
                         f \in UNION {Exportable(r) : r \in main.reports}}]
       ELSE manifest
  /\ main' = Idle
  /\ UNCHANGED <<db, files, epoch, calls, tasks, faults, consolidating>>

---------------------------------------------------------------------------
(* consolidate_acquisition_dbs: the target is unlinked and created anew;   *)
(* each source is one transaction, whose reads of the source are not.      *)

Sources == <<OtherDb, db>>
SourceDb == Sources[import.source]

StartConsolidation ==
  /\ import.st = "planned"
  /\ target' = EmptyDb
  /\ import' = [import EXCEPT !.st = "importing"]
  /\ UNCHANGED fetching

ImportRaises ==
  /\ target' = target
  /\ import' = [import EXCEPT !.st = "failed"]

(* A plausible slip: rows keep the run ids of their source.                *)
KeptIds(rows) == rows

(* fetch_run_id_map: the ids of the source follow those of the target.     *)
Remapped(rows) == {[row EXCEPT !.run = @ + Len(target.runs)] : row \in rows}

(* A row of a run that the first read did not see is a KeyError.           *)
Known(rows) == \A row \in rows : row.run <= import.seen

ImportRuns ==
  /\ import.st = "importing" /\ import.phase = "runs"
  /\ IF SourceDb = NoSource THEN ImportRaises
     ELSE /\ import' = [import EXCEPT !.phase = "artifacts", !.seen = Len(SourceDb.runs),
                          !.tx = [target EXCEPT !.runs = @ \o SourceDb.runs]]
          /\ UNCHANGED target
  /\ UNCHANGED fetching

ImportArtifacts ==
  /\ import.st = "importing" /\ import.phase = "artifacts"
  /\ IF Known(SourceDb.artifacts)
     THEN /\ import' = [import EXCEPT !.phase = "outputs",
                          !.tx.artifacts = @ \cup Remapped(SourceDb.artifacts)]
          /\ UNCHANGED target
     ELSE ImportRaises
  /\ UNCHANGED fetching

ImportOutputs ==
  /\ import.st = "importing" /\ import.phase = "outputs"
  /\ IF Known(SourceDb.outputs)
     THEN /\ import' = [import EXCEPT !.phase = "rows",
                          !.tx.outputs = @ \cup Remapped(SourceDb.outputs)]
          /\ UNCHANGED target
     ELSE ImportRaises
  /\ UNCHANGED fetching

(* The kinds of output _import_normalized_output reads the files of.       *)
NormalizedFiles ==
  {"us_events", "macro", "cpi_vintages", "pmi", "pmi_history", "pit", "fomc_minutes",
   "powell_speeches", "usd_index", "eps_snapshots", "eps_timeline", "daily_ohlcv"}

RowsReadable(outputs) ==
  \A out \in outputs : out.file \in NormalizedFiles => IsTable(files[out.file])

(* The rows of this source come from the files as they are now; then the   *)
(* commit.                                                                 *)
ImportRows ==
  /\ import.st = "importing" /\ import.phase = "rows"
  /\ IF RowsReadable(import.tx.outputs \ target.outputs)
     THEN /\ target' = import.tx
          /\ import' = IF import.source = Len(Sources)
                       THEN [import EXCEPT !.st = "done"]
                       ELSE [import EXCEPT !.source = @ + 1, !.phase = "runs"]
     ELSE ImportRaises
  /\ UNCHANGED fetching

---------------------------------------------------------------------------
TaskStep(m) == OpenRun(m) \/ Proceed(m) \/ CloseRun(m) \/ RaiseUnreadable(m)

Places == IF main.st = "fetching" THEN DOMAIN Group ELSE {}
PoolStep == \E i \in Places : StartTask(i) \/ CancelQueued(i)

Next ==
  \/ StartInvocation \/ GroupDone \/ GroupRaises \/ EmitManifest
  \/ \E i \in Places : StartTask(i) \/ CancelQueued(i)
  \/ \E m \in DOMAIN tasks :
       \/ OpenRun(m) \/ Proceed(m) \/ CloseRun(m)
       \/ RaiseUnreadable(m) \/ RaiseMidway(m)
  \/ Kill
  \/ StartConsolidation \/ ImportRuns \/ ImportArtifacts \/ ImportOutputs \/ ImportRows

(* The process is scheduled: a call that can return or raise does.         *)
Fairness ==
  WF_vars(PoolStep \/ GroupDone \/ GroupRaises \/ EmitManifest
            \/ \E m \in DOMAIN tasks : TaskStep(m))

Spec == Init /\ [][Next]_vars /\ Fairness

---------------------------------------------------------------------------
(* The database, the files, the threads and the consolidation keep their   *)
(* shape, and no row of a database is of a run it does not have.           *)
IsTask(task) ==
  /\ DOMAIN task = {"st", "prog", "pc", "run", "data"}
  /\ task.st \in {"queued", "running", "done", "failed", "cancelled"}
  /\ IsRun(task.prog) /\ task.pc \in 1 .. Len(task.prog.steps) + 1
  /\ task.run \in 0 .. Len(db.runs) /\ task.data \in Table

FetchTypeOK ==
  /\ IsLedger(db) /\ files \in [Files -> Contents] /\ epoch \in DOMAIN Served
  /\ DOMAIN main = {"st", "groups", "required", "base", "reports"}
  /\ main.st \in {"idle", "fetching", "emitting"} /\ main.base \in 0 .. Len(db.runs)
  /\ \A m \in DOMAIN tasks : IsTask(tasks[m])

ImportTypeOK ==
  /\ target = NoFile \/ IsLedger(target)
  /\ DOMAIN import = {"st", "source", "phase", "seen", "tx"}
  /\ import.st \in {"never", "planned", "importing", "failed", "done"}
  /\ import.source \in {1, 2} /\ import.phase \in {"runs", "artifacts", "outputs", "rows"}
  /\ import.seen \in Nat /\ IsLedger(import.tx)

TypeOK == FetchTypeOK /\ ImportTypeOK /\ faults \in 0 .. MaxFaults

(* A consolidation that reads while runs are in progress never shows a run *)
(* that says ok without all of its artifacts and outputs, nor one with     *)
(* those of another (_import_one_source, run).                             *)
OfRun(rows, r) == {[row EXCEPT !.run = 0] : row \in {row \in rows : row.run = r}}
OkRunIsWhole ==
  target # NoFile =>
    \A r \in RunIds(target) :
      LET foreign == OtherDb # NoSource /\ r <= Len(OtherDb.runs)
          source == IF foreign THEN OtherDb ELSE db
          own == IF foreign THEN r
                 ELSE r - (IF OtherDb = NoSource THEN 0 ELSE Len(OtherDb.runs))
      IN target.runs[r].status = "ok" =>
           /\ OfRun(target.artifacts, r) = OfRun(source.artifacts, own)
           /\ OfRun(target.outputs, r) = OfRun(source.outputs, own)

(* The files that accumulate what their sources no longer serve.  A manual *)
(* import of PMI tables replaces that history on purpose.                  *)
Histories == {"daily_ohlcv", "macro", "cpi_vintages", "sentiment", "cpi_nowcast",
              "eps_weekly", "pmi_history"}

(* A fetch never drops a date from a history, whatever its source has      *)
(* stopped serving and whichever run fell back to another source; only a   *)
(* write that is broken off loses one (_merge_existing_rows and its        *)
(* counterparts).                                                          *)
HistoryOnlyGrows ==
  [][ \A f \in Histories :
        /\ IsTable(files[f]) /\ faults' = faults
        /\ f = "pmi_history" => "pmi_manual" \notin Running
        => IsTable(files'[f]) /\ DOMAIN files[f] \subseteq DOMAIN files'[f] ]_vars

(* A manifest is emitted only by an invocation all of whose runs have      *)
(* ended well, whichever thread failed first, and pins no torn file (main, *)
(* emit_manifest_for_report_paths).  Archived workbooks are left out: one  *)
(* that cannot be parsed is skipped by its loop but is in its directory.   *)
ManifestOfFinishedRuns ==
  manifest # NoFile =>
    /\ \A r \in manifest.runs : db.runs[r].status \in {"ok", "skipped"}
    /\ \A pin \in manifest.pins : pin.file # "wayback_xlsx" => IsTable(pin.content)

(* An invocation ends, however its threads fail: nothing waits for a task  *)
(* that was cancelled or for a worker that a failed one keeps (main,       *)
(* executor.map).                                                          *)
InvocationsEnd == main.st # "idle" ~> main.st = "idle"
=============================================================================
