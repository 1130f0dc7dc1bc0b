----------------------------- MODULE OhlcvRefresh -----------------------------
(***************************************************************************)
(* The refresh of the constituent price history                            *)
(* (src/src/regime_data_fetch/local_daily_ohlcv_sqlite.py) inside the run  *)
(* ledger of acquisition_store.py: bars are fetched, merged into one       *)
(* parquet file per symbol, and the whole tree is imported into SQLite by  *)
(* a run nested in the first.  One process at a time runs it; the bars are *)
(* told apart by the revision of the provider's data they come from.       *)
(***************************************************************************)
EXTENDS Integers, Sequences, FiniteSetsExt

CONSTANTS NSymbols, NDates,  \* symbols 1..NSymbols in sort order, dates 1..NDates
          Torn,              \* a parquet file cut short
          MaxVersion,        \* bound on the revisions of the provider's data
          MaxRuns,           \* bound on the rows of fetch_runs
          MaxFaults          \* bound on exceptions and kills

Symbols == 1..NSymbols
Dates == 1..NDates
NoBar == 0
Bars == [Dates -> NoBar..MaxVersion]
NoFile == [d \in Dates |-> NoBar]

ASSUME RefreshAssumption ==
    /\ NSymbols \in Nat \ {0} /\ NDates \in Nat \ {0}
    /\ MaxVersion \in Nat \ {0} /\ MaxRuns \in Nat /\ MaxFaults \in Nat
    /\ Torn \notin Bars

VARIABLES
    version,   \* the revision the provider answers with today
    tree,      \* symbol=<s>/ohlcv.parquet: the bar of each date
    db,        \* daily_ohlcv_rows, by symbol and date
    runs,      \* fetch_runs in run_id order
    recorded,  \* derived_outputs: <<run_id, output_kind>>
    step,      \* where the process is; idle: there is none
    outer,     \* run_id of the refresh under way, 0 for none
    inner,     \* run_id of the import under way, 0 for none
    fetched,   \* the answer in memory: first date, revision, symbols
    queue,     \* symbols whose file is still to be merged, in sort order
    outgoing,  \* the merged frame on its way to the file
    faults,
    known,     \* history: the dates each file has held
    lost       \* history: run rows a kill, or a failing UPDATE, left without an end

vars == <<version, tree, db, runs, recorded, step, outer, inner, fetched, queue,
          outgoing, faults, known, lost>>
memory == <<fetched, queue, outgoing>>
disk == <<tree, db, recorded, known>>

Fault == faults < MaxFaults /\ faults' = faults + 1

-----------------------------------------------------------------------------
(* fetch_runs: start_fetch_run, finish_fetch_run, the run() context manager *)

Started(kind) == Append(runs, [kind |-> kind, status |-> "running"])
Finished(run, status) == [runs EXCEPT ![run].status = status]

\* except BaseException: the inner run is closed first, then the outer one.
Unwind ==
    /\ step = "failing"
    /\ IF inner # 0
          THEN /\ runs' = Finished(inner, "failed") /\ inner' = 0
               /\ step' = IF outer = 0 THEN "idle" ELSE "failing"
               /\ UNCHANGED outer
          ELSE /\ runs' = Finished(outer, "failed") /\ outer' = 0
               /\ step' = "idle" /\ UNCHANGED inner
    /\ UNCHANGED <<version, disk, memory, faults, lost>>

\* The UPDATE of the handler may itself raise; the exception goes on outwards.
LoseEnd ==
    /\ step = "failing"
    /\ Fault
    /\ lost' = lost \cup {IF inner # 0 THEN inner ELSE outer}
    /\ inner' = 0
    /\ IF inner # 0 /\ outer # 0 THEN UNCHANGED <<outer, step>>
                                ELSE outer' = 0 /\ step' = "idle"
    /\ UNCHANGED <<version, disk, runs, memory>>

\* Any call may raise: no disk space, a locked database, an interrupt.
Raise ==
    /\ step \notin {"idle", "failing"}
    /\ Fault
    /\ step' = "failing"
    /\ UNCHANGED <<version, disk, runs, outer, inner, memory, lost>>

\* The process is killed; no handler runs.
Kill ==
    /\ step # "idle"
    /\ Fault
    /\ lost' = lost \cup ({outer, inner} \ {0})
    /\ step' = "idle" /\ outer' = 0 /\ inner' = 0
    /\ UNCHANGED <<version, disk, runs, memory>>

-----------------------------------------------------------------------------
(* run_alpaca_constituent_daily_ohlcv_fetch                                *)

StartRefresh ==
    /\ step = "idle" /\ Len(runs) + 2 <= MaxRuns
    /\ runs' = Started("refresh") /\ outer' = Len(runs) + 1
    /\ step' = "fetch"
    /\ UNCHANGED <<version, disk, inner, memory, faults, lost>>

\* The provider answers for some symbols; no rows at all, or a symbol missing
\* without --allow-missing-symbols, is an error.
Fetch(first, symbols, allowMissing) ==
    /\ step = "fetch"
    /\ IF symbols = {} \/ (symbols # Symbols /\ ~allowMissing)
          THEN step' = "failing" /\ UNCHANGED <<fetched, queue>>
          ELSE /\ fetched' = [first |-> first, version |-> version,
                              symbols |-> symbols]
               /\ queue' = symbols
               /\ step' = "merge"
    /\ UNCHANGED <<version, disk, runs, outer, inner, outgoing, faults, lost>>

InHand == Min(queue)

\* A plausible slip: the file is written with the answer alone.
AnswerOnly(existing) ==
    {[d \in Dates |-> IF d < fetched.first THEN NoBar ELSE fetched.version]}

\* concat, sort_values("date"), drop_duplicates(keep="last"): the sort is
\* pandas' default quicksort, not stable from 17 rows on, so either of the two
\* bars of a date may come last and be kept.
Merged(existing) ==
    {merged \in Bars : \A d \in Dates :
        IF d < fetched.first THEN merged[d] = existing[d]
        ELSE merged[d] \in {existing[d], fetched.version} \ {NoBar}}

\* The file of the next symbol is read, merged in memory, and opened for
\* writing; a torn file cannot be read.
MergeSymbol ==
    /\ step = "merge"
    /\ IF tree[InHand] = Torn
          THEN step' = "failing" /\ UNCHANGED <<tree, outgoing>>
          ELSE /\ outgoing' \in Merged(tree[InHand])
               /\ tree' = [tree EXCEPT ![InHand] = Torn]
               /\ step' = "write"
    /\ UNCHANGED <<version, db, runs, recorded, outer, inner, fetched, queue,
                   faults, known, lost>>

\* to_parquet is through; the last symbol's file ends the loop.
WriteSymbol ==
    /\ step = "write"
    /\ tree' = [tree EXCEPT ![InHand] = outgoing]
    /\ known' = [known EXCEPT ![InHand] =
                    @ \cup {d \in Dates : outgoing[d] # NoBar}]
    /\ queue' = queue \ {InHand}
    /\ step' = IF queue' = {} THEN "record" ELSE "merge"
    /\ UNCHANGED <<version, db, runs, recorded, outer, inner, fetched, outgoing,
                   faults, lost>>

\* record_output of the tree, then the import is called.
RecordTree ==
    /\ step = "record"
    /\ recorded' = recorded \cup {<<outer, "tree">>}
    /\ step' = "open"
    /\ UNCHANGED <<version, tree, db, runs, outer, inner, memory, faults, known,
                   lost>>

-----------------------------------------------------------------------------
(* run_local_daily_ohlcv_sqlite_import, nested or on its own               *)

\* Without a parquet file it exits before a run is started.
StartImport ==
    /\ \/ step = "open"
       \/ step = "idle" /\ Len(runs) < MaxRuns
          /\ \E s \in Symbols : tree[s] # NoFile
    /\ runs' = Started("import") /\ inner' = Len(runs) + 1
    /\ step' = "import"
    /\ UNCHANGED <<version, disk, outer, memory, faults, lost>>

\* INSERT OR REPLACE of every row of every file.
Imported(s, d) == IF tree[s][d] = NoBar THEN db[s][d] ELSE tree[s][d]

\* A plausible slip: each file is committed, so a torn one stops half way.
ImportFileByFile ==
    /\ step = "import"
    /\ LET readable == {s \in Symbols : \A t \in 1..s : tree[t] # Torn}
       IN  /\ db' = [s \in Symbols |-> IF s \in readable
                        THEN [d \in Dates |-> Imported(s, d)] ELSE db[s]]
           /\ step' = IF readable = Symbols THEN "recordImport" ELSE "failing"
    /\ UNCHANGED <<version, tree, runs, recorded, outer, inner, memory, faults,
                   known, lost>>

\* One transaction for the whole tree; a torn file rolls it back.
ImportRows ==
    /\ step = "import"
    /\ IF \E s \in Symbols : tree[s] = Torn
          THEN step' = "failing" /\ UNCHANGED db
          ELSE /\ db' = [s \in Symbols |-> [d \in Dates |-> Imported(s, d)]]
               /\ step' = "recordImport"
    /\ UNCHANGED <<version, tree, runs, recorded, outer, inner, memory, faults,
                   known, lost>>

\* The artifact of every file and the report of the import.
RecordImport ==
    /\ step = "recordImport"
    /\ recorded' = recorded \cup {<<inner, "report">>}
    /\ step' = "closeImport"
    /\ UNCHANGED <<version, tree, db, runs, outer, inner, memory, faults, known,
                   lost>>

CloseImport ==
    /\ step = "closeImport"
    /\ runs' = Finished(inner, "ok") /\ inner' = 0
    /\ step' = IF outer = 0 THEN "idle" ELSE "report"
    /\ UNCHANGED <<version, disk, outer, memory, faults, lost>>

-----------------------------------------------------------------------------
\* Back in the refresh: its report, and the end of its run.
RecordReport ==
    /\ step = "report"
    /\ recorded' = recorded \cup {<<outer, "report">>}
    /\ step' = "close"
    /\ UNCHANGED <<version, tree, db, runs, outer, inner, memory, faults, known,
                   lost>>

CloseRefresh ==
    /\ step = "close"
    /\ runs' = Finished(outer, "ok") /\ outer' = 0
    /\ step' = "idle"
    /\ UNCHANGED <<version, disk, inner, memory, faults, lost>>

\* The provider restates its history, a split for instance.
Revise ==
    /\ version < MaxVersion /\ version' = version + 1
    /\ UNCHANGED <<disk, runs, step, outer, inner, memory, faults, lost>>

Init ==
    /\ version = 1
    /\ tree = [s \in Symbols |-> NoFile] /\ db = [s \in Symbols |-> NoFile]
    /\ runs = <<>> /\ recorded = {}
    /\ step = "idle" /\ outer = 0 /\ inner = 0
    /\ fetched = [first |-> 1, version |-> 1, symbols |-> {}]
    /\ queue = {} /\ outgoing = NoFile /\ faults = 0
    /\ known = [s \in Symbols |-> {}] /\ lost = {}

Next ==
    \/ StartRefresh
    \/ \E first \in Dates, symbols \in SUBSET Symbols, allow \in BOOLEAN :
          Fetch(first, symbols, allow)
    \/ MergeSymbol \/ WriteSymbol \/ RecordTree
    \/ StartImport \/ ImportRows \/ RecordImport \/ CloseImport
    \/ RecordReport \/ CloseRefresh
    \/ Raise \/ Unwind \/ LoseEnd \/ Kill \/ Revise

Spec == Init /\ [][Next]_vars

-----------------------------------------------------------------------------
(* Properties                                                              *)

Steps == {"idle", "fetch", "merge", "write", "record", "open", "import",
          "recordImport", "closeImport", "report", "close", "failing"}

TypeOK ==
    /\ version \in 1..MaxVersion
    /\ tree \in [Symbols -> Bars \cup {Torn}] /\ db \in [Symbols -> Bars]
    /\ runs \in Seq([kind : {"refresh", "import"},
                     status : {"running", "ok", "failed"}])
    /\ recorded \subseteq (1..Len(runs)) \X {"tree", "report"}
    /\ step \in Steps /\ outer \in 0..Len(runs) /\ inner \in 0..Len(runs)
    /\ step = "idle" <=> (outer = 0 /\ inner = 0)
    /\ queue \subseteq Symbols /\ outgoing \in Bars
    /\ step \in {"merge", "write"} => queue # {}
    /\ fetched \in [first : Dates, version : 1..MaxVersion, symbols : SUBSET Symbols]
    /\ known \in [Symbols -> SUBSET Dates] /\ lost \subseteq 1..Len(runs)
    /\ faults \in 0..MaxFaults

\* The database moves only as a whole: an import that changes it has read
\* every file of the tree, none of them torn, so no reader ever sees rows of
\* two generations of files that were never in the tree together.
ImportIsWhole ==
    [][db' # db =>
          \A s \in Symbols :
              tree[s] # Torn
              /\ \A d \in Dates : tree[s][d] # NoBar => db'[s][d] = tree[s][d]]_vars

\* While the latest run is an import that ended well, the database holds every
\* bar of the tree, as the tree has it.
LastImportIsTree ==
    (runs # <<>> /\ runs[Len(runs)] = [kind |-> "import", status |-> "ok"]) =>
        \A s \in Symbols, d \in Dates : tree[s][d] # NoBar => db[s][d] = tree[s][d]

\* A refresh is only recorded as ok when its nested import was, and when every
\* output of both is on record: an exception of the import cannot be lost on
\* the way through the two context managers.
OkMeansImported ==
    \A r \in 1..Len(runs) :
        (runs[r].kind = "refresh" /\ runs[r].status = "ok") =>
            /\ r < Len(runs)
            /\ runs[r + 1] = [kind |-> "import", status |-> "ok"]
            /\ {<<r, "tree">>, <<r, "report">>, <<r + 1, "report">>} \subseteq recorded

\* A run whose row still says running when no process is there was killed, or
\* its ledger could not be written: every other exception reaches the rows of
\* both runs.
RunningMeansLost ==
    step = "idle" =>
        \A r \in 1..Len(runs) : runs[r].status = "running" => r \in lost

\* A date that a file has ever held is still in it, unless the file is torn:
\* refreshes of later windows, of fewer symbols, or cut short lose no history.
HistoryIsKept ==
    \A s \in Symbols : tree[s] # Torn => \A d \in known[s] : tree[s][d] # NoBar
=============================================================================
