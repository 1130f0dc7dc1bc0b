---------------------------- MODULE ShadowLedger ----------------------------
(***************************************************************************)
(* Forward shadow mode: the daily runner (src/scripts/run_shadow_regime.py),*)
(* the replay checker (run_shadow_replay_check.py) and the dead man's      *)
(* switch (run_shadow_deadman_check.py) over the ledger they share         *)
(* (src/src/regime_detection/shadow_storage.py): a SQLite database, a      *)
(* directory of archived inputs per date and an output file per date.      *)
(* The three are separate processes; each committed step of a process is   *)
(* an action, and a process may die between any two of its steps.          *)
(***************************************************************************)
EXTENDS ShadowQualification, Sequences

CONSTANTS LastDay,     \* the calendar is 1..LastDay
          FirstDay,    \* the day shadow mode starts
          Configs,     \* config files by content hash
          VersionOf,   \* the config_version literal each of them carries
          Feeds,       \* what a run can be handed: market, macro, membership
          MaxMishaps   \* bound on reruns, crashes, failures, mismatches

ASSUME LedgerAssumption ==
    /\ LastDay \in Nat /\ FirstDay \in Sessions /\ Sessions \subseteq 1..LastDay
    /\ VersionOf \in [Configs -> STRING] /\ MaxMishaps \in Nat
    /\ Feeds \subseteq [market : STRING, macro : STRING, membership : STRING]

VARIABLES
    today,
    runs,        \* the runs table in run_id order
    mismatches,  \* run ids of the replay_checks with matches = 0
    incidents,   \* the incidents table
    archives,    \* input_archives/<date>/
    outputs,     \* outputs/<date>.json
    runner,      \* the daily runner: idle, or the step it is about to take
    replayer,    \* the replay checker: idle, or the mismatch it must report
    checked,     \* the dead man's switch has run today
    mishaps      \* how much of the bound on adversity is used up

vars == <<today, runs, mismatches, incidents, archives, outputs, runner,
          replayer, checked, mishaps>>
ledgerVars == <<runs, mismatches, incidents>>
fileVars == <<archives, outputs>>

None == [market |-> "none", macro |-> "none"]
NoOutput == [market |-> "none", macro |-> "none", membership |-> "none",
             config |-> "none"]
Idle == [step |-> "idle"]

Mishap == mishaps < MaxMishaps /\ mishaps' = mishaps + 1

\* An output is determined by what the engine was given; two different
\* inputs are taken to give two different outputs.
Classify(archive, membership, config) ==
    [market |-> archive.market, macro |-> archive.macro,
     membership |-> membership, config |-> config]

\* write_archived_inputs: overwrites the market file, and leaves the macro
\* file of an earlier attempt in place when this run has no macro series.
WithFeed(archive, feed) ==
    [market |-> feed.market,
     macro  |-> IF feed.macro = "none" THEN archive.macro ELSE feed.macro]

RowIds == 1..Len(runs)
Versions == {VersionOf[c] : c \in Configs}
RowsOf(version) == {r \in RowIds : VersionOf[runs[r].config] = version}
RowsAt(date) == {r \in RowIds : runs[r].date = date}

\* The UNIQUE (as_of_date, engine_version, config_version) constraint.
Recorded(date, config) ==
    RowsAt(date) \cap RowsOf(VersionOf[config]) # {}

\* fetch_run_row by date alone: the most recently inserted row.
FetchRunRow(date) == Max(RowsAt(date))

\* latest_config_sha256: ORDER BY as_of_date DESC, run_id DESC LIMIT 1.
LatestConfig(version) ==
    LET latest == Max({runs[r].date : r \in RowsOf(version)})
    IN  runs[Max(RowsOf(version) \cap RowsAt(latest))].config

\* A plausible slip: the version literals are compared, not the contents.
VersionChanged(config) ==
    LET version == VersionOf[config]
    IN  RowsOf(version) # {} /\ VersionOf[LatestConfig(version)] # version

ConfigChanged(config) ==
    LET version == VersionOf[config]
    IN  RowsOf(version) # {} /\ LatestConfig(version) # config

\* What evaluate_shadow_qualification reads for one engine/config pair.
Ledger(version) ==
    [status   |-> [s \in Sessions |->
                      LET rows == RowsOf(version) \cap RowsAt(s)
                      IN  IF rows = {} THEN "missing" ELSE runs[Max(rows)].status],
     mismatch |-> {runs[r].date : r \in mismatches \cap RowsOf(version)},
     breaking |-> {i.day : i \in {j \in incidents : j.breaks}}]

Incident(day, cause, breaks) == [day |-> day, cause |-> cause, breaks |-> breaks]

-----------------------------------------------------------------------------
(* The daily runner                                                        *)

\* run_shadow up to the archive: a changed config content is an incident,
\* committed before anything else is written.
StartRun(date, config, feed) ==
    /\ runner = Idle
    /\ date \in Sessions /\ date <= today
    /\ IF Recorded(date, config) THEN Mishap ELSE UNCHANGED mishaps
    /\ incidents' = IF ConfigChanged(config)
                        THEN incidents \cup {Incident(date, "config", TRUE)}
                        ELSE incidents
    /\ runner' = [step |-> "archive", date |-> date, config |-> config,
                  feed |-> feed]
    /\ UNCHANGED <<today, runs, mismatches, archives, outputs, replayer,
                   checked>>

ArchiveInputs ==
    /\ runner.step = "archive"
    /\ archives' = [archives EXCEPT ![runner.date] = WithFeed(@, runner.feed)]
    /\ runner' = [runner EXCEPT !.step = "insert"]
    /\ UNCHANGED <<today, outputs, ledgerVars, replayer, checked, mishaps>>

NewRow == [date |-> runner.date, config |-> runner.config,
           status |-> "in_progress", sha |-> NoOutput, feed |-> runner.feed]

\* A plausible slip: INSERT OR IGNORE, and the run goes on.
InsertOrIgnoreRunRow ==
    /\ runner.step = "insert"
    /\ runs' = IF Recorded(runner.date, runner.config) THEN runs
               ELSE Append(runs, NewRow)
    /\ runner' = [runner EXCEPT !.step = "classify"]
    /\ UNCHANGED <<today, mismatches, incidents, fileVars, replayer, checked,
                   mishaps>>

\* insert_run_row: a duplicate raises IntegrityError out of run_shadow.
InsertRunRow ==
    /\ runner.step = "insert"
    /\ IF Recorded(runner.date, runner.config)
          THEN runner' = Idle /\ UNCHANGED runs
          ELSE /\ runs' = Append(runs, NewRow)
               /\ runner' = [runner EXCEPT !.step = "classify"]
    /\ UNCHANGED <<today, mismatches, incidents, fileVars, replayer, checked,
                   mishaps>>

RunnerRow == Max(RowsAt(runner.date) \cap RowsOf(VersionOf[runner.config]))

\* Classification from the archive just written; membership never gets there.
ClassifyAndWrite ==
    /\ runner.step = "classify"
    /\ outputs' = [outputs EXCEPT ![runner.date] =
                      Classify(archives[runner.date], runner.feed.membership,
                               runner.config)]
    /\ runner' = [runner EXCEPT !.step = "publish"]
    /\ UNCHANGED <<today, archives, ledgerVars, replayer, checked, mishaps>>

UpdateSuccess ==
    /\ runner.step = "publish"
    /\ runs' = [runs EXCEPT ![RunnerRow].status = "success",
                            ![RunnerRow].sha = outputs[runner.date]]
    /\ runner' = Idle
    /\ UNCHANGED <<today, mismatches, incidents, fileVars, replayer, checked,
                   mishaps>>

\* except Exception, from the reload of the archive to the update of the row.
UpdateFailure ==
    /\ runner.step \in {"classify", "publish"}
    /\ runs' = [runs EXCEPT ![RunnerRow].status = "failure"]
    /\ runner' = Idle
    /\ Mishap
    /\ UNCHANGED <<today, mismatches, incidents, fileVars, replayer, checked>>

\* The process dies; nothing but its own position is lost.
RunnerCrash ==
    /\ runner # Idle
    /\ runner' = Idle
    /\ Mishap
    /\ UNCHANGED <<today, ledgerVars, fileVars, replayer, checked>>

-----------------------------------------------------------------------------
(* The replay checker                                                      *)

\* The membership a replay reconstructs from the archived market file.
DerivedMembership == "derived"

\* run_replay_check up to insert_replay_check, when the outputs differ;
\* `labels' says whether the difference touches a state or label field.  A
\* check that matches records nothing any reader distinguishes.
ReplayMismatch(date, config, labels) ==
    /\ replayer = Idle
    /\ RowsAt(date) # {}
    /\ LET row == FetchRunRow(date)
       IN  /\ runs[row].status = "success"
           /\ Classify(archives[date], DerivedMembership, config) # outputs[date]
           /\ mismatches' = mismatches \cup {row}
    /\ replayer' = [step |-> "report", date |-> date, labels |-> labels]
    /\ Mishap
    /\ UNCHANGED <<today, runs, incidents, fileVars, runner, checked>>

ReportMismatch ==
    /\ replayer.step = "report"
    /\ incidents' = incidents
                    \cup {Incident(replayer.date, "replay", replayer.labels)}
    /\ replayer' = Idle
    /\ UNCHANGED <<today, runs, mismatches, fileVars, runner, checked, mishaps>>

ReplayerCrash ==
    /\ replayer # Idle
    /\ replayer' = Idle
    /\ UNCHANGED <<today, ledgerVars, fileVars, runner, checked, mishaps>>

-----------------------------------------------------------------------------
(* The dead man's switch                                                   *)

\* _previous_nyse_session raises when there is none.
PreviousSessions == {s \in Sessions : s < today}

\* _interior_session_gaps: sessions between the first and the last recorded
\* one, of the whole history of the pair, that have no row.
InteriorGaps(version) ==
    LET recorded == {runs[r].date : r \in RowsOf(version)}
    IN  {s \in Sessions \ recorded :
            (\E a \in recorded : a < s) /\ (\E b \in recorded : s < b)}

\* _should_insert_blocking_incident
ShouldInsertIncident(reason) ==
    reason \notin {"qualification_breaking_incident",
                   "insufficient_consecutive_sessions"}

\* run_deadman_check: previous session missing, interior gap, blocked, or ok.
\* `breaks' is what the alert for a missing run is logged with.
MorningCheck(breaks) ==
    /\ ~checked /\ PreviousSessions # {}
    /\ LET session == Max(PreviousSessions)
           version == VersionOf[runs[FetchRunRow(session)].config]
           found == Evaluate(Ledger(version), session)
           raise(cause, breaking) ==
               incidents' = incidents \cup {Incident(today, cause, breaking)}
       IN  IF RowsAt(session) = {} THEN raise("missing", breaks)
           ELSE IF InteriorGaps(version) # {} THEN raise("gap", TRUE)
           ELSE IF found.count < Required /\ ShouldInsertIncident(found.reason)
               THEN raise("blocked", TRUE)
           ELSE UNCHANGED incidents
    /\ checked' = TRUE
    /\ UNCHANGED <<today, runs, mismatches, fileVars, runner, replayer, mishaps>>

\* A plausible slip: the alert for a missing run is logged as harmless.
LenientDeadmanCheck == MorningCheck(FALSE)

DeadmanCheck == MorningCheck(TRUE)

NextDay ==
    /\ today < LastDay
    /\ today' = today + 1
    /\ checked' = FALSE
    /\ UNCHANGED <<ledgerVars, fileVars, runner, replayer, mishaps>>

-----------------------------------------------------------------------------
Init ==
    /\ today = FirstDay
    /\ runs = <<>> /\ mismatches = {} /\ incidents = {}
    /\ archives = [s \in Sessions |-> None]
    /\ outputs = [s \in Sessions |-> NoOutput]
    /\ runner = Idle /\ replayer = Idle
    /\ checked = FALSE /\ mishaps = 0

Runner ==
    \/ \E date \in Sessions, config \in Configs, feed \in Feeds :
          StartRun(date, config, feed)
    \/ ArchiveInputs \/ InsertRunRow \/ ClassifyAndWrite
    \/ UpdateSuccess \/ UpdateFailure \/ RunnerCrash

Replayer ==
    \/ \E date \in Sessions, config \in Configs, labels \in BOOLEAN :
          ReplayMismatch(date, config, labels)
    \/ ReportMismatch \/ ReplayerCrash

Next == Runner \/ Replayer \/ DeadmanCheck \/ NextDay

Spec == Init /\ [][Next]_vars

-----------------------------------------------------------------------------
(* Properties                                                              *)

Causes == {"config", "missing", "gap", "blocked", "replay"}
ArchiveType == [market : {f.market : f \in Feeds} \cup {"none"},
                macro : {f.macro : f \in Feeds} \cup {"none"}]
OutputType == [market : {f.market : f \in Feeds} \cup {"none"},
               macro : {f.macro : f \in Feeds} \cup {"none"},
               membership : {f.membership : f \in Feeds} \cup {"none"},
               config : Configs \cup {"none"}]
RowType == [date : Sessions, config : Configs, sha : OutputType, feed : Feeds,
            status : {"in_progress", "success", "failure"}]
RunnerType == [step : {"archive", "insert", "classify", "publish"},
               date : Sessions, config : Configs, feed : Feeds]

\* The tables, the files and the processes keep their shape.
TypeOK ==
    /\ today \in FirstDay..LastDay /\ checked \in BOOLEAN
    /\ mishaps \in 0..MaxMishaps
    /\ runs \in Seq(RowType) /\ mismatches \subseteq RowIds
    /\ incidents \subseteq [day : 1..LastDay, cause : Causes, breaks : BOOLEAN]
    /\ archives \in [Sessions -> ArchiveType]
    /\ outputs \in [Sessions -> OutputType]
    /\ runner \in RunnerType \cup {Idle}
    /\ replayer \in [step : {"report"}, date : Sessions, labels : BOOLEAN] \cup {Idle}

\* The UNIQUE constraint, which the runs table is never made to break.
RowsAreUnique ==
    \A p, r \in RowIds :
        runs[p].date = runs[r].date
        /\ VersionOf[runs[p].config] = VersionOf[runs[r].config] => p = r

\* The backward walk of evaluate_shadow_qualification answers "qualifies"
\* exactly for an unbroken clean window ending on the day asked for: the
\* shrinking incident window misses no incident between two sessions.
QualifiesIffClean ==
    \A v \in Versions, end \in FirstDay..today :
        Qualifies(Ledger(v), end) <=> CleanWindow(Ledger(v), end)

\* A window that qualifies today was run with one config content, whatever
\* the order the sessions were run in and wherever a run died: the incident
\* of a change is committed before the first row that carries it.
OneConfigPerWindow ==
    \A v \in Versions :
        Qualifies(Ledger(v), today) =>
            \A s, t \in Window(today) :
                \A p \in RowsAt(s) \cap RowsOf(v), r \in RowsAt(t) \cap RowsOf(v) :
                    runs[p].config = runs[r].config

\* A session the dead man's switch found missing is in no window that reaches
\* past the morning it was found, even if it is run afterwards.
MissedSessionStaysMissed ==
    \A i \in incidents, v \in Versions, end \in FirstDay..today :
        i.cause = "missing" /\ i.day <= end /\ Qualifies(Ledger(v), end) =>
            Max({s \in Sessions : s < i.day}) \notin Window(end)

\* The ledger promises one immutable output per date and version: the row of
\* a finished run never changes again, and no row ever disappears.
FinishedRowsAreFinal ==
    [][\A r \in RowIds :
          /\ r \in DOMAIN runs' /\ runs'[r].date = runs[r].date
          /\ runs[r].status # "in_progress" => runs'[r] = runs[r]]_vars

\* With one config version in use, the output file of a successful run stays
\* the one whose hash the row holds, through reruns, crashes and failures.
SuccessKeepsOutput ==
    \A r \in RowIds :
        runs[r].status = "success" => outputs[runs[r].date] = runs[r].sha
=============================================================================
