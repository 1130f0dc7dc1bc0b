---------------------------- MODULE EventBuild ----------------------------
(***************************************************************************)
(* Builds of the event calendar beside the operators who approve its       *)
(* geopolitical and budget candidates.  A build fetches the scheduled      *)
(* rows, loads the approvals, gathers and judges the candidates, and       *)
(* writes four files and a report one after the other; an approval reads   *)
(* the candidates of an earlier build and rewrites the overlay.  Nothing   *)
(* is written atomically: what a kill interrupts may be left unreadable,   *)
(* or, in the two YAML files, cut where the rest still parses.             *)
(***************************************************************************)
EXTENDS EventTriage

CONSTANTS
  Answers,          \* what the sources may serve: a function of records
  Operators,        \* processes of the approval script
  FirstOverlays,    \* overlays a first build may find, hand-edited ones too
  Curated,          \* calendars written by hand, which no build replaces
  Requests,         \* the sets of sessions the engine is asked for
  CutDays,          \* bound: the days after which a kill may cut the calendar
  MaxApprovals,     \* bound: keys ever approved
  MaxBuilds,        \* bound
  Absent, Torn

(* An entry of the overlay.                                                *)
IsApproval(a) ==
  a = [type |-> a.type, date |-> a.date, evidence |-> a.evidence, window |-> a.window]

(* The rows of a calendar once the loader has read their days.             *)
IsDated(row) ==
  /\ {row.date, PublishedOn(row)} \subseteq Int
  /\ row.window = None \/ row.window \in Int \X Int

ASSUME BuildAssumption ==
  /\ \A name \in DOMAIN Answers : IsReadable(Answers[name])
  /\ \A first \in FirstOverlays \ {Absent} :
       IsList(first) /\ \A i \in DOMAIN first : IsApproval(first[i])
  /\ \A rows \in Curated : IsFiniteSet(rows) /\ \A row \in rows : IsDated(row)
  /\ Requests \subseteq SUBSET Sessions

VARIABLES
  overlay,   \* configs/events/group_b_approvals.yaml: approvals, Absent or Torn
  files,     \* the three files under event_calendar/candidates
  calendar,  \* configs/events/us_events.yaml: rows, Absent or Torn
  report,    \* the approvals the last report complains of, Absent or Torn
  build,     \* the run: what it has read and decided
  desk,      \* what every operator's script has in hand
  approved,  \* keys an operator has ever approved
  builds     \* builds started

vars == <<overlay, files, calendar, report, build, desk, approved, builds>>

NoBuild ==
  [pc |-> "idle", answer |-> None, approvals |-> <<>>, candidates |-> <<>>,
   validations |-> <<>>, decisions |-> <<>>, rows |-> {}, error |-> None]

Idle == [pc |-> "idle", id |-> None, key |-> None, held |-> <<>>]

RowsOnDisk == IF calendar \in {Absent, Torn} THEN {} ELSE calendar

Init ==
  /\ \/ overlay \in FirstOverlays /\ calendar = Absent
     \/ overlay = Absent /\ calendar \in Curated
  /\ files = [validations |-> Absent, candidates |-> Absent, quarantine |-> Absent]
  /\ report = Absent
  /\ build = NoBuild
  /\ desk = [o \in Operators |-> Idle]
  /\ approved = (IF overlay = Absent THEN {} ELSE KeysOf(overlay))
                  \cup {KeyOf(r) : r \in {r \in RowsOnDisk : r.approved}}
  /\ builds = 0

-----------------------------------------------------------------------------
(* The build.                                                              *)

Answer == Answers[build.answer]

Failed(error) == build' = [NoBuild EXCEPT !.pc = "failed", !.error = error]
At(pc) == build.pc = pc
Goes(pc) == build' = [build EXCEPT !.pc = pc]

ScheduledRows(answer) ==
  {Row(e.date, "FOMC", None, FALSE) : e \in FomcEntries(answer.fomc)}
  \cup UNION {{Row(d, type, None, FALSE) : d \in Releases(answer.bls, type)} :
                 type \in {"CPI", "NFP"}}

StartBuild(name) ==
  /\ build.pc \in {"idle", "failed", "done"} /\ builds < MaxBuilds
  /\ builds = 0 => calendar = Absent
  /\ builds' = builds + 1
  /\ build' =
       IF FomcRaises(Answers[name].fomc) \/ BlsRaises(Answers[name].bls)
       THEN [NoBuild EXCEPT !.pc = "failed", !.error = "schedule"]
       ELSE [NoBuild EXCEPT !.pc = "fetched", !.answer = name,
                            !.rows = ScheduledRows(Answers[name])]
  /\ UNCHANGED <<overlay, files, calendar, report, desk, approved>>

(* An entry of another type or a second approval of a key raises.          *)
OverlayLoads ==
  \/ overlay = Absent
  \/ /\ overlay # Torn
     /\ \A i \in DOMAIN overlay : overlay[i].type \in GroupB
     /\ IsInjective([i \in DOMAIN overlay |-> KeyOf(overlay[i])])

ApprovalsOnDisk == IF overlay = Absent THEN <<>> ELSE overlay

LoadApprovalOverlay ==
  /\ At("fetched")
  /\ IF OverlayLoads
     THEN build' = [build EXCEPT !.pc = "loaded", !.approvals = ApprovalsOnDisk]
     ELSE Failed("overlay")
  /\ UNCHANGED <<overlay, files, calendar, report, desk, approved, builds>>

(* Adapters and generators, then the validators.                           *)
SourcesRaise == AdaptersRaise(Answer)

Gather ==
  /\ At("loaded")
  /\ IF SourcesRaise THEN Failed("source")
     ELSE \E candidates \in {Gathered(Answer)} :
            IF HfRaises(candidates, Answer.hf) \/ GdeltRaises(candidates, Answer.gdelt)
            THEN Failed("validator")
            ELSE \E validations \in {Validations(candidates, Answer)} :
                   build' = [build EXCEPT !.pc = "gathered", !.validations = validations,
                                          !.candidates = Stamped(candidates, validations)]
  /\ UNCHANGED <<overlay, files, calendar, report, desk, approved, builds>>

(* Triage and rendering: one contradiction too many raises, or the first   *)
(* row that the calendar refuses.                                          *)
Triage ==
  /\ At("gathered")
  /\ \E decisions \in {Triangulate(build.candidates, build.validations, build.approvals)} :
       IF QuarantineRaises(build.candidates, decisions) THEN Failed("quarantine")
       ELSE IF RefusedKeys(build.candidates, decisions, build.approvals) # {}
       THEN Failed(Refusal(build.candidates, decisions, build.approvals))
       ELSE build' = [build EXCEPT !.pc = "validations", !.decisions = decisions,
              !.rows = @ \cup Promoted(build.candidates, decisions, build.approvals)]
  /\ UNCHANGED <<overlay, files, calendar, report, desk, approved, builds>>

Records == CandidateRecords(build.candidates, build.decisions)

WriteValidations ==
  /\ At("validations") /\ Goes("candidates")
  /\ files' = [files EXCEPT !.validations = ToSet(build.validations)]
  /\ UNCHANGED <<overlay, calendar, report, desk, approved, builds>>

WriteCandidates ==
  /\ At("candidates") /\ Goes("quarantine")
  /\ files' = [files EXCEPT !.candidates = Records]
  /\ UNCHANGED <<overlay, calendar, report, desk, approved, builds>>

WriteQuarantine ==
  /\ At("quarantine") /\ Goes("calendar")
  /\ files' = [files EXCEPT !.quarantine = QuarantineRecords(Records)]
  /\ UNCHANGED <<overlay, calendar, report, desk, approved, builds>>

WriteCalendar ==
  /\ At("calendar") /\ Goes("report")
  /\ calendar' = build.rows
  /\ UNCHANGED <<overlay, files, report, desk, approved, builds>>

WriteReport ==
  /\ At("report") /\ Goes("done")
  /\ report' = BuildReport(build.candidates, build.decisions, build.approvals)
  /\ UNCHANGED <<overlay, files, calendar, desk, approved, builds>>

-----------------------------------------------------------------------------
(* A kill, and what it leaves of the file being written.                   *)

(* The rows up to some day; the last approved one may have lost its label, *)
(* and its window before that.                                             *)
CutRows(rows) ==
  LET Kept(day) == {r \in rows : r.date <= day}
      Bare(kept) == UNION {{(kept \ {r}) \cup {[r EXCEPT !.approved = FALSE, !.window = w]} :
                              w \in {None, r.window}} :
                             r \in {r \in kept : r.approved /\ r.date = Max(CutDays)}}
  IN UNION {{Kept(day)} \cup Bare(Kept(day)) : day \in CutDays}

(* A file opened for writing and cut at its head is empty: no approvals.   *)
CutApprovals(approvals) ==
  LET LastBare(s) == [s EXCEPT ![Len(s)].window = None]
      heads == {SubSeq(approvals, 1, n) : n \in 0 .. Len(approvals)}
  IN heads \cup {LastBare(s) : s \in heads \ {<<>>}}

Kill ==
  /\ build.pc \notin {"idle", "failed", "done"}
  /\ build' = NoBuild
  /\ files' \in
       {files} \cup (IF build.pc \in DOMAIN files
                     THEN {[files EXCEPT ![build.pc] = Torn]} ELSE {})
  /\ calendar' \in
       {calendar} \cup (IF At("calendar") THEN {Torn} \cup CutRows(build.rows) ELSE {})
  /\ report' \in {report} \cup (IF At("report") THEN {Torn} ELSE {})
  /\ UNCHANGED <<overlay, desk, approved, builds>>

-----------------------------------------------------------------------------
(* An operator approves a withheld candidate of the file.                  *)

Desk(o, state) == desk' = [desk EXCEPT ![o] = state]

ReadCandidates(o) ==
  /\ desk[o].pc = "idle" /\ files.candidates \notin {Absent, Torn}
  /\ Cardinality(approved) < MaxApprovals
  /\ \E record \in files.candidates :
       /\ record.key[1] \in GroupB /\ record.outcome = "withhold"
       /\ Desk(o, [Idle EXCEPT !.pc = "read", !.id = record.id, !.key = record.key])
  /\ UNCHANGED <<overlay, files, calendar, report, build, approved, builds>>

(* A key the overlay already approves is refused.                          *)
LoadForAppend(o) ==
  /\ desk[o].pc = "read"
  /\ Desk(o, IF OverlayLoads /\ desk[o].key \notin KeysOf(ApprovalsOnDisk)
             THEN [desk[o] EXCEPT !.pc = "loaded", !.held = ApprovalsOnDisk] ELSE Idle)
  /\ UNCHANGED <<overlay, files, calendar, report, build, approved, builds>>

NewApproval(o) ==
  [type |-> desk[o].key[1], date |-> desk[o].key[2], evidence |-> desk[o].id,
   window |-> None]

OpenOverlay(o) ==
  /\ desk[o].pc = "loaded"
  /\ overlay' = <<>>
  /\ Desk(o, [desk[o] EXCEPT !.pc = "writing"])
  /\ approved' = approved \cup {desk[o].key}
  /\ UNCHANGED <<files, calendar, report, build, builds>>

WriteOverlay(o) ==
  /\ desk[o].pc = "writing"
  /\ overlay' = Append(desk[o].held, NewApproval(o))
  /\ Desk(o, Idle)
  /\ UNCHANGED <<files, calendar, report, build, approved, builds>>

KillApproval(o) ==
  /\ desk[o].pc = "writing"
  /\ overlay' \in {Torn} \cup CutApprovals(Append(desk[o].held, NewApproval(o)))
  /\ Desk(o, Idle)
  /\ UNCHANGED <<files, calendar, report, build, approved, builds>>

-----------------------------------------------------------------------------
Next ==
  \/ \E name \in DOMAIN Answers : StartBuild(name)
  \/ LoadApprovalOverlay \/ Gather \/ Triage
  \/ WriteValidations \/ WriteCandidates \/ WriteQuarantine
  \/ WriteCalendar \/ WriteReport \/ Kill
  \/ \E o \in Operators :
       \/ ReadCandidates(o) \/ LoadForAppend(o) \/ OpenOverlay(o)
       \/ WriteOverlay(o) \/ KillApproval(o)

Spec == Init /\ [][Next]_vars

-----------------------------------------------------------------------------
(* What the engine reads.                                                  *)

CalendarLoads == calendar \notin {Absent, Torn} /\ Loadable(calendar)

(* Only a shock an operator has approved can label a session               *)
(* geopolitical_event, whatever was torn, contradicted, approved on other  *)
(* evidence or approved while the build was running.                       *)
OnlyApprovedShocksFire ==
  CalendarLoads =>
    \A r \in calendar :
       r.type = "geopolitical_event" /\ MayLabel(r) => KeyOf(r) \in approved

(* A finished build answers every approval it loaded: the calendar has its *)
(* row, with the operator's window, and says so in the report when its     *)
(* evidence is no longer the approved one; or the report lists the         *)
(* approval as stale or contradicted.                                      *)
ResultOf(a) == {<<KeyOf(a), "stale">>, <<KeyOf(a), "contradicted">>} \cap report

HasRow(a) ==
  \E r \in calendar : /\ KeyOf(r) = KeyOf(a) /\ r.approved
                      /\ a.window # None => r.window = a.window

SameEvidence(a) ==
  \A i \in WithKey(build.candidates, KeyOf(a)) : build.candidates[i].id = a.evidence

EveryApprovalAnswered ==
  At("done") =>
    \A a \in ToSet(build.approvals) :
       IF ResultOf(a) # {} THEN ~HasRow(a)
       ELSE HasRow(a) /\ (SameEvidence(a) \/ <<KeyOf(a), "other evidence">> \in report)

(* The labels a replay computes for a whole range, and the volatility      *)
(* rule's "window has just closed", are those the live run computed        *)
(* session by session from the same file.  Checked, like the next one, on  *)
(* the curated calendars, which hold rows of every kind a build writes.    *)
Trailing == 2

PointMatchesBulk ==
  (builds = 0 /\ CalendarLoads) =>
    \A request \in Requests :
       \E bulk \in {Outputs(request, calendar)}, closed \in {WindowJustPassed(request, calendar, Trailing)} :
          \A day \in request :
             /\ bulk[day] = Classify(day, calendar)
             /\ calendar # {} =>
                  closed[day] = WindowJustPassed({day}, calendar, Trailing)[day]

(* Rows not yet published on a session change neither its labels nor       *)
(* whether a window has just closed; when there are no others, the live    *)
(* run had no rows and raised, and the replay finds no window closed.      *)
KnownOn(day) == {r \in calendar : PublishedOn(r) <= day}

NoForesight ==
  (builds = 0 /\ CalendarLoads) =>
    \A day \in UNION Requests :
       /\ Classify(day, calendar) = Classify(day, KnownOn(day))
       /\ calendar # {} =>
            IF KnownOn(day) = {} THEN ~WindowJustPassed({day}, calendar, Trailing)[day]
            ELSE WindowJustPassed({day}, calendar, Trailing)
                   = WindowJustPassed({day}, KnownOn(day), Trailing)
=============================================================================
