---------------------------- MODULE EventTriage ----------------------------
(***************************************************************************)
(* From candidates to rows: what the validators say of them, which are     *)
(* promoted, quarantined or withheld for an operator, the rows rendered    *)
(* from the promoted ones and what the report says of the approvals.       *)
(*                                                                         *)
(* An approval is [type, date, evidence, window]: the operator's label is  *)
(* the type, the evidence the id of the candidate that was approved, which *)
(* is a digest of its type, its date and the sources that spoke for it.    *)
(***************************************************************************)
EXTENDS EventSources

BankTypes == {"ECB_decision", "BOE_decision", "BOJ_decision"}
GroupB == {"geopolitical_event", "budget"}
GroupBOf(candidates) == SelectSeq(candidates, LAMBDA c : c.type \in GroupB)

-----------------------------------------------------------------------------
(* Validators.  hf maps a type to the dates of the bank's decision         *)
(* documents.                                                              *)

Validation(candidate, validator, verdict) ==
  [key |-> KeyOf(candidate), validator |-> validator, verdict |-> verdict]

Near(day, days, reach) == \E d \in days : d \in day - reach .. day + reach

HfVerdict(candidate, hf) ==
  IF hf = Down THEN "unknown"
  ELSE IF candidate.date \in hf[candidate.type] THEN "confirm"
  ELSE IF Near(candidate.date, hf[candidate.type], ConfirmDays) THEN "contradict"
  ELSE "unknown"

BankCandidates(candidates) == SelectSeq(candidates, LAMBDA c : c.type \in BankTypes)

HfRaises(candidates, hf) == BankCandidates(candidates) # <<>> /\ hf = Broken

HfValidations(candidates, hf) ==
  LET banks == BankCandidates(candidates)
  IN [i \in DOMAIN banks |->
        Validation(banks[i], "hf:central-bank-communications", HfVerdict(banks[i], hf))]

(* A signal of another source within MergeDays confirms.                   *)
Nearby(candidates, source, days) ==
  LET near == SelectSeq(candidates,
                LAMBDA c : /\ c.type = "geopolitical_event" /\ c.source # source
                           /\ Near(c.date, days, MergeDays))
  IN [i \in DOMAIN near |-> Validation(near[i], source, "confirm")]

(* GDELT's daily exports are read for the days around the candidates: a    *)
(* day that cannot be fetched is skipped, an unreadable archive raises.    *)
WindowDays(candidates) ==
  UNION {c.date - MergeDays .. c.date + MergeDays :
           c \in {c \in ToSet(candidates) : c.type = "geopolitical_event"}}

GdeltRaises(candidates, gdelt) ==
  (WindowDays(candidates) \ gdelt.down) \cap gdelt.broken # {}

GdeltDates(candidates, gdelt) ==
  (WindowDays(candidates) \ gdelt.down) \cap gdelt.conflict

(* No search is configured.                                                *)
TinyFishValidations(candidates) ==
  LET asked == GroupBOf(candidates)
  IN [i \in DOMAIN asked |-> Validation(asked[i], "tinyfish:search-extract", "unknown")]

Validations(candidates, answer) ==
  HfValidations(candidates, answer.hf)
  \o Nearby(candidates, "ai-gpr:iacoviello-tong", AiGprDates(answer.aiGpr, answer.gpr))
  \o Nearby(candidates, "gpr:caldara-iacoviello", GprDates(answer.gpr))
  \o Nearby(candidates, "gdelt:events-v2", GdeltDates(candidates, answer.gdelt))
  \o Nearby(candidates, "acled:events", ConflictDates(answer.acled))
  \o Nearby(candidates, "ucdp:ged-candidate", ConflictDates(answer.ucdp))
  \o TinyFishValidations(candidates)

-----------------------------------------------------------------------------
(* Triage.                                                                 *)

Saying(validations, key, verdict) ==
  SelectSeq(validations, LAMBDA v : v.key = key /\ v.verdict = verdict)

SourcesOf(candidates, key) == {candidates[i].source : i \in WithKey(candidates, key)}

CandidateId(key, candidates, validations) ==
  <<key, SourcesOf(candidates, key)
           \cup {v.validator : v \in ToSet(Saying(validations, key, "confirm"))}>>

Stamped(candidates, validations) ==
  [i \in DOMAIN candidates |->
     [candidates[i] EXCEPT
        !.id = CandidateId(KeyOf(candidates[i]), candidates, validations)]]

SourceCount(key, candidates, validations) ==
  Cardinality(SourcesOf(candidates, key)) + Len(Saying(validations, key, "confirm"))

GroupBOutcome(key, first, count, approvals) ==
  IF \/ first.deadline
     \/ key[1] = "budget" /\ count >= 2
     \/ key \in KeysOf(approvals)
  THEN "promote" ELSE "withhold"

(* The first candidate of a key stands for it.                             *)
Outcome(key, candidates, validations, approvals) ==
  IF Saying(validations, key, "contradict") # <<>> THEN "quarantine"
  ELSE IF key[1] \in GroupB
  THEN GroupBOutcome(key, FirstOf(candidates, key),
                     SourceCount(key, candidates, validations), approvals)
  ELSE "promote"

Triangulate(candidates, validations, approvals) ==
  [key \in KeysOf(candidates) |-> Outcome(key, candidates, validations, approvals)]

Decided(decisions, outcome) == {key \in DOMAIN decisions : decisions[key] = outcome}

(* More than one candidate in a hundred: decisions are counted by key.     *)
QuarantineRaises(candidates, decisions) ==
  Cardinality(Decided(decisions, "quarantine")) * QuarantineLimit > Len(candidates)

-----------------------------------------------------------------------------
(* Rendering.  The last candidate of a key gives the row.                  *)

KnownSources ==
  {"ecb.europa.eu:monetary-policy-decisions", "bankofengland.co.uk:mpc-decisions",
   "boj.or.jp:monetary-policy-meetings", "fec.gov:election-dates",
   "usa.gov:federal-budget-process", "gpr:caldara-iacoviello", "acled:events",
   "ucdp:ged-candidate"}

Row(date, type, window, approved) ==
  [date |-> date, type |-> type, published |-> None, window |-> window,
   approved |-> approved]

(* The window of an approval, if it names one, replaces the candidate's.   *)
ApprovedRow(candidate, approval) ==
  Row(candidate.date, candidate.type,
      IF approval.window # None THEN approval.window ELSE candidate.window, TRUE)

Rendered(candidates, approvals, key) ==
  LET candidate == LastOf(candidates, key)
  IN IF key \in KeysOf(approvals)
     THEN ApprovedRow(candidate, FirstOf(approvals, key))
     ELSE Row(candidate.date, candidate.type, candidate.window, FALSE)

UnknownSource(candidates, key) == LastOf(candidates, key).source \notin KnownSources

ReversedWindow(candidates, approvals, key) ==
  ~WindowIsOrdered(Rendered(candidates, approvals, key))

(* The promoted keys whose row ScheduledEvent refuses.                     *)
RefusedKeys(candidates, decisions, approvals) ==
  {key \in Decided(decisions, "promote") :
     UnknownSource(candidates, key) \/ ReversedWindow(candidates, approvals, key)}

(* Rows are built in the order of the decisions: by date, then by type.    *)
TypeOrder ==
  <<"BOE_decision", "BOJ_decision", "ECB_decision", "budget", "election",
    "geopolitical_event">>

TypeIndex(type) == CHOOSE i \in DOMAIN TypeOrder : TypeOrder[i] = type

Before(k, l) == k[2] < l[2] \/ (k[2] = l[2] /\ TypeIndex(k[1]) < TypeIndex(l[1]))

(* What the first of them raises; a row's source is tested before its      *)
(* window.                                                                 *)
Refusal(candidates, decisions, approvals) ==
  LET refused == RefusedKeys(candidates, decisions, approvals)
      first == CHOOSE key \in refused : \A other \in refused \ {key} : Before(key, other)
  IN IF UnknownSource(candidates, first) THEN "unknown source" ELSE "window"

Promoted(candidates, decisions, approvals) ==
  {Rendered(candidates, approvals, key) : key \in Decided(decisions, "promote")}

-----------------------------------------------------------------------------
(* The candidates file, and the report on the approvals.                   *)

CandidateRecord(candidate, decisions) ==
  [key |-> KeyOf(candidate), id |-> candidate.id, outcome |-> decisions[KeyOf(candidate)]]

CandidateRecords(candidates, decisions) ==
  {CandidateRecord(c, decisions) : c \in ToSet(candidates)}

QuarantineRecords(records) == {record \in records : record.outcome = "quarantine"}

(* Slip: an approval whose candidate is gone is passed over.               *)
StatusOfFound(approval, candidates, decisions) ==
  IF KeyOf(approval) \in Decided(decisions, "quarantine") THEN "contradicted"
  ELSE IF \E c \in ToSet(candidates) :
            KeyOf(c) = KeyOf(approval) /\ c.id # approval.evidence
  THEN "other evidence" ELSE "as approved"

(* What the report says of an approval: its candidate is gone, was         *)
(* contradicted, or rests on other evidence than was approved.             *)
StatusOf(approval, candidates, decisions) ==
  IF KeyOf(approval) \notin {key \in KeysOf(candidates) : key[1] \in GroupB} THEN "stale"
  ELSE IF decisions[KeyOf(approval)] = "quarantine" THEN "contradicted"
  ELSE IF LastOf(candidates, KeyOf(approval)).id # approval.evidence
  THEN "other evidence" ELSE "as approved"

BuildReport(candidates, decisions, approvals) ==
  {<<KeyOf(a), StatusOf(a, candidates, decisions)>> :
     a \in {a \in ToSet(approvals) :
              StatusOf(a, candidates, decisions) # "as approved"}}
=============================================================================
