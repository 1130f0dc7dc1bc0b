------------------------- MODULE QualityHysteresis -------------------------
(***************************************************************************)
(* The row an axis publishes for each session: the label memory of         *)
(* LabelHysteresis behind the data-quality freeze of                       *)
(* regime_detection/hysteresis.py (apply_data_quality_aware_hysteresis)    *)
(* and the unknown override of axis_builders/per_label.py.                 *)
(*                                                                         *)
(* A session is "forced" when quality_forces_unknown holds of it.  A short *)
(* run of forced sessions (a gap) repeats the last known labels; a long    *)
(* one drops the memory.                                                   *)
(***************************************************************************)
EXTENDS LabelHysteresis

CONSTANT FreezeChoices  \* the max_unknown_freeze_days a replay may be given

ASSUME FreezeAssumption == FreezeChoices \subseteq Nat

VARIABLES
  freezeDays,  \* max_unknown_freeze_days of this replay; 0: the freeze is off
  gap,         \* data_gap_count
  lastStable,  \* last_known_stable
  lastActive,  \* last_known_active
  row          \* the row published for the last session

vars == <<stable, pending, pendingCount, run, sessions,
          freezeDays, gap, lastStable, lastActive, row>>

Row(raw, forced, s, a, frozen) ==
  [raw |-> raw, forced |-> forced, stable |-> s, active |-> a, frozen |-> frozen]

----------------------------------------------------------------------------
(* A plausible slip: the stretch lacks its "- 1".                          *)
HoldLimitOneLonger(s) == IF DeescDays[s] > freezeDays THEN DeescDays[s] ELSE freezeDays

(* How many sessions of a gap repeat the labels s: the configured freeze,  *)
(* stretched to one session short of the de-escalation of s.               *)
HoldLimit(s) ==
  IF DeescDays[s] > freezeDays + 1 THEN DeescDays[s] - 1 ELSE freezeDays

Holding == lastStable # None /\ gap + 1 <= HoldLimit(lastStable)

(* A plausible slip: an unknown label is remembered like any other.        *)
RemembersAnything(raw) == freezeDays > 0

(* Whether this session's labels become the last known ones (L241).        *)
Remembers(raw) == freezeDays > 0 /\ Unknown \notin {raw, stable'}

ClassifiedSession(raw) ==
  /\ Classify(raw)
  /\ gap' = 0
  /\ row' = Row(raw, FALSE, stable', ActiveOf(stable', raw), FALSE)
  /\ IF Remembers(raw)
       THEN lastStable' = row'.stable /\ lastActive' = row'.active
       ELSE UNCHANGED <<lastStable, lastActive>>

(* A plausible slip: the candidate is dropped when a gap begins.           *)
HeldSessionDropsCandidate(raw) ==
  /\ freezeDays > 0
  /\ Holding
  /\ pending' = None /\ pendingCount' = 0 /\ UNCHANGED <<stable, run>>
  /\ gap' = gap + 1
  /\ row' = Row(raw, TRUE, lastStable, lastActive, TRUE)
  /\ UNCHANGED <<lastStable, lastActive>>

HeldSession(raw) ==
  /\ freezeDays > 0
  /\ Holding
  /\ Skip
  /\ gap' = gap + 1
  /\ row' = Row(raw, TRUE, lastStable, lastActive, TRUE)
  /\ UNCHANGED <<lastStable, lastActive>>

(* A plausible slip: the gap is restarted instead of the last known labels.*)
ExhaustedSessionKeepsLabels(raw) ==
  /\ freezeDays > 0
  /\ ~Holding
  /\ Forget
  /\ gap' = 0
  /\ row' = Row(raw, TRUE, Unknown, Unknown, FALSE)
  /\ UNCHANGED <<lastStable, lastActive>>

ExhaustedSession(raw) ==
  /\ freezeDays > 0
  /\ ~Holding
  /\ Forget
  /\ gap' = gap + 1
  /\ row' = Row(raw, TRUE, Unknown, Unknown, FALSE)
  /\ lastStable' = None
  /\ lastActive' = None

(* With the freeze off every session is classified (L133-142) and the axis *)
(* builder alone overrides the row (per_label.py L67-73).                  *)
OverriddenSession(raw) ==
  /\ freezeDays = 0
  /\ Classify(raw)
  /\ row' = Row(raw, TRUE, Unknown, Unknown, FALSE)
  /\ UNCHANGED <<gap, lastStable, lastActive>>

Init ==
  /\ LabelInit
  /\ freezeDays \in FreezeChoices
  /\ gap = 0
  /\ lastStable = None
  /\ lastActive = None
  /\ row = Row(None, FALSE, None, None, FALSE)

(* The next session of the same replay.                                    *)
NextSession == Tick /\ UNCHANGED freezeDays

Next ==
  /\ NextSession
  /\ \E raw \in Labels :
       \/ ClassifiedSession(raw)
       \/ HeldSession(raw)
       \/ ExhaustedSession(raw)
       \/ OverriddenSession(raw)

Spec == Init /\ [][Next]_vars

----------------------------------------------------------------------------
RowTypeOK ==
  row \in [raw : Labels \cup {None}, forced : BOOLEAN,
           stable : Labels \cup {None}, active : Labels \cup {None},
           frozen : BOOLEAN]

TypeOK ==
  /\ LabelTypeOK
  /\ freezeDays \in FreezeChoices
  /\ gap \in Nat
  /\ lastStable \in (Labels \ {Unknown}) \cup {None}
  /\ lastActive \in (Labels \ {Unknown}) \cup {None}
  /\ RowTypeOK

(* A classified session never publishes an active label of lower risk than *)
(* what the rules saw that day, nor than the stable label, even while the  *)
(* stable label is held back by a confirmation count.                      *)
NeverUnderReports ==
  (row.raw # None /\ ~row.forced) =>
    /\ Rank[row.active] >= Rank[row.raw]
    /\ Rank[row.active] >= Rank[row.stable]

(* A held row is bounded by the gap it sits in, and names a real label     *)
(* pair: a gap never outlives the freeze and the confirmation the held     *)
(* label asks for, and an unknown row is never passed off as held.         *)
HoldBounded ==
  row.frozen =>
    /\ row.forced
    /\ 1 <= gap /\ (gap <= freezeDays \/ gap < DeescDays[row.stable])
    /\ Unknown \notin {row.stable, row.active}

(* A forced row either repeats known labels or says unknown outright; the  *)
(* rules' guess of that day is never published as a stable label.          *)
ForcedRowIsHeldOrUnknown ==
  (row.forced /\ ~row.frozen) => row.stable = Unknown /\ row.active = Unknown

(* A hold only continues what the previous row showed.  Once a gap has     *)
(* given up and published unknown, no later session of that gap brings an  *)
(* old label back.  The one exception is a classified session whose rules  *)
(* or stable label said unknown: the hold then shows the last known labels *)
(* from before it.                                                         *)
HoldContinues ==
  [][ row'.frozen =>
        \/ row'.stable = row.stable /\ row'.active = row.active
        \/ ~row.forced /\ Unknown \in {row.raw, row.stable} ]_vars

(* The label memory behind the freeze keeps the promise of the plain       *)
(* hysteresis: a held gap is invisible to it, an exhausted one restarts it.*)
Memory == INSTANCE LabelHysteresis
ImplementsMemory == Memory!MemorySpec
=============================================================================
