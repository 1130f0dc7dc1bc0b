---------------------------- MODULE ReplayWindow ----------------------------
(***************************************************************************)
(* Two stateless replays of the same market that end on the same session.  *)
(*                                                                         *)
(* timeline.py slices the context to the last H + lookback_days - 1        *)
(* sessions, so one session is classified from a window of H sessions by   *)
(* classify(d) (lookback_days = 1) and from a longer one as a row of       *)
(* classify_series.  The hysteresis of every axis is replayed from the     *)
(* first session of the window: the replay that starts early is `long',    *)
(* the one that starts Warmup classified sessions before the row is        *)
(* `short'.  Only the label memory is modelled; the features are taken to  *)
(* give both replays the same raw labels.                                  *)
(***************************************************************************)
EXTENDS LabelTable

CONSTANT Warmup   \* sessions the short replay classifies up to the compared row

(* A configuration names finitely many labels, so one threshold is the     *)
(* longest.                                                                *)
ASSUME ReplayAssumption ==
  /\ Warmup \in Nat
  /\ \E d \in {EscDays[l] : l \in Labels} \cup {DeescDays[l] : l \in Labels} :
       \A l \in Labels : EscDays[l] <= d /\ DeescDays[l] <= d

VARIABLES
  longStable, longPending, longCount, longRun,
  shortStable, shortPending, shortCount, shortRun,
  age,     \* sessions the short replay has classified, up to Warmup
  synced   \* history: has the short replay seen a long run?

longVars == <<longStable, longPending, longCount, longRun>>
shortVars == <<shortStable, shortPending, shortCount, shortRun>>
replayVars == <<longVars, shortVars, age, synced>>

Long == INSTANCE LabelHysteresis WITH
  stable <- longStable, pending <- longPending, pendingCount <- longCount,
  run <- longRun, sessions <- age, MaxSessions <- Warmup

Short == INSTANCE LabelHysteresis WITH
  stable <- shortStable, pending <- shortPending, pendingCount <- shortCount,
  run <- shortRun, sessions <- age, MaxSessions <- Warmup

----------------------------------------------------------------------------
(* The history counter of a run saturates: no threshold is above MaxDays.  *)
MaxDays ==
  CHOOSE d \in {EscDays[l] : l \in Labels} \cup {DeescDays[l] : l \in Labels} :
    \A l \in Labels : EscDays[l] <= d /\ DeescDays[l] <= d

Saturate(r, raw) ==
  [label |-> raw, len |-> IF r.label # raw THEN 1
                          ELSE IF r.len < MaxDays THEN r.len + 1 ELSE r.len]

(* The long replay starts while the short window is not yet open.          *)
LeadSession(raw) ==
  /\ age = 0
  /\ Long!StepMemory(raw)
  /\ longRun' = Saturate(longRun, raw)
  /\ UNCHANGED <<shortVars, age, synced>>

SharedSession(raw) ==
  /\ age < Warmup
  /\ Long!StepMemory(raw) /\ longRun' = Saturate(longRun, raw)
  /\ Short!StepMemory(raw) /\ shortRun' = Saturate(shortRun, raw)
  /\ age' = age + 1
  /\ synced' = (synced \/ Short!LongRun')

(* The first sessions of a window lack history: their rows are forced to   *)
(* unknown and the memory starts from unknown, or from nothing where the   *)
(* first session already classifies.                                       *)
ReplayInit ==
  /\ Long!LabelInit
  /\ shortStable \in {None, Unknown}
  /\ shortPending = None
  /\ shortCount = 0
  /\ shortRun = [label |-> shortStable, len |-> 0]
  /\ synced = FALSE

ReplayNext == \E raw \in Labels : LeadSession(raw) \/ SharedSession(raw)

ReplaySpec == ReplayInit /\ [][ReplayNext]_replayVars

----------------------------------------------------------------------------
SameMemory ==
  /\ longStable = shortStable
  /\ longPending = shortPending
  /\ longCount = shortCount

(* Once both replays have seen a run of one raw label that is long enough  *)
(* for every change to it, they publish the same labels ever after: this   *)
(* is when a row does not depend on where its window starts.               *)
SyncedAgree == synced => SameMemory

(* Two windows that publish the same stable label on one shared session    *)
(* publish the same stable label on every later one: divergence is always  *)
(* visible in the row and, once gone, gone for good, because a label is    *)
(* only reached by a session that also clears the other replay's candidate.*)
AgreementIsPermanent ==
  [][ (age > 0 /\ longStable = shortStable) => longStable' = shortStable' ]_replayVars
=============================================================================
