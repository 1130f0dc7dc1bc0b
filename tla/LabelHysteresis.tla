-------------------------- MODULE LabelHysteresis --------------------------
(***************************************************************************)
(* The per-label asymmetric hysteresis of regime_detection/hysteresis.py   *)
(* (apply_per_label_asymmetric_hysteresis): a machine that reads one raw   *)
(* label per session and keeps a stable label, a candidate ("pending") and *)
(* the number of sessions the candidate has been seen in a row.            *)
(*                                                                         *)
(* The machine also serves as the abstract specification of the            *)
(* data-quality-aware variant (module QualityHysteresis), which may in     *)
(* addition be thrown back to the explicit unknown label: Restart.         *)
(***************************************************************************)
EXTENDS LabelTable

CONSTANT MaxSessions  \* bound: the number of sessions in the replayed window

ASSUME SessionsAssumption == MaxSessions \in Nat

VARIABLES
  stable,        \* stable_label, None before the first classified session
  pending,       \* pending_label
  pendingCount,  \* pending_count
  run,           \* history: the last raw label and how often it came in a row
  sessions       \* history: sessions consumed

memory == <<stable, pending, pendingCount>>
labelVars == <<stable, pending, pendingCount, run, sessions>>

----------------------------------------------------------------------------
(* A plausible slip: the count is not restarted when the candidate changes.*)
StreakNeverRestarted(raw) == pendingCount + 1

(* pending_count after this session, were raw to remain a candidate.       *)
Streak(raw) == IF pending = raw THEN pendingCount + 1 ELSE 1

(* A plausible slip: one session too many is asked for.                    *)
ConfirmedLate(raw) == Streak(raw) > Threshold(stable, raw)

Confirmed(raw) == Streak(raw) >= Threshold(stable, raw)

Settle(label) ==
  /\ stable' = label
  /\ pending' = None
  /\ pendingCount' = 0

(* A plausible slip: a session that confirms the stable label leaves the candidate.*)
StepMemoryKeepsCandidate(raw) ==
  \/ stable = None /\ Settle(raw)
  \/ stable = raw /\ UNCHANGED memory
  \/ stable \notin {None, raw} /\ Confirmed(raw) /\ Settle(raw)
  \/ /\ stable \notin {None, raw} /\ ~Confirmed(raw)
     /\ pending' = raw /\ pendingCount' = Streak(raw) /\ UNCHANGED stable

(* One iteration of the loop over the raw labels.                          *)
StepMemory(raw) ==
  \/ /\ stable \in {None, raw}
     /\ Settle(raw)
  \/ /\ stable \notin {None, raw}
     /\ Confirmed(raw)
     /\ Settle(raw)
  \/ /\ stable \notin {None, raw}
     /\ ~Confirmed(raw)
     /\ pending' = raw
     /\ pendingCount' = Streak(raw)
     /\ UNCHANGED stable

ExtendRun(raw) ==
  run' = [label |-> raw, len |-> IF run.label = raw THEN run.len + 1 ELSE 1]

Classify(raw) ==
  /\ StepMemory(raw)
  /\ ExtendRun(raw)

(* Regime memory is dropped: the label becomes unknown without a vote.     *)
Forget ==
  /\ Settle(Unknown)
  /\ run' = [label |-> Unknown, len |-> 0]

----------------------------------------------------------------------------
LabelInit ==
  /\ stable = None
  /\ pending = None
  /\ pendingCount = 0
  /\ run = [label |-> None, len |-> 0]
  /\ sessions = 0

Tick ==
  /\ sessions < MaxSessions
  /\ sessions' = sessions + 1

(* A session that leaves the label memory alone (never taken by the plain  *)
(* function, which classifies every session).                              *)
Skip == UNCHANGED <<stable, pending, pendingCount, run>>

(* The promise the data-quality-aware variant keeps: every session is one  *)
(* of a vote, a pause that changes nothing, or a restart from unknown.     *)
MemoryNext == Tick /\ (Skip \/ Forget \/ \E raw \in Labels : Classify(raw))

MemorySpec == LabelInit /\ [][MemoryNext]_labelVars

----------------------------------------------------------------------------
LabelTypeOK ==
  /\ stable \in Labels \cup {None}
  /\ pending \in Labels \cup {None}
  /\ pendingCount \in Nat
  /\ run \in [label : Labels \cup {None}, len : Nat]
  /\ sessions \in 0..MaxSessions

(* A candidate is the raw label of the current run of classified sessions, *)
(* its count is exactly the length of that run, and it has not yet reached *)
(* the threshold of the change it asks for; without a candidate the        *)
(* machine sits on the label of the last run.  So the stored count is      *)
(* never a leftover of an earlier candidate or of an earlier stable label, *)
(* however long the history (pending_label and pending_count, L64-91).     *)
CandidateIsRun ==
  /\ pending # None =>
       /\ stable \notin {None, pending}
       /\ pending = run.label
       /\ pendingCount = run.len
       /\ pendingCount < Threshold(stable, pending)
  /\ pending = None => stable = run.label /\ pendingCount = 0

(* A stable label is left by a vote only after as many consecutive         *)
(* classified sessions of the new raw label as the threshold of that       *)
(* change asks for (docs: asymmetric hysteresis, spec v2 section 3.7).     *)
ConfirmedLeave ==
  [][ (stable # None /\ stable' # stable /\ run'.len > 0)
        => /\ run'.label = stable'
           /\ run'.len >= Threshold(stable, stable') ]_labelVars

(* A run long enough for every change to its label, whatever label is left.*)
LongRun ==
  run.len > 0 /\ \A s \in Labels \ {run.label} : run.len >= Threshold(s, run.label)

(* After a long run its label is the stable one, whatever came before: a   *)
(* single session suffices for a label that outranks all others.           *)
LongRunWins == LongRun => stable = run.label
=============================================================================
