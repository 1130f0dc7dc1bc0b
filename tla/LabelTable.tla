----------------------------- MODULE LabelTable -----------------------------
(***************************************************************************)
(* The configuration of the per-label hysteresis of                        *)
(* regime_detection/hysteresis.py: the labels of one axis, their ranks and *)
(* the sessions a change of label has to be seen for.                      *)
(***************************************************************************)
EXTENDS Integers

CONSTANTS
  Labels,      \* the labels an axis classifier can emit
  Unknown,     \* the "unknown" sentinel, itself a label with a rank
  None,        \* Python's None: no label yet, no candidate
  Rank,        \* risk_rank
  EscDays,     \* escalation_days_by_label, the default filled in
  DeescDays    \* deescalation_days_by_label, the default filled in

(* What the constructor checks of the configuration (L31-42).              *)
ASSUME LabelAssumption ==
  /\ Unknown \in Labels
  /\ None \notin Labels
  /\ Rank \in [Labels -> Nat]
  /\ EscDays \in [Labels -> Nat \ {0}]
  /\ DeescDays \in [Labels -> Nat]

(* How many sessions raw must be seen in a row before it replaces s: rising *)
(* in rank asks for raw's escalation days, any other change for the        *)
(* de-escalation days of the label being left. 0 and 1 both mean "now".    *)
Threshold(s, raw) == IF Rank[raw] > Rank[s] THEN EscDays[raw] ELSE DeescDays[s]

(* active_label: a raw label riskier than the stable one shows at once.    *)
ActiveOf(s, raw) == IF Rank[raw] > Rank[s] THEN raw ELSE s
=============================================================================
