--------------------------- MODULE MCReplayWindow ---------------------------
(***************************************************************************)
(* The trend_direction axis: the ranks of trend_direction_rules.py and the *)
(* de-escalation days of configs/core3-v2.0.0.yaml.                        *)
(***************************************************************************)
EXTENDS ReplayWindow

TrendLabels ==
  {"bull", "sideways", "recovery", "transition", "unknown", "bear", "euphoria"}

TrendRank ==
  [bull |-> 0, sideways |-> 1, recovery |-> 1, transition |-> 2,
   unknown |-> 2, bear |-> 3, euphoria |-> 4]

TrendDeescDays ==
  [bull |-> 0, sideways |-> 2, recovery |-> 3, transition |-> 3,
   unknown |-> 0, bear |-> 5, euphoria |-> 3]

TrendEscDays == [l \in TrendLabels |-> 1]
=============================================================================
