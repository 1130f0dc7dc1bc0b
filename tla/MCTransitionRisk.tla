-------------------------- MODULE MCTransitionRisk --------------------------
(***************************************************************************)
(* One representative per class of label the rules tell apart; the shipped *)
(* confirmation days of configs/core3-v2.0.0.yaml.                         *)
(***************************************************************************)
EXTENDS TransitionRisk

SomeTrends == {"bull", "bear", "sideways", "unknown"}
SomeCharacters == {"trending", "recovery_attempt"}
SomeVols == {"normal_vol", "high_vol", "crisis_vol"}
SomeBreadths == {"healthy_breadth", "weak_breadth", "divergent_fragile"}

AScore(band, credit, corr, event) ==
  [band |-> band, credit |-> credit, corr |-> corr, event |-> event]

SomeScores ==
  { AScore("stable", FALSE, FALSE, FALSE), AScore("weakening", TRUE, FALSE, FALSE),
    AScore("transition_warning", FALSE, TRUE, FALSE), AScore("high", FALSE, FALSE, TRUE) }

ShippedDays ==
  [s \in States |-> IF s \in {"weakening", "transition_warning", "high_transition_risk",
                              "fragile_bull", "recovery_attempt"} THEN 2 ELSE 1]
=============================================================================
