---------------------------- MODULE MCHysteresis ----------------------------
(***************************************************************************)
(* Instances of the hysteresis for TLC.  The volatility table is the one   *)
(* of configs/core3-v2.0.0.yaml without low_vol (which differs from        *)
(* normal_vol only in rank) and vol_crush (same rank as crisis_vol).       *)
(***************************************************************************)
EXTENDS QualityHysteresis

VolLabels == {"normal_vol", "high_vol", "rising_vol", "crisis_vol", "unknown"}

VolRank ==
  [l \in VolLabels |-> CASE l = "normal_vol" -> 1
                         [] l = "crisis_vol" -> 3
                         [] OTHER -> 2]

VolDeescDays ==
  [l \in VolLabels |-> CASE l = "crisis_vol" -> 5
                         [] l = "high_vol" -> 3
                         [] l = "rising_vol" -> 2
                         [] OTHER -> 0]

(* Shipped escalations are immediate (1); the schema allows confirmed ones, *)
(* which keep the active label above the stable one for a while.            *)
ConfirmedEsc ==
  [l \in VolLabels |-> CASE l = "crisis_vol" -> 3
                         [] l = "high_vol" -> 2
                         [] OTHER -> 1]
=============================================================================
