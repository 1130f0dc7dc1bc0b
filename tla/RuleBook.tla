------------------------------ MODULE RuleBook ------------------------------
(***************************************************************************)
(* The nine axes by name: the risk ranks and the rules of each, and the    *)
(* labels a rule table hears from the axes built before it.                *)
(***************************************************************************)
EXTENDS MarketRules, NetworkRules, MacroRules

RankOf(a) ==
  CASE a = "trend" -> TrendRank [] a = "character" -> CharacterRank
    [] a = "vol" -> VolRank [] a = "breadth" -> BreadthRank
    [] a = "volume" -> VolumeRank [] a = "network" -> NetworkRank
    [] a \in {"credit", "oas", "proxy"} -> CreditRank
    [] a = "growth" -> GrowthRank [] a = "monetary" -> MonetaryRank

Labels ==
  UNION {DOMAIN TrendRank, DOMAIN CharacterRank, DOMAIN VolRank, DOMAIN BreadthRank,
         DOMAIN VolumeRank, DOMAIN NetworkRank, DOMAIN CreditRank, DOMAIN GrowthRank,
         DOMAIN MonetaryRank}

(* An axis that is not built says None, which no rule says.                *)
ASSUME NoneAssumption == None \notin Labels

(* h holds the active labels of breadth and vol and the effective credit.  *)
LabelOf(a, r, h) ==
  CASE a = "trend" -> TrendLabel(r)
    [] a = "character" -> CharacterLabel(r)
    [] a = "vol" -> VolLabel(r)
    [] a = "breadth" -> BreadthLabel(r)
    [] a = "volume" -> VolumeLabel(r)
    [] a = "network" -> NetworkLabel(NetworkReading(r), h.breadth, h.vol, h.credit)
    [] a \in {"credit", "oas", "proxy"} -> CreditLabel(CreditReading(r))
    [] a = "growth" -> GrowthLabel(GrowthReading(r, h.credit))
    [] a = "monetary" -> MonetaryLabel(r)
=============================================================================
