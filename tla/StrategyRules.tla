---------------------------- MODULE StrategyRules ----------------------------
(***************************************************************************)
(* What a session's labels allow downstream: the strategy response and its *)
(* event overlay, the specialist cohort, the constraints of each strategy  *)
(* family, and the effective constraints that join the three.              *)
(*                                                                         *)
(* A response is a size in percent with two sets: what is permitted and    *)
(* what is demanded.  A flag the code leaves at None is in neither.        *)
(***************************************************************************)
EXTENDS Readings, SequencesExt

CONSTANTS
  EventRules,    \* strategy_event_modifiers.rules, in order: labels, cap, revoke, demand
  RoutingRules,  \* cohort_routing.routing_rules: cohort -> [any, all] sets of [axis, values]
  BlockedModes,  \* cohort_routing.blocked_strategy_modes: cohort -> set of modes
  FamilyDefault, \* strategy_family_constraints.default_neutral
  FamilyOverride \* strategy_family_constraints.overrides: cohort -> family -> fields

Families == {"trend_following", "mean_reversion", "breakout", "short_vol", "long_vol"}

ConstraintFields ==
  {"allowed", "lookback", "holding", "position", "adx", "breadthFirst",
   "volumeFirst", "eventOnly", "reason"}

(* What a rule may be: an event rule can cap and demand, and revoke but not*)
(* grant; a routing predicate names the values of one of six axes.         *)
EventRule ==
  [name : STRING, labels : SUBSET STRING, cap : (1..100) \cup {None},
   revoke : SUBSET {"leverage", "expansion"}, demand : SUBSET {"confirmLongs", "hedges"}]

RoutedAxes == {"trend", "character", "vol", "breadth", "network", "monetary"}
Predicates == [axis : RoutedAxes, values : SUBSET STRING]

(* An event rule acts, and a family has a default.                         *)
ASSUME StrategyAssumption ==
  /\ EventRules \in Seq(EventRule)
  /\ \A i \in DOMAIN EventRules :
       /\ EventRules[i].labels # {}
       /\ EventRules[i].cap # None \/ EventRules[i].revoke # {} \/ EventRules[i].demand # {}
  /\ \A c \in DOMAIN RoutingRules :
       RoutingRules[c] \in [any : SUBSET Predicates, all : SUBSET Predicates]
  /\ DOMAIN FamilyDefault \subseteq Families
  /\ \A f \in DOMAIN FamilyDefault : FamilyDefault[f]["allowed"] \in BOOLEAN

(***************************************************************************)
(* Strategy response.                                                      *)
(***************************************************************************)
Freely == {"trend", "meanReversion", "leverage", "dip", "breakout", "shorts"}

Open == [size |-> 100, may |-> Freely, must |-> {}, applied |-> <<>>]

AtMost(x, cap) == IF cap # None /\ cap < x THEN cap ELSE x

(* One named modifier, when its condition holds: it sets the size or caps  *)
(* it, permits, forbids and demands.                                       *)
Apply(response, m) ==
  IF ~m.when THEN response
  ELSE [size |-> AtMost(IF m.set = None THEN response.size ELSE m.set, m.cap),
        may |-> (response.may \cup m.permit) \ m.forbid,
        must |-> response.must \cup m.demand,
        applied |-> Append(response.applied, m.name)]

(* Modifiers one after the other, each on the response so far.             *)
After(response, modifiers) ==
  LET after[i \in 0..Len(modifiers)] ==
        IF i = 0 THEN response ELSE Apply(after[i - 1], modifiers[i])
  IN after

Modified(response, modifiers) == After(response, modifiers)[Len(modifiers)]

Modifier(name, when, set, cap, permit, forbid, demand) ==
  [name |-> name, when |-> when, set |-> set, cap |-> cap,
   permit |-> permit, forbid |-> forbid, demand |-> demand]

(* A plausible slip: the size of an event rule replaces the size so far.   *)
EventModifierReplaces(e, events) ==
  Modifier(e.name, e.labels \cap events # {}, e.cap, None, {}, e.revoke, e.demand)

(* An event rule, on the labels it names.                                  *)
EventModifier(e, events) ==
  Modifier(e.name, e.labels \cap events # {}, None, e.cap, {}, e.revoke, e.demand)

Overlay(response, events) ==
  Modified(response, [i \in DOMAIN EventRules |-> EventModifier(EventRules[i], events)])

BullHealthy(l) ==
  /\ l.trend = "bull" /\ l.character \in {"trending", "transition"}
  /\ l.vol \in {"low_vol", "normal_vol"} /\ l.breadth = "healthy_breadth"

(* In the order of the code: a later size replaces an earlier one.         *)
Modifiers(l, risk) ==
  << Modifier("bull_healthy_low_vol", BullHealthy(l), 100, None,
              {"trend", "dip", "expansion"}, {}, {}),
     Modifier("recovery_attempt", risk = "recovery_attempt", 50, None,
              {"trend", "dip"}, {"leverage", "expansion"}, {"breadthFirst"}),
     Modifier("sideways_chop", l.character = "chop" /\ l.vol # "crisis_vol", 75, None,
              {"meanReversion"}, {"trend"}, {"takeProfit"}),
     Modifier("bull_fragile", risk = "fragile_bull", 50, None,
              {}, {"dip", "expansion"}, {"confirmLongs"}),
     Modifier("transition_weakening", risk = "weakening", None, 75,
              {}, {"expansion"}, {"confirmLongs"}),
     Modifier("transition_warning", risk = "transition_warning", None, 75,
              {}, {"expansion"}, {"confirmLongs", "takeProfit"}),
     Modifier("high_transition_risk", risk = "high_transition_risk", None, 50,
              {}, {"leverage", "dip", "expansion"}, {"confirmLongs", "hedges"}),
     Modifier("sideways_stress", risk = "watch", 50, None,
              {}, {"breakout", "expansion"}, {"takeProfit", "confirmLongs"}),
     Modifier("bear_stress", risk = "bear_stress", 50, None,
              {}, {"dip", "leverage"}, {"confirmShorts"}),
     Modifier("crisis", risk = "crisis", 25, None,
              {}, {"leverage", "dip"}, {"maxLoss", "blockWeak", "hedges"}) >>

Unmapped(l, risk) ==
  risk = "insufficient_data" \/ "unknown" \in {l.trend, l.character, l.vol, l.breadth}

Cautious ==
  [size |-> 75, may |-> Freely \ {"leverage"},
   must |-> {"confirmLongs", "confirmShorts", "review"}, applied |-> <<>>]

ResponseBeforeEvents(l, risk) ==
  IF Unmapped(l, risk) THEN Cautious ELSE Modified(Open, Modifiers(l, risk))

StrategyResponse(l, risk, events) == Overlay(ResponseBeforeEvents(l, risk), events)

(***************************************************************************)
(* Cohort routing.  Crisis is asked first, then missing data.              *)
(***************************************************************************)
Cohorts ==
  << "euphoria_specialist", "bear_stress_specialist", "tightening_specialist",
     "easing_specialist", "recovery_specialist", "chop_mean_reversion_specialist",
     "bull_low_vol_specialist" >>

(* An axis without an output (None) satisfies no predicate.                *)
Holds(p, l) == l[p.axis] # None /\ l[p.axis] \in p.values

(* A rule without predicates never matches.                                *)
RuleMatches(cohort, l) ==
  /\ cohort \in DOMAIN RoutingRules
  /\ LET rule == RoutingRules[cohort]
     IN /\ rule.any \cup rule.all # {}
        /\ rule.any # {} => \E p \in rule.any : Holds(p, l)
        /\ \A p \in rule.all : Holds(p, l)

(* Of the crisis rule: it calls no crisis where an axis says "unknown", and*)
(* a volatility crisis is enough for it.                                   *)
CrisisNamesRegimes ==
  "crisis_specialist" \in DOMAIN RoutingRules =>
    LET rule == RoutingRules["crisis_specialist"]
    IN \A p \in rule.any \cup rule.all : "unknown" \notin p.values

CrisisHearsVol ==
  /\ "crisis_specialist" \in DOMAIN RoutingRules
  /\ LET rule == RoutingRules["crisis_specialist"]
     IN rule.all = {} /\ \E p \in rule.any : p.axis = "vol" /\ "crisis_vol" \in p.values

DataOutage(l) ==
  \E axis \in {"trend", "character", "vol", "breadth", "network"} : l[axis] = "unknown"

(* A plausible slip: missing data is looked at before crisis.              *)
CohortOutageFirst(l) ==
  IF DataOutage(l) THEN "data_outage_specialist"
  ELSE IF RuleMatches("crisis_specialist", l) THEN "crisis_specialist"
  ELSE LET matching == SelectSeq(Cohorts, LAMBDA c : RuleMatches(c, l))
       IN IF matching = <<>> THEN "default_neutral" ELSE Head(matching)

Cohort(l) ==
  IF RuleMatches("crisis_specialist", l) THEN "crisis_specialist"
  ELSE IF DataOutage(l) THEN "data_outage_specialist"
  ELSE LET matching == SelectSeq(Cohorts, LAMBDA c : RuleMatches(c, l))
       IN IF matching = <<>> THEN "default_neutral" ELSE Head(matching)

Blocked(cohort) == IF cohort \in DOMAIN BlockedModes THEN BlockedModes[cohort] ELSE {}

(***************************************************************************)
(* Strategy families: a cohort's override field by field over the default. *)
(***************************************************************************)
OverrideOf(cohort, family) ==
  IF cohort \in DOMAIN FamilyOverride /\ family \in DOMAIN FamilyOverride[cohort]
  THEN FamilyOverride[cohort][family] ELSE [f \in ConstraintFields |-> None]

(* A family that an override re-opens does not keep the reason of its ban. *)
FamilyConstraint(cohort, family) ==
  LET default == FamilyDefault[family]
      override == OverrideOf(cohort, family)
      reopened == ~default["allowed"] /\ override["allowed"] = TRUE
  IN [f \in ConstraintFields |->
        IF override[f] # None THEN override[f]
        ELSE IF f = "reason" /\ reopened THEN None ELSE default[f]]

(***************************************************************************)
(* Effective constraints: a family has to pass all three.                  *)
(***************************************************************************)
PermissionOf ==
  [trend_following |-> "trend", mean_reversion |-> "meanReversion",
   breakout |-> "breakout", buy_dip |-> "dip", shorts |-> "shorts"]

Effective(response, cohort) ==
  LET vetoes(f) ==
        (IF f \in DOMAIN PermissionOf /\ PermissionOf[f] \notin response.may
         THEN {"strategy_response"} ELSE {})
        \cup (IF f \in DOMAIN FamilyDefault /\ FamilyConstraint(cohort, f)["allowed"] # TRUE
              THEN {"strategy_family_constraints"} ELSE {})
        \cup (IF f \in Blocked(cohort) THEN {"agent_routing"} ELSE {})
  IN [f \in Families \cup DOMAIN PermissionOf \cup Blocked(cohort) |->
        [allowed |-> vetoes(f) = {}, vetoes |-> vetoes(f), size |-> response.size,
         leverage |-> "leverage" \in response.may,
         limits |-> IF f \in DOMAIN FamilyDefault THEN FamilyConstraint(cohort, f) ELSE None]]
=============================================================================
