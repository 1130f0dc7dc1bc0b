--------------------------- MODULE SessionProofs ---------------------------
(***************************************************************************)
(* Proofs about one axis and one session of the pipeline, for every table  *)
(* of thresholds, rules, strategies, events and stores the assumptions     *)
(* allow.                                                                  *)
(***************************************************************************)
EXTENDS SessionPipeline, AxisRules, TLAPS, WellFoundedInduction

(* The first rule that fires exists.                                       *)
LEMMA FirstFires ==
  ASSUME NEW S \in SUBSET Nat, S # {}
  PROVE  \E i \in S : \A j \in S : i <= j
<1>1. IsWellFoundedOn(OpToRel(<, Nat), Nat)
  BY NatLessThanWellFounded
<1>2. PICK x \in S : \A y \in S : ~ (<<y, x>> \in OpToRel(<, Nat))
  BY <1>1, WFMin
<1>3. \A y \in S : ~ (y < x)
  BY <1>2 DEF OpToRel
<1> QED
  BY <1>3

Says(rules, S) == \A i \in DOMAIN rules : i \in Nat /\ rules[i][2] \in S

(* A table of labels gives one of its labels or the one it falls back to.  *)
LEMMA FirstMatchIn ==
  ASSUME NEW S
  PROVE  \A rules, otherwise :
            Says(rules, S) /\ otherwise \in S => FirstMatch(rules, otherwise) \in S
<1> TAKE rules, otherwise
<1> HAVE Says(rules, S) /\ otherwise \in S
<1> DEFINE fires == {i \in DOMAIN rules : rules[i][1]}
<1>1. CASE fires = {}
  BY <1>1 DEF FirstMatch
<1>2. CASE fires # {}
  <2> DEFINE first == CHOOSE i \in fires : \A j \in fires : i <= j
  <2>1. fires \in SUBSET Nat
    BY DEF Says
  <2>2. first \in fires
    BY <1>2, <2>1, FirstFires
  <2>3. FirstMatch(rules, otherwise) = rules[first][2]
    BY <1>2 DEF FirstMatch
  <2> QED
    BY <2>2, <2>3 DEF Says
<1> QED
  BY <1>1, <1>2

(* Every table of rules says labels its axis ranks.                        *)
LEMMA TrendSays ==
  ASSUME NEW r
  PROVE  TrendLabel(r) \in DOMAIN TrendRank
<1> DEFINE S == DOMAIN TrendRank
<1>1. S = {"bull", "sideways", "recovery", "transition", "unknown", "bear",
            "euphoria"}
  BY DEF TrendRank
<1>2. \A rules, otherwise :
        Says(rules, S) /\ otherwise \in S => FirstMatch(rules, otherwise) \in S
  BY FirstMatchIn
<1> HIDE DEF S
<1> QED
  BY <1>1, <1>2 DEF S, Says, TrendV1, TrendLabel

LEMMA CharacterSays ==
  ASSUME NEW r
  PROVE  CharacterLabel(r) \in DOMAIN CharacterRank
<1> DEFINE S == DOMAIN CharacterRank
<1>1. S = {"breakout_expansion", "trending", "mild_trend",
            "recovery_attempt", "range_bound", "chop",
            "volatile_chop", "transition", "unknown"}
  BY DEF CharacterRank
<1>2. \A rules, otherwise :
        Says(rules, S) /\ otherwise \in S => FirstMatch(rules, otherwise) \in S
  BY FirstMatchIn
<1> HIDE DEF S
<1> QED
  BY <1>1, <1>2 DEF S, Says, CharacterLabel

LEMMA VolSays ==
  ASSUME NEW r
  PROVE  VolLabel(r) \in DOMAIN VolRank
<1> DEFINE S == DOMAIN VolRank
<1>1. S = {"low_vol", "normal_vol", "high_vol", "rising_vol", "unknown",
            "crisis_vol", "vol_crush"}
  BY DEF VolRank
<1>2. \A rules, otherwise :
        Says(rules, S) /\ otherwise \in S => FirstMatch(rules, otherwise) \in S
  BY FirstMatchIn
<1> HIDE DEF S
<1> QED
  BY <1>1, <1>2 DEF S, Says, VolV1, VolLabel

LEMMA BreadthSays ==
  ASSUME NEW r
  PROVE  BreadthLabel(r) \in DOMAIN BreadthRank
<1> DEFINE S == DOMAIN BreadthRank
<1>1. S = {"breadth_thrust", "healthy_breadth", "broadening_breadth",
            "neutral_breadth", "recovery_breadth", "weak_breadth",
            "narrowing_breadth", "unknown", "divergent_fragile"}
  BY DEF BreadthRank
<1>2. \A rules, otherwise :
        Says(rules, S) /\ otherwise \in S => FirstMatch(rules, otherwise) \in S
  BY FirstMatchIn
<1> HIDE DEF S
<1> QED
  BY <1>1, <1>2 DEF S, Says, BreadthV1, BreadthLabel

LEMMA VolumeSays ==
  ASSUME NEW r
  PROVE  VolumeLabel(r) \in DOMAIN VolumeRank
<1> DEFINE S == DOMAIN VolumeRank
<1>1. S = {"normal_volume", "unknown", "liquidity_gap_behavior",
            "panic_volume"}
  BY DEF VolumeRank
<1>2. \A rules, otherwise :
        Says(rules, S) /\ otherwise \in S => FirstMatch(rules, otherwise) \in S
  BY FirstMatchIn
<1> HIDE DEF S
<1> QED
  BY <1>1, <1>2 DEF S, Says, VolumeLabel

LEMMA NetworkSays ==
  ASSUME NEW r, NEW b, NEW v, NEW c
  PROVE  NetworkLabel(r, b, v, c) \in DOMAIN NetworkRank
<1> DEFINE S == DOMAIN NetworkRank
<1>1. S = {"diversified_normal", "decorrelated_calm",
            "stock_picker_dispersion", "rotation_watch",
            "rising_fragility", "correlation_concentration",
            "idiosyncratic_crisis", "unknown",
            "correlation_to_one", "systemic_stress",
            "systemic_stress_unconfirmed"}
  BY DEF NetworkRank
<1>2. \A rules, otherwise :
        Says(rules, S) /\ otherwise \in S => FirstMatch(rules, otherwise) \in S
  BY FirstMatchIn
<1> HIDE DEF S
<1> QED
  BY <1>1, <1>2 DEF S, Says, NetworkLabel

LEMMA CreditSays ==
  ASSUME NEW r
  PROVE  CreditLabel(r) \in DOMAIN CreditRank
<1> DEFINE S == DOMAIN CreditRank
<1>1. S = {"credit_calm", "credit_recovery", "credit_divergence", "unknown",
            "spread_widening", "credit_stress", "funding_squeeze",
            "deleveraging"}
  BY DEF CreditRank
<1>2. \A rules, otherwise :
        Says(rules, S) /\ otherwise \in S => FirstMatch(rules, otherwise) \in S
  BY FirstMatchIn
<1> HIDE DEF S
<1> QED
  BY <1>1, <1>2 DEF S, Says, CreditLabel

LEMMA GrowthSays ==
  ASSUME NEW r
  PROVE  GrowthLabel(r) \in DOMAIN GrowthRank
<1> DEFINE S == DOMAIN GrowthRank
<1>1. S = {"goldilocks", "recovery_growth", "earnings_expansion",
            "recovery_growth_unconfirmed", "reflation",
            "macro_neutral", "disinflation", "unknown",
            "contractionary_disinflation",
            "late_cycle_inflation_stress", "stagflation_lite",
            "risk_off_mild", "earnings_contraction",
            "recession_scare", "inflation_shock"}
  BY DEF GrowthRank
<1>2. \A rules, otherwise :
        Says(rules, S) /\ otherwise \in S => FirstMatch(rules, otherwise) \in S
  BY FirstMatchIn
<1> HIDE DEF S
<1> QED
  BY <1>1, <1>2 DEF S, Says, GrowthLabel

LEMMA MonetarySays ==
  ASSUME NEW r
  PROVE  MonetaryLabel(r) \in DOMAIN MonetaryRank
<1> DEFINE S == DOMAIN MonetaryRank
<1>1. S = {"neutral_monetary", "easing_pressure", "unknown",
            "tightening_pressure", "rate_shock"}
  BY DEF MonetaryRank
<1>2. \A rules, otherwise :
        Says(rules, S) /\ otherwise \in S => FirstMatch(rules, otherwise) \in S
  BY FirstMatchIn
<1> HIDE DEF S
<1> QED
  BY <1>1, <1>2 DEF S, Says, MonetaryLabel

RankedAxes ==
  {"trend", "character", "vol", "breadth", "volume", "network", "credit", "oas", "proxy",
   "growth", "monetary"}

(* Whatever is read, an axis says a label that has a rank.                 *)
LEMMA LabelsAreRanked ==
  ASSUME NEW a \in RankedAxes, NEW r, NEW h
  PROVE  LabelOf(a, r, h) \in DOMAIN RankOf(a)
BY TrendSays, CharacterSays, VolSays, BreadthSays, VolumeSays, NetworkSays, CreditSays,
   GrowthSays, MonetarySays DEF LabelOf, RankOf, RankedAxes

LEMMA UnknownIsRanked == ASSUME NEW a \in RankedAxes PROVE "unknown" \in DOMAIN RankOf(a)
BY DEF RankOf, RankedAxes, TrendRank, CharacterRank, VolRank, BreadthRank, VolumeRank,
   NetworkRank, CreditRank, GrowthRank, MonetaryRank

LEMMA RanksAreNumbers ==
  ASSUME NEW a \in RankedAxes, NEW l \in DOMAIN RankOf(a)
  PROVE  RankOf(a)[l] \in Nat
BY DEF RankOf, RankedAxes, TrendRank, CharacterRank, VolRank, BreadthRank, VolumeRank,
   NetworkRank, CreditRank, GrowthRank, MonetaryRank

(***************************************************************************)
(* Modifiers one after the other.  The response after i of them exists,    *)
(* by the least i for which it does not.                                   *)
(***************************************************************************)
IsAfter(f, response, modifiers, n) ==
  f = [i \in 0..n |-> IF i = 0 THEN response ELSE Apply(f[i - 1], modifiers[i])]

(* The responses after each modifier are a function: tlapm needs its       *)
(* existence shown before it may be unfolded.                              *)
LEMMA AfterExists ==
  ASSUME NEW response, NEW modifiers, NEW n \in Nat
  PROVE  \E f : IsAfter(f, response, modifiers, n)
<1> DEFINE NoSuch == {m \in Nat : ~ \E f : IsAfter(f, response, modifiers, m)}
<1> SUFFICES ASSUME NoSuch # {} PROVE FALSE
  OBVIOUS
<1>1. PICK m \in NoSuch : \A k \in NoSuch : m <= k
  BY FirstFires
<1>2. CASE m = 0
  <2> DEFINE f == [i \in 0..0 |-> response]
  <2>1. IsAfter(f, response, modifiers, 0)
    BY DEF IsAfter
  <2> QED
    BY <1>1, <1>2, <2>1
<1>3. CASE m # 0
  <2>1. m - 1 \in Nat /\ m - 1 \notin NoSuch
    BY <1>1, <1>3
  <2>2. PICK f : IsAfter(f, response, modifiers, m - 1)
    BY <2>1
  <2> DEFINE g == [i \in 0..m |-> IF i = m THEN Apply(f[m - 1], modifiers[m]) ELSE f[i]]
  <2>3. \A i \in 0..m : g[i] = IF i = 0 THEN response ELSE Apply(g[i - 1], modifiers[i])
    BY <1>1, <1>3, <2>1, <2>2 DEF IsAfter
  <2>4. IsAfter(g, response, modifiers, m)
    BY <2>3 DEF IsAfter
  <2> QED
    BY <1>1, <2>4
<1> QED
  BY <1>2, <1>3

(* Each modifier is applied to the response before it.                     *)
LEMMA AfterSteps ==
  ASSUME NEW response, NEW modifiers, Len(modifiers) \in Nat
  PROVE  /\ After(response, modifiers)[0] = response
         /\ \A i \in 1..Len(modifiers) :
              After(response, modifiers)[i] =
                Apply(After(response, modifiers)[i - 1], modifiers[i])
<1> DEFINE Body(f) == [i \in 0..Len(modifiers) |->
                         IF i = 0 THEN response ELSE Apply(f[i - 1], modifiers[i])]
<1>1. After(response, modifiers) = CHOOSE f : f = Body(f)
  BY DEF After
<1>2. \E f : f = Body(f)
  <2>1. PICK f : IsAfter(f, response, modifiers, Len(modifiers))
    BY AfterExists
  <2>2. f = Body(f)
    BY <2>1 DEF IsAfter
  <2> QED
    BY <2>2
<1>3. After(response, modifiers) = Body(After(response, modifiers))
  BY <1>1, <1>2
<1> QED
  BY <1>3

(***************************************************************************)
(* What events may do to a response.                                       *)
(***************************************************************************)
Sized(response) == response.size \in Int

Tighter(tight, loose) ==
  /\ Sized(tight) /\ Sized(loose) /\ tight.size <= loose.size
  /\ tight.may \subseteq loose.may /\ loose.must \subseteq tight.must

(* One modifier keeps a response sized.                                    *)
Sound(m) == (m.set = None \/ m.set \in Int) /\ (m.cap = None \/ m.cap \in Int)

LEMMA ApplyIsSized ==
  ASSUME NEW response, Sized(response), NEW m, Sound(m)
  PROVE  Sized(Apply(response, m))
BY DEF Sized, Sound, Apply, AtMost

LEMMA ModifiedIsSized ==
  ASSUME NEW response, Sized(response), NEW modifiers, Len(modifiers) \in Nat,
         \A i \in 1..Len(modifiers) : Sound(modifiers[i])
  PROVE  Sized(Modified(response, modifiers))
<1> DEFINE after == After(response, modifiers)
           Bad == {i \in 0..Len(modifiers) : ~ Sized(after[i])}
<1>1. CASE Bad = {}
  BY <1>1 DEF Modified
<1>2. CASE Bad # {}
  <2>1. PICK i \in Bad : \A j \in Bad : i <= j
    <3>1. Bad \in SUBSET Nat
      OBVIOUS
    <3> QED
      BY <1>2, <3>1, FirstFires
  <2>2. i # 0
    BY <2>1, AfterSteps
  <2>3. Sized(after[i - 1])
    BY <2>1, <2>2
  <2>4. Sized(after[i])
    BY <2>1, <2>2, <2>3, ApplyIsSized, AfterSteps
  <2> QED
    BY <2>1, <2>4
<1> QED
  BY <1>1, <1>2

(* An event rule that fires on more events only tightens.                  *)
LEMMA RuleTightens ==
  ASSUME NEW tight, NEW loose, Tighter(tight, loose), NEW e \in EventRule,
         NEW some, NEW more, some \subseteq more
  PROVE  Tighter(Apply(tight, EventModifier(e, more)), Apply(loose, EventModifier(e,
  some)))
<1> DEFINE Fired(response) ==
             [size |-> AtMost(response.size, e.cap), may |-> response.may \ e.revoke,
              must |-> response.must \cup e.demand, applied |-> Append(response.applied, e.name)]
<1>1. \A response, labels :
        Apply(response, EventModifier(e, labels)) =
          IF e.labels \cap labels # {} THEN Fired(response) ELSE response
  BY ZenonT(60) DEF Apply, EventModifier, Modifier
<1>2. e.cap = None \/ e.cap \in Int
  BY DEF EventRule
<1>3. \A x, y \in Int : x <= y =>
        /\ AtMost(x, e.cap) \in Int /\ AtMost(y, e.cap) \in Int
        /\ AtMost(x, e.cap) <= AtMost(y, e.cap) /\ AtMost(x, e.cap) <= y
  BY <1>2 DEF AtMost
<1>4. Tighter(Fired(tight), Fired(loose)) /\ Tighter(Fired(tight), loose)
  BY <1>3 DEF Tighter, Sized
<1> HIDE DEF Fired
<1>5. CASE e.labels \cap some # {}
  <2>1. e.labels \cap more # {}
    BY <1>5
  <2> QED
    BY <1>1, <1>4, <1>5, <2>1
<1>6. CASE e.labels \cap some = {}
  BY <1>1, <1>4, <1>6
<1> QED
  BY <1>5, <1>6

EventModifiers(labels) == [i \in DOMAIN EventRules |-> EventModifier(EventRules[i], labels)]

(* So does the whole list of event rules.                                  *)
LEMMA MoreEventsTighten ==
  ASSUME NEW response, Sized(response), NEW some, NEW more, some \subseteq more
  PROVE  Tighter(Overlay(response, more), Overlay(response, some))
<1> DEFINE n == Len(EventRules)
           tight == After(response, EventModifiers(more))
           loose == After(response, EventModifiers(some))
           Bad == {i \in 0..n : ~ Tighter(tight[i], loose[i])}
<1>1. n \in Nat /\ DOMAIN EventRules = 1..n /\ \A i \in 1..n : EventRules[i] \in EventRule
  BY StrategyAssumption
<1>2. /\ EventModifiers(more) \in Seq({EventModifiers(more)[i] : i \in 1..n})
      /\ EventModifiers(some) \in Seq({EventModifiers(some)[i] : i \in 1..n})
  BY <1>1 DEF EventModifiers
<1>3. Len(EventModifiers(more)) = n /\ Len(EventModifiers(some)) = n
  BY <1>1, <1>2 DEF EventModifiers
<1>4. /\ tight[0] = response /\ loose[0] = response
      /\ \A i \in 1..n : /\ tight[i] = Apply(tight[i - 1], EventModifier(EventRules[i], more))
                         /\ loose[i] = Apply(loose[i - 1], EventModifier(EventRules[i], some))
  BY <1>1, <1>3, AfterSteps DEF EventModifiers
<1>5. Overlay(response, more) = tight[n] /\ Overlay(response, some) = loose[n]
  BY <1>3 DEF Overlay, Modified, EventModifiers
<1> HIDE DEF n, tight, loose
<1>6. CASE Bad = {}
  BY <1>1, <1>5, <1>6
<1>7. CASE Bad # {}
  <2>1. PICK i \in Bad : \A j \in Bad : i <= j
    <3>1. Bad \in SUBSET Nat
      BY <1>1
    <3> QED
      BY <1>7, <3>1, FirstFires
  <2>2. i # 0
    <3>1. Tighter(tight[0], loose[0])
      BY <1>4 DEF Tighter, Sized
    <3> QED
      BY <2>1, <3>1
  <2>3. i \in 1..n /\ Tighter(tight[i - 1], loose[i - 1])
    BY <1>1, <2>1, <2>2
  <2>4. Tighter(tight[i], loose[i])
    BY <1>1, <1>4, <2>3, RuleTightens
  <2> QED
    BY <2>1, <2>4
<1> QED
  BY <1>6, <1>7
(***************************************************************************)
(* The response before any event is sized.                                 *)
(***************************************************************************)
LEMMA BeforeEventsIsSized ==
  ASSUME NEW l, NEW state
  PROVE  Sized(ResponseBeforeEvents(l, state))
<1>1. CASE Unmapped(l, state)
  BY <1>1 DEF ResponseBeforeEvents, Cautious, Sized
<1>2. CASE ~ Unmapped(l, state)
  <2> DEFINE ms == Modifiers(l, state)
  <2>1. Len(ms) = 10 /\ \A i \in 1..10 : Sound(ms[i])
    BY DEF Modifiers, Modifier, Sound
  <2>2. Sized(Open)
    BY DEF Sized, Open
  <2> HIDE DEF ms
  <2>3. Sized(Modified(Open, ms))
    BY <2>1, <2>2, ModifiedIsSized
  <2> QED
    BY <1>2, <2>3 DEF ResponseBeforeEvents, ms
<1> QED
  BY <1>1, <1>2

(* A crisis sets the size last, whatever went before it.                   *)
LEMMA CrisisIsSmall ==
  ASSUME NEW l, ~ Unmapped(l, "crisis")
  PROVE  ResponseBeforeEvents(l, "crisis").size = 25
<1> DEFINE ms == Modifiers(l, "crisis")
           before == After(Open, ms)[9]
<1>1. Len(ms) = 10 /\ ms[10] = Modifier("crisis", TRUE, 25, None, {}, {"leverage", "dip"},
                                        {"maxLoss", "blockWeak", "hedges"})
  BY DEF Modifiers, Modifier
<1>2. Modified(Open, ms) = Apply(before, ms[10])
  BY <1>1, AfterSteps, SMTT(30) DEF Modified
<1>3. Apply(before, ms[10]).size = 25
  BY <1>1, ReadingAssumption DEF Apply, AtMost, Modifier
<1> QED
  BY <1>2, <1>3 DEF ResponseBeforeEvents

(* A permission that is taken away can only add a veto.                    *)
LEMMA VetoesStay ==
  ASSUME NEW tight, NEW loose, tight.may \subseteq loose.may, NEW cohort,
         NEW f \in DOMAIN Effective(loose, cohort)
  PROVE  Effective(loose, cohort)[f].vetoes \subseteq Effective(tight, cohort)[f].vetoes
<1> DEFINE other == (IF f \in DOMAIN FamilyDefault /\ FamilyConstraint(cohort, f)["allowed"] # TRUE
                     THEN {"strategy_family_constraints"} ELSE {})
                    \cup (IF f \in Blocked(cohort) THEN {"agent_routing"} ELSE {})
           own(response) ==
             IF f \in DOMAIN PermissionOf /\ PermissionOf[f] \notin response.may
             THEN {"strategy_response"} ELSE {}
<1>1. \A response : f \in DOMAIN Effective(response, cohort)
                    /\ Effective(response, cohort)[f].vetoes = own(response) \cup other
  BY DEF Effective
<1>2. own(loose) \subseteq own(tight)
  OBVIOUS
<1> HIDE DEF own, other
<1> QED
  BY <1>1, <1>2

LEMMA MoreLabelsTighten == EventsOnlyTighten
<1> SUFFICES ASSUME NEW more
             PROVE  LET tight == ResponseTo(events \cup more)
                    IN /\ tight.size <= Response.size
                       /\ tight.may \subseteq Response.may /\ Response.must \subseteq tight.must
                       /\ Routed => \A f \in DOMAIN Constraints :
                            Constraints[f].vetoes \subseteq Effective(tight, ActiveCohort)[f].vetoes
  BY DEF EventsOnlyTighten
<1> DEFINE tight == ResponseTo(events \cup more)
           before == ResponseBeforeEvents(LabelsOf(out), risk)
<1>1. Sized(before)
  BY BeforeEventsIsSized
<1>2. Tighter(tight, Response)
  <2>1. Tighter(before, before)
    BY <1>1 DEF Tighter, Sized
  <2>2. Tighter(Overlay(before, events \cup more), Overlay(before, events))
    BY <1>1, MoreEventsTighten
  <2> QED
    BY <2>1, <2>2 DEF ResponseTo, Response, StrategyResponse
<1> HIDE DEF tight
<1>3. \A f \in DOMAIN Constraints :
        Constraints[f].vetoes \subseteq Effective(tight, ActiveCohort)[f].vetoes
  BY <1>2, VetoesStay DEF Constraints, Tighter
<1> QED
  BY <1>2, <1>3 DEF Tighter, tight

(***************************************************************************)
(* The store of a version 2 request: as long as nothing is broken, every   *)
(* feature asked for so far was built.                                     *)
(***************************************************************************)
IsStores(f, r, n) ==
  f = [i \in 0..n |-> IF i = 0 THEN EmptyStore ELSE RunSpec(r, f[i - 1], Order[i])]

(* The stores of a request, in build order, are a function too.            *)
LEMMA StoresExist ==
  ASSUME NEW r, NEW n \in Nat
  PROVE  \E f : IsStores(f, r, n)
<1> DEFINE NoSuch == {m \in Nat : ~ \E f : IsStores(f, r, m)}
<1> SUFFICES ASSUME NoSuch # {} PROVE FALSE
  OBVIOUS
<1>1. PICK m \in NoSuch : \A k \in NoSuch : m <= k
  BY FirstFires
<1>2. CASE m = 0
  <2> DEFINE f == [i \in 0..0 |-> EmptyStore]
  <2>1. IsStores(f, r, 0)
    BY DEF IsStores
  <2> QED
    BY <1>1, <1>2, <2>1
<1>3. CASE m # 0
  <2>1. m - 1 \in Nat /\ m - 1 \notin NoSuch
    BY <1>1, <1>3
  <2>2. PICK f : IsStores(f, r, m - 1)
    BY <2>1
  <2> DEFINE g == [i \in 0..m |-> IF i = m THEN RunSpec(r, f[m - 1], Order[m]) ELSE f[i]]
  <2>3. \A i \in 0..m : g[i] = IF i = 0 THEN EmptyStore ELSE RunSpec(r, g[i - 1], Order[i])
    BY <1>1, <1>3, <2>1, <2>2 DEF IsStores
  <2>4. IsStores(g, r, m)
    BY <2>3 DEF IsStores
  <2> QED
    BY <1>1, <2>4
<1> QED
  BY <1>2, <1>3

LEMMA StoreSteps ==
  ASSUME NEW r
  PROVE  /\ Len(Order) = 20 /\ Stores(r)[0] = EmptyStore
         /\ \A i \in 1..20 : Stores(r)[i] = RunSpec(r, Stores(r)[i - 1], Order[i])
<1> DEFINE Body(f) == [i \in 0..Len(Order) |->
                         IF i = 0 THEN EmptyStore ELSE RunSpec(r, f[i - 1], Order[i])]
<1>1. Len(Order) = 20
  BY DEF Order
<1>2. Stores(r) = CHOOSE f : f = Body(f)
  BY DEF Stores
<1>3. \E f : f = Body(f)
  <2>1. PICK f : IsStores(f, r, Len(Order))
    BY <1>1, StoresExist
  <2>2. f = Body(f)
    BY <2>1 DEF IsStores
  <2> QED
    BY <2>2
<1>4. Stores(r) = Body(Stores(r))
  BY <1>2, <1>3
<1> QED
  BY <1>1, <1>4

BuiltSoFar(store, i) ==
  /\ store = [built |-> store.built, policy |-> store.policy, broken |-> store.broken]
  /\ store.broken = None => \A j \in 1..i : Order[j] \in store.built

(* A version 2 request skips no feature: one that is not built breaks it.  *)
LEMMA RunSpecBuilds ==
  ASSUME NEW r, r.version = 2, NEW i \in 1..20, NEW store, BuiltSoFar(store, i - 1)
  PROVE  BuiltSoFar(RunSpec(r, store, Order[i]), i)
<1>1. Order[i] # None
  <2>1. DOMAIN Order = 1..20
    BY DEF Order
  <2> QED
    BY <2>1, FeatureAssumption DEF ToSet
<1>2. CASE store.broken # None
  BY <1>2 DEF RunSpec, BuiltSoFar
<1>3. ASSUME NEW feature, feature # None, store.broken = None
      PROVE  BuiltSoFar([store EXCEPT !.broken = feature], i)
  BY <1>3 DEF BuiltSoFar
<1>4. CASE store.broken = None
  <2> DEFINE next == [store EXCEPT !.built = @ \cup {Order[i]}]
  <2>1. next = [built |-> store.built \cup {Order[i]}, policy |-> store.policy,
                broken |-> store.broken]
    BY SMTT(30) DEF BuiltSoFar
  <2>2. \A j \in 1..i : Order[j] \in store.built \cup {Order[i]}
    BY <1>4 DEF BuiltSoFar
  <2>3. BuiltSoFar(next, i)
    BY <1>4, <2>1, <2>2 DEF BuiltSoFar
  <2> HIDE DEF next
  <2> QED
    BY <1>1, <1>3, <1>4, <2>3 DEF RunSpec, Unavailable, next
<1> QED
  BY <1>2, <1>4

LEMMA AllFeaturesBuilt ==
  ASSUME NEW r, r.version = 2, Store(r).broken = None
  PROVE  ToSet(Order) \subseteq Store(r).built
<1> DEFINE Bad == {i \in 0..20 : ~ BuiltSoFar(Stores(r)[i], i)}
<1>1. CASE Bad # {}
  <2>1. PICK i \in Bad : \A j \in Bad : i <= j
    <3>1. Bad \in SUBSET Nat
      OBVIOUS
    <3> QED
      BY <1>1, <3>1, FirstFires
  <2>2. BuiltSoFar(Stores(r)[0], 0)
    BY StoreSteps DEF BuiltSoFar, EmptyStore
  <2>3. i \in 1..20 /\ BuiltSoFar(Stores(r)[i - 1], i - 1)
    BY <2>1, <2>2
  <2> QED
    BY <2>1, <2>3, StoreSteps, RunSpecBuilds
<1>2. CASE Bad = {}
  <2>1. BuiltSoFar(Stores(r)[20], 20)
    BY <1>2
  <2>2. Store(r) = Stores(r)[20]
    BY StoreSteps DEF Store
  <2>3. DOMAIN Order = 1..20
    BY DEF Order
  <2> QED
    BY <2>1, <2>2, <2>3 DEF BuiltSoFar, ToSet
<1> QED
  BY <1>1, <1>2

(* A version 2 request that is answered has all of the axes.               *)
LEMMA AnsweredHasAllAxes ==
  ASSUME NEW r, IsConfig(r), r.version = 2, Refusal(r, Store(r)) = None
  PROVE  AxesOf(r, Store(r)) = MarketAxes \cup OptionalAxes
<1>1. Store(r).broken = None
  <2>1. SUFFICES ASSUME Store(r).broken # None PROVE FALSE
    OBVIOUS
  <2> QED
    BY <2>1, FeatureAssumption, SMTT(60) DEF Refusal, Checks
<1>2. ToSet(Order) \subseteq Store(r).built /\ RequiredV2 \subseteq r.sections
  BY <1>1, AllFeaturesBuilt DEF IsConfig
<1> QED
  BY <1>2 DEF AxesOf

(***************************************************************************)
(* One axis of one session.                                                *)
(***************************************************************************)
AllAxes == MarketAxes \cup OptionalAxes

LabelsOn(a) == DOMAIN RankOf(a)

MemoryType(a) ==
  [stable : LabelsOn(a) \cup {None}, known : LabelsOn(a) \cup {None},
   knownActive : LabelsOn(a) \cup {None}, gap : Nat]

MemoryOK(a, m) == m \in MemoryType(a) /\ (m.known # None => m.knownActive # None)

(* A row says of its data what its label memory has seen of them.          *)
Graded(a, row, m) ==
  /\ row \in Outputs
  /\ row.raw \in LabelsOn(a) /\ row.stable \in LabelsOn(a) /\ row.active \in LabelsOn(a)
  /\ \E missing \in BOOLEAN :
       row.class = Classification(row.status, row.raw, row.stable, row.active, missing)
  /\ IF ForcesUnknown(row.status) THEN m.gap > 0 \/ row.stable = "unknown"
     ELSE /\ m.gap = 0
          /\ "unknown" \notin {row.raw, row.stable} =>
               m.known = row.stable /\ m.knownActive = row.active

(* The labels of every axis are ranked ones, unknown among them.           *)
LEMMA AxesAreRanked ==
  /\ AllAxes \subseteq RankedAxes
  /\ \A a \in RankedAxes : LabelsOn(a) \subseteq Labels /\ "unknown" \in LabelsOn(a)
<1>1. AllAxes \subseteq RankedAxes
  BY DEF AllAxes, MarketAxes, OptionalAxes, RankedAxes
<1>2. ASSUME NEW a \in RankedAxes
      PROVE  LabelsOn(a) \subseteq Labels
  <2>1. RankOf(a) \in {TrendRank, CharacterRank, VolRank, BreadthRank, VolumeRank, NetworkRank,
                       CreditRank, GrowthRank, MonetaryRank}
    BY DEF RankedAxes, RankOf
  <2> QED
    BY <2>1 DEF Labels, LabelsOn
<1> QED
  BY <1>1, <1>2, UnknownIsRanked DEF LabelsOn

LEMMA KnownIsLabel == ASSUME NEW a \in AllAxes PROVE None \notin LabelsOn(a)
BY AxesAreRanked, NoneAssumption

LEMMA RowIsOutput ==
  ASSUME NEW raw \in Labels, NEW stable \in Labels, NEW active \in Labels,
         NEW status \in Statuses, NEW missing \in BOOLEAN
  PROVE  Row(raw, stable, active, status, missing) \in Outputs
<1>1. Classification(status, raw, stable, active, missing) \in Classes
  BY DEF Classification, Classes, Statuses, NoRuleFired
<1> QED
  BY <1>1 DEF Row, Outputs

LEMMA ClassifiedIsGraded ==
  ASSUME NEW a \in AllAxes, NEW m, MemoryOK(a, m), NEW raw \in LabelsOn(a),
         NEW status \in Statuses, ~ ForcesUnknown(status), NEW keep, NEW missing \in BOOLEAN
  PROVE  LET s == ClassifiedAxis(a, m, raw, status, keep, missing)
         IN  MemoryOK(a, s.memory) /\ Graded(a, s.row, s.memory)
<1> DEFINE stable == IF keep /\ m.stable # None THEN m.stable ELSE raw
           active == ActiveLabel(a, stable, raw)
           known == "unknown" \notin {raw, stable}
           row == Row(raw, stable, active, status, missing)
           mem == [stable |-> stable, gap |-> 0, known |-> IF known THEN stable ELSE m.known,
                   knownActive |-> IF known THEN active ELSE m.knownActive]
<1>1. /\ stable \in LabelsOn(a) /\ m.known \in LabelsOn(a) \cup {None}
      /\ m.knownActive \in LabelsOn(a) \cup {None} /\ (m.known # None => m.knownActive # None)
  BY DEF MemoryOK, MemoryType
<1>2. active \in LabelsOn(a)
  BY <1>1 DEF ActiveLabel
<1>3. MemoryOK(a, mem)
  BY <1>1, <1>2, KnownIsLabel DEF MemoryOK, MemoryType
<1>4. row \in Outputs
  BY <1>1, <1>2, AxesAreRanked, RowIsOutput
<1> HIDE DEF stable, active
<1>5. /\ row.raw = raw /\ row.stable = stable /\ row.active = active /\ row.status = status
      /\ row.class = Classification(status, raw, stable, active, missing)
  BY DEF Row
<1>6. mem.gap = 0 /\ (known => mem.known = stable /\ mem.knownActive = active)
  OBVIOUS
<1>7. ClassifiedAxis(a, m, raw, status, keep, missing) = [memory |-> mem, row |-> row]
  BY DEF ClassifiedAxis, stable, active
<1> HIDE DEF row, mem
<1>8. Graded(a, row, mem)
  BY <1>1, <1>2, <1>4, <1>5, <1>6 DEF Graded
<1> QED
  BY <1>3, <1>7, <1>8

LEMMA HeldIsGraded ==
  ASSUME NEW a \in AllAxes, NEW m, MemoryOK(a, m), NEW raw \in LabelsOn(a),
         NEW status \in Statuses, ForcesUnknown(status), m.known # None
  PROVE  LET s == HeldAxis(m, raw, status)
         IN  MemoryOK(a, s.memory) /\ Graded(a, s.row, s.memory)
<1> DEFINE row == Row(raw, m.known, m.knownActive, status, FALSE)
           mem == [m EXCEPT !.gap = @ + 1]
<1>1. m.known \in LabelsOn(a) /\ m.knownActive \in LabelsOn(a) /\ m.gap \in Nat
  BY DEF MemoryOK, MemoryType
<1>2. MemoryOK(a, mem) /\ mem.gap > 0
  BY DEF MemoryOK, MemoryType
<1>3. row \in Outputs
  BY <1>1, AxesAreRanked, RowIsOutput
<1>4. /\ row.raw = raw /\ row.stable = m.known /\ row.active = m.knownActive
      /\ row.status = status
      /\ row.class = Classification(status, raw, m.known, m.knownActive, FALSE)
  BY DEF Row
<1>5. HeldAxis(m, raw, status) = [memory |-> mem, row |-> row]
  BY DEF HeldAxis
<1> HIDE DEF row, mem
<1>6. Graded(a, row, mem)
  BY <1>1, <1>2, <1>3, <1>4 DEF Graded
<1> QED
  BY <1>2, <1>5, <1>6

LEMMA ForgottenIsGraded ==
  ASSUME NEW a \in AllAxes, NEW raw \in LabelsOn(a),
         NEW status \in Statuses, ForcesUnknown(status)
  PROVE  LET s == ForgottenAxis(raw, status)
         IN  MemoryOK(a, s.memory) /\ Graded(a, s.row, s.memory)
<1> DEFINE row == Row(raw, "unknown", "unknown", status, FALSE)
           mem == [Fresh EXCEPT !.stable = "unknown"]
<1>1. "unknown" \in LabelsOn(a)
  BY AxesAreRanked
<1>2. MemoryOK(a, mem)
  BY <1>1 DEF Fresh, MemoryOK, MemoryType
<1>3. row \in Outputs
  BY <1>1, AxesAreRanked, RowIsOutput
<1>4. /\ row.raw = raw /\ row.stable = "unknown" /\ row.active = "unknown"
      /\ row.status = status
      /\ row.class = Classification(status, raw, "unknown", "unknown", FALSE)
  BY DEF Row
<1>5. ForgottenAxis(raw, status) = [memory |-> mem, row |-> row]
  BY DEF ForgottenAxis
<1> HIDE DEF row, mem
<1>6. Graded(a, row, mem)
  BY <1>1, <1>3, <1>4 DEF Graded
<1> QED
  BY <1>2, <1>5, <1>6

(* Every grading gives a status of data_quality.py.                        *)
LEMMA StatusesOnly ==
  ASSUME NEW a \in AllAxes, NEW day, NEW raw
  PROVE  StatusOf(a, day, raw) \in Statuses
<1>1. \A w, l : Assess(w, l) \in Statuses
  BY DEF Assess, Statuses
<1>2. \A age, source, limits, w : \A known \in BOOLEAN :
         CreditQuality(age, source, limits, w, known) \in Statuses
  BY <1>1 DEF CreditQuality, Statuses
<1>3. \A age, limits, w : GrowthQuality(age, limits, w) \in Statuses
  BY <1>1 DEF GrowthQuality, Statuses
<1>4. "insufficient_history" \in Statuses
  BY DEF Statuses
<1> QED
  BY <1>1, <1>2, <1>3, <1>4
  DEF StatusOf, MarketStatus, BreadthStatus, WindowStatus, AllAxes, MarketAxes,
  OptionalAxes

(* Version 1 speaks of the labels of an axis, too.                         *)
LEMMA SpokenIsLabel ==
  ASSUME NEW a \in AllAxes, NEW raw \in LabelsOn(a)
  PROVE  Spoken(raw) \in LabelsOn(a)
<1>1. CASE a = "character"
  BY <1>1 DEF Spoken, LabelsOn, RankOf, CharacterRank
<1>2. CASE a # "character"
  <2>1. RankOf(a) \in {TrendRank, VolRank, BreadthRank, VolumeRank, NetworkRank, CreditRank,
                       GrowthRank, MonetaryRank}
    BY <1>2 DEF AllAxes, MarketAxes, OptionalAxes, RankOf
  <2>2. raw \notin {"mild_trend", "volatile_chop"}
    BY <2>1 DEF LabelsOn, TrendRank, VolRank, BreadthRank, VolumeRank, NetworkRank,
       CreditRank,
       GrowthRank, MonetaryRank
  <2> QED
    BY <2>2 DEF Spoken
<1> QED
  BY <1>1, <1>2

LEMMA GradedAxisIsGraded ==
  ASSUME NEW a \in AllAxes, NEW m, MemoryOK(a, m), NEW raw \in LabelsOn(a),
         NEW status \in Statuses, NEW keep, NEW missing \in BOOLEAN
  PROVE  LET s == GradedAxis(a, m, raw, status, keep, missing)
         IN  MemoryOK(a, s.memory) /\ Graded(a, s.row, s.memory)
<1>1. CASE ~ ForcesUnknown(status)
  BY <1>1, ClassifiedIsGraded DEF GradedAxis
<1>2. CASE ForcesUnknown(status)
  <2> DEFINE shown == IF a = "breadth" THEN raw ELSE "unknown"
  <2>1. shown \in LabelsOn(a)
    BY AxesAreRanked
  <2> HIDE DEF shown
  <2>2. GradedAxis(a, m, raw, status, keep, missing) =
          IF m.known # None /\ m.gap + 1 <= Hold THEN HeldAxis(m, shown, status)
          ELSE ForgottenAxis(shown, status)
    BY <1>2 DEF GradedAxis, shown
  <2> QED
    BY <1>2, <2>1, <2>2, HeldIsGraded, ForgottenIsGraded
<1> QED
  BY <1>1, <1>2

LEMMA StepIsGraded ==
  ASSUME NEW a \in AllAxes, NEW m, MemoryOK(a, m), NEW day, NEW hears, NEW keep
  PROVE  LET s == AxisStep(a, m, day, hears, keep)
         IN  MemoryOK(a, s.memory) /\ Graded(a, s.row, s.memory)
<1> DEFINE read == Offered(a, ReadingOf(a, day))
           raw == Spoken(LabelOf(a, read, hears))
           missing == MissesFeature(a, read)
<1>1. raw \in LabelsOn(a)
  BY AxesAreRanked, LabelsAreRanked, SpokenIsLabel DEF LabelsOn
<1>2. AxisStep(a, m, day, hears, keep) =
        GradedAxis(a, m, raw, StatusOf(a, day, raw), keep, missing)
  BY DEF AxisStep, RuledAxis
<1>3. missing \in BOOLEAN
  BY DEF MissesFeature
<1> HIDE DEF raw, missing
<1> QED
  BY <1>1, <1>2, <1>3, StatusesOnly, GradedAxisIsGraded

(* A crisis that was known when its data stopped is held.                  *)
LEMMA KnownIsHeld ==
  ASSUME NEW a \in AllAxes, NEW m, MemoryOK(a, m), m.known # None, m.gap + 1 <= Hold,
         NEW day, NEW hears, NEW keep,
         ForcesUnknown(AxisStep(a, m, day, hears, keep).row.status)
  PROVE  AxisStep(a, m, day, hears, keep).row.active = m.knownActive
<1> DEFINE read == Offered(a, ReadingOf(a, day))
           raw == Spoken(LabelOf(a, read, hears))
           missing == MissesFeature(a, read)
           status == StatusOf(a, day, raw)
<1>1. AxisStep(a, m, day, hears, keep) = GradedAxis(a, m, raw, status, keep, missing)
  BY DEF AxisStep, RuledAxis
<1> HIDE DEF raw, missing, status
<1>2. CASE ForcesUnknown(status)
  BY <1>1, <1>2 DEF GradedAxis, HeldAxis, Row
<1>3. CASE ~ ForcesUnknown(status)
  <2>1. AxisStep(a, m, day, hears, keep).row.status = status
    BY <1>1, <1>3 DEF GradedAxis, ClassifiedAxis, Row
  <2> QED
    BY <1>3, <2>1
<1> QED
  BY <1>2, <1>3

(***************************************************************************)
(* A session is a step of every axis that is built.                        *)
(***************************************************************************)
LEMMA SessionSteps ==
  ASSUME NEW day, NEW keep
  PROVE  /\ DOMAIN Session(day, keep) = wired
         /\ \A a \in wired : \E hears :
              Session(day, keep)[a] = AxisStep(a, memory[a], day, hears, a \in keep)
<1> DEFINE early == EarlyAxes(day, keep)
<1>1. early = [a \in wired \ {"network", "growth"} |->
                 AxisStep(a, memory[a], day, Deaf, a \in keep)]
  BY DEF EarlyAxes
<1> HIDE DEF early
<1> DEFINE hears == Heard([a \in DOMAIN early |-> early[a].row])
<1>2. Session(day, keep) =
        [a \in wired |-> IF a \in DOMAIN early THEN early[a]
                         ELSE AxisStep(a, memory[a], day, hears, a \in keep)]
  BY DEF Session, WithLateAxes, early
<1> HIDE DEF hears
<1> QED
  BY <1>1, <1>2

(***************************************************************************)
(* The inductive invariant: a request that is being answered, or whose last*)
(* session is on show, is one of the client's and has its market axes, and *)
(* every axis if it is of version 2; every memory is of its axis; the rows *)
(* on show say what the memories hold.                                     *)
(***************************************************************************)
Served ==
  /\ request \in Requests /\ MarketAxes \subseteq wired
  /\ request.version = 2 => wired = AllAxes

Remembers == DOMAIN memory = wired /\ \A a \in wired : MemoryOK(a, memory[a])

Shows ==
  /\ DOMAIN out = AllAxes
  /\ \A a \in wired : Graded(a, out[a], memory[a])
  /\ \A a \in AllAxes \ wired : out[a] = Unbuilt(a)

IInv ==
  /\ wired \subseteq AllAxes
  /\ failed = None \/ Published => Served
  /\ Remembers
  /\ Published => Shows

LEMMA FreshIsOK == ASSUME NEW a \in AllAxes PROVE MemoryOK(a, Fresh)
BY DEF MemoryOK, MemoryType, Fresh

(* The actions one by one.                                                 *)
LEMMA InitInvariant == Init => IInv
<1> SUFFICES ASSUME Init PROVE IInv
  OBVIOUS
<1>1. wired = {} /\ DOMAIN memory = {} /\ risk = None /\ failed # None
  BY PipelineAssumption DEF Init
<1> QED
  BY <1>1 DEF IInv, Remembers, Published

LEMMA AnswerKeeps ==
  ASSUME NEW r \in Requests, Answer(r, Store(r))
  PROVE  IInv'
<1>1. /\ request' = r /\ wired' = AxesOf(r, Store(r)) /\ risk' = None
      /\ memory' = [a \in wired' |-> Fresh] /\ Refusal(r, Store(r)) = None
  BY DEF Answer
<1>2. MarketAxes \subseteq wired' /\ wired' \subseteq AllAxes
  BY <1>1 DEF AxesOf, AllAxes
<1>3. r.version = 2 => wired' = AllAxes
  BY <1>1, AnsweredHasAllAxes, PipelineAssumption DEF AllAxes
<1>4. Served'
  BY <1>1, <1>2, <1>3 DEF Served, AllAxes, MarketAxes, OptionalAxes
<1>5. Remembers'
  <2>1. DOMAIN memory' = wired' /\ \A a \in wired' : memory'[a] = Fresh
    BY <1>1
  <2> QED
    BY <2>1, <1>2, FreshIsOK DEF Remembers, MemoryOK, MemoryType, AllAxes, MarketAxes,
       OptionalAxes, LabelsOn
<1> QED
  BY <1>1, <1>2, <1>4, <1>5 DEF IInv, Published, AllAxes, MarketAxes, OptionalAxes

LEMMA RefuseKeeps ==
  ASSUME NEW r, NEW store, Refuse(r, store)
  PROVE  IInv'
<1>1. wired' = {} /\ DOMAIN memory' = {} /\ risk' = None /\ failed' # None
  BY DEF Refuse
<1> QED
  BY <1>1 DEF IInv, Remembers, Published

(* Every memory and every row of a session is graded.                      *)
LEMMA SessionIsGraded ==
  ASSUME IInv, NEW day, NEW keep, NEW a \in wired
  PROVE  /\ MemoryOK(a, Session(day, keep)[a].memory)
         /\ Graded(a, Session(day, keep)[a].row, Session(day, keep)[a].memory)
<1>1. a \in AllAxes /\ MemoryOK(a, memory[a])
  BY DEF IInv, Remembers
<1>2. PICK hears : Session(day, keep)[a] = AxisStep(a, memory[a], day, hears, a \in keep)
  BY SessionSteps
<1> QED
  BY <1>1, <1>2, StepIsGraded

LEMMA WarmUpKeeps ==
  ASSUME IInv, NEW day, NEW keep, WarmUp(Session(day, keep))
  PROVE  IInv'
<1> DEFINE session == Session(day, keep)
<1>1. \A a \in wired : MemoryOK(a, session[a].memory)
  BY SessionIsGraded
<1>2. /\ memory' = [a \in wired |-> session[a].memory] /\ failed = None
      /\ wired' = wired /\ request' = request /\ risk' = None
  BY DEF WarmUp
<1> HIDE DEF session
<1>3. DOMAIN memory' = wired' /\ \A a \in wired' : memory'[a] = session[a].memory
  BY <1>2
<1>4. Remembers'
  BY <1>1, <1>2, <1>3 DEF Remembers, MemoryOK, MemoryType, LabelsOn
<1>5. Served'
  BY <1>2 DEF IInv, Served, AllAxes, MarketAxes, OptionalAxes
<1> QED
  BY <1>2, <1>4, <1>5 DEF IInv, Published, AllAxes, MarketAxes, OptionalAxes

LEMMA PublishKeeps ==
  ASSUME IInv, failed = None, NEW day, NEW keep, NEW state, Publish(Session(day, keep),
         day, state)
  PROVE  IInv'
<1> DEFINE session == Session(day, keep)
<1>1. \A a \in wired : MemoryOK(a, session[a].memory)
                       /\ Graded(a, session[a].row, session[a].memory)
  BY SessionIsGraded
<1>2. /\ memory' = [a \in wired |-> session[a].memory] /\ out' = Rows(session)
      /\ wired' = wired /\ request' = request
  BY DEF Publish
<1> HIDE DEF session
<1>3. DOMAIN memory' = wired' /\ \A a \in wired' : memory'[a] = session[a].memory
  BY <1>2
<1>4. Remembers'
  BY <1>1, <1>2, <1>3 DEF Remembers, MemoryOK, MemoryType, LabelsOn
<1>5. Served'
  BY <1>2 DEF IInv, Served, AllAxes, MarketAxes, OptionalAxes
<1>6. /\ DOMAIN out' = AllAxes /\ wired \subseteq AllAxes
      /\ \A a \in wired : out'[a] = session[a].row
      /\ \A a \in AllAxes \ wired : out'[a] = Unbuilt(a)
  BY <1>2 DEF Rows, AllAxes, IInv
<1>7. \A a \in wired' : Graded(a, out[a], memory[a])'
  BY <1>1, <1>2, <1>3, <1>6 DEF Graded, LabelsOn, Outputs
<1>8. Shows'
  BY <1>2, <1>6, <1>7 DEF Shows, AllAxes, MarketAxes, OptionalAxes
<1> QED
  BY <1>2, <1>4, <1>5, <1>6, <1>8 DEF IInv, AllAxes, MarketAxes, OptionalAxes

LEMMA RefusedKeeps ==
  ASSUME IInv, NEW session, NEW day, RefusedSession(session, day)
  PROVE  IInv'
<1>1. UNCHANGED <<request, wired, memory, out, risk>> /\ failed' # None
  BY DEF RefusedSession
<1> QED
  BY <1>1, ZenonT(60) DEF IInv, Served, Remembers, Shows, Published, AllAxes, MarketAxes,
     OptionalAxes,
     MemoryOK, MemoryType, LabelsOn, Graded, Outputs, Unbuilt

LEMMA StepInvariant == IInv /\ [Next]_vars => IInv'
<1> SUFFICES ASSUME IInv, [Next]_vars PROVE IInv'
  OBVIOUS
<1>1. CASE UNCHANGED vars
  BY <1>1, ZenonT(60) DEF vars, IInv, Served, Remembers, Shows, Published, AllAxes, MarketAxes,
     OptionalAxes, MemoryOK, MemoryType, LabelsOn, Graded, Outputs, Unbuilt
<1>2. ASSUME NEW day \in Days, NEW keep \in KeepSets, failed = None,
             \/ WarmUp(Session(day, keep))
             \/ ScoredSession(Session(day, keep), day)
             \/ UnscoredSession(Session(day, keep), day)
             \/ RefusedSession(Session(day, keep), day)
      PROVE  IInv'
  <2> DEFINE session == Session(day, keep)
  <2>1. CASE WarmUp(session)
    BY <2>1, WarmUpKeeps
  <2>2. CASE ScoredSession(session, day)
    <3>1. PICK state : Publish(session, day, state)
      BY <2>2 DEF ScoredSession
    <3> QED
      BY <3>1, <1>2, PublishKeeps
  <2>3. CASE UnscoredSession(session, day)
    <3>1. PICK state : Publish(session, day, state)
      BY <2>3 DEF UnscoredSession
    <3> QED
      BY <3>1, <1>2, PublishKeeps
  <2>4. CASE RefusedSession(session, day)
    BY <2>4, RefusedKeeps
  <2> QED
    BY <1>2, <2>1, <2>2, <2>3, <2>4
<1>3. ASSUME NEW r \in Requests, Answer(r, Store(r)) \/ Refuse(r, Store(r))
      PROVE  IInv'
  BY <1>3, AnswerKeeps, RefuseKeeps
<1> QED
  BY <1>1, <1>2, <1>3 DEF Next

(* Every state of a session is one in which the rows on show say what the  *)
(* memories hold (engine, _classify_request; axis_builders).               *)
THEOREM SessionInvariant == Spec => []IInv
BY InitInvariant, StepInvariant, PTL DEF Spec

(***************************************************************************)
(* The theorems about the session on show.                                 *)
(***************************************************************************)
(* Further event labels only tighten (strategy_response,                   *)
(* _apply_event_calendar_modifiers).                                       *)
THEOREM EventsTightenHolds == Spec => []EventsOnlyTighten
BY MoreLabelsTighten, PTL

(* A row that is on show is the row of an axis that was built.             *)
LEMMA RowsOnShow ==
  ASSUME IInv, Published, NEW a \in AllAxes \ {"network"}, out[a] # None
  PROVE  a \in wired /\ out[a] \in Outputs /\ Graded(a, out[a], memory[a])
<1>1. a \in wired
  BY DEF IInv, Shows, Unbuilt
<1> QED
  BY <1>1 DEF IInv, Shows, Graded

LEMMA EffectiveIsRiskiest == IInv => EffectiveAtLeastSignals
<1> SUFFICES ASSUME IInv, NEW a \in {"oas", "proxy"}, Published, HasSignal(out[a])
             PROVE  CreditRank[CreditOf(out).active] >= CreditRank[out[a].active]
  BY DEF EffectiveAtLeastSignals
<1> DEFINE o == out["oas"]
           p == out["proxy"]
           rank(row) == CreditRank[row.active]
<1>1. o # None => rank(o) \in Nat
  <2>1. o # None => o.active \in LabelsOn("oas")
    BY RowsOnShow DEF AllAxes, OptionalAxes, Graded
  <2> QED
    BY <2>1, AxesAreRanked, RanksAreNumbers DEF AllAxes, OptionalAxes, LabelsOn, RankOf
<1>2. p # None => rank(p) \in Nat
  <2>1. p # None => p.active \in LabelsOn("proxy")
    BY RowsOnShow DEF AllAxes, OptionalAxes, Graded
  <2> QED
    BY <2>1, AxesAreRanked, RanksAreNumbers DEF AllAxes, OptionalAxes, LabelsOn, RankOf
<1>3. CreditOf(out) = EffectiveCredit(o, p, CreditRank)
  BY DEF CreditOf, HasSignal
<1> HIDE DEF o, p
<1>4. HasSignal(o) => o # None /\ rank(CreditOf(out)) >= rank(o)
  BY <1>1, <1>2, <1>3 DEF EffectiveCredit, HasSignal
<1>5. HasSignal(p) => p # None /\ rank(CreditOf(out)) >= rank(p)
  BY <1>1, <1>2, <1>3 DEF EffectiveCredit, HasSignal
<1> QED
  BY <1>4, <1>5 DEF o, p

(* The credit label downstream is as risky as any signal                   *)
(* (resolve_credit_funding_effective_output).                              *)
THEOREM EffectiveHolds == Spec => []EffectiveAtLeastSignals
BY SessionInvariant, EffectiveIsRiskiest, PTL

LEMMA SafeIsUsable == IInv => SafeMeansUsable
<1> SUFFICES ASSUME IInv, Published, SafeForDownstream
             PROVE  /\ \A a \in wired : Usable(out[a].status) /\ memory[a].gap = 0
                    /\ request.version = 2 => wired = MarketAxes \cup OptionalAxes
  BY DEF SafeMeansUsable
<1>1. ASSUME NEW a \in wired
      PROVE  Usable(out[a].status) /\ memory[a].gap = 0
  <2>1. a \in AllAxes /\ out[a] \in Outputs /\ Graded(a, out[a], memory[a])
    BY DEF IInv, Shows, Graded
  <2>2. out[a].class \notin UnsafeStatuses
    BY <2>1, PipelineAssumption DEF SafeForDownstream, CoveredAxes, AxisSafe, AllAxes
  <2>3. PICK missing \in BOOLEAN :
          out[a].class = Classification(out[a].status, out[a].raw, out[a].stable,
                                        out[a].active, missing)
    BY <2>1 DEF Graded
  <2>4. ~ ForcesUnknown(out[a].status)
    BY <2>2, <2>3 DEF ForcesUnknown, Classification, UnsafeStatuses
  <2>5. out[a].status \in Statuses
    BY <2>1 DEF Outputs
  <2> QED
    BY <2>1, <2>4, <2>5 DEF Graded, Usable, ForcesUnknown, Statuses
<1>2. request.version = 2 => wired = MarketAxes \cup OptionalAxes
  BY DEF IInv, Served, AllAxes
<1> QED
  BY <1>1, <1>2

(* Nothing held over a gap is reported safe (classification_coverage,      *)
(* build_classification_coverage).                                         *)
THEOREM SafeHolds == Spec => []SafeMeansUsable
BY SessionInvariant, SafeIsUsable, PTL

(* The market axes and the network always have a label.                    *)
LEMMA RoutedAxesSpeak ==
  ASSUME IInv, Published, NEW a \in MarketAxes \cup {"network"}
  PROVE  LabelsOf(out)[a] # None /\ out[a] # None /\ LabelsOf(out)[a] = out[a].active
<1>1. out[a] \in Outputs
  <2>1. CASE a \in wired
    BY <2>1 DEF IInv, Shows, Graded
  <2>2. CASE a \notin wired
    <3>1. a = "network"
      BY <2>2 DEF IInv, Served
    <3>2. out[a] = Row("unknown", "unknown", "unknown", "insufficient_history", FALSE)
      BY <2>2, <3>1 DEF IInv, Shows, Unbuilt, AllAxes, OptionalAxes
    <3>3. "unknown" \in Labels /\ "insufficient_history" \in Statuses
      BY <3>1, AxesAreRanked DEF RankedAxes, Statuses
    <3> QED
      BY <3>2, <3>3, RowIsOutput
  <2> QED
    BY <2>1, <2>2
<1>2. out[a] # None /\ out[a].active \in Labels
  BY <1>1, PipelineAssumption DEF Outputs
<1> QED
  BY <1>2, NoneAssumption DEF LabelsOf, ActiveOfRow

Silenced(seen, lost) ==
  [a \in DOMAIN seen |-> IF a \in lost /\ seen[a] # None THEN "unknown" ELSE seen[a]]

(* A crisis is not called by the data that are missing.                    *)
LEMMA SilenceCallsNoCrisis ==
  ASSUME CrisisNamesRegimes, NEW seen, NEW lost, DOMAIN seen = RoutedAxes,
         RuleMatches("crisis_specialist", Silenced(seen, lost))
  PROVE  RuleMatches("crisis_specialist", seen)
<1> DEFINE rule == RoutingRules["crisis_specialist"]
           left == Silenced(seen, lost)
<1>1. "crisis_specialist" \in DOMAIN RoutingRules
  BY DEF RuleMatches
<1>2. \A p \in rule.any \cup rule.all : p.axis \in RoutedAxes /\ "unknown" \notin p.values
  BY <1>1, StrategyAssumption DEF CrisisNamesRegimes, Predicates
<1>3. ASSUME NEW p \in rule.any \cup rule.all, Holds(p, left)
      PROVE  Holds(p, seen)
  <2>1. p.axis \in RoutedAxes /\ left[p.axis] # "unknown" /\ left[p.axis] # None
        /\ left[p.axis] \in p.values
    BY <1>2, <1>3 DEF Holds
  <2>2. left[p.axis] = seen[p.axis]
    BY <2>1 DEF Silenced
  <2> QED
    BY <2>1, <2>2 DEF Holds
<1> HIDE DEF left
<1>4. RuleMatches("crisis_specialist", left)
  BY DEF left
<1> QED
  BY <1>3, <1>4 DEF RuleMatches

(* Whatever labels are silenced, the routing stays or goes to the outage.  *)
LEMMA OutageKeepsCrisis ==
  ASSUME CrisisNamesRegimes, IInv
  PROVE  OutageNeverCalms
<1> SUFFICES ASSUME Published, Routed, NEW lost \in SUBSET (MarketAxes \cup {"network", "monetary"})
             PROVE  LET seen == LabelsOf(out)
                        left == Silenced(seen, lost)
                    IN /\ lost # {"monetary"} /\ lost # {} =>
                            Cohort(left) \in {ActiveCohort, "data_outage_specialist"}
                       /\ RuleMatches("crisis_specialist", left) => Cohort(left) = "crisis_specialist"
  BY DEF OutageNeverCalms, Silenced
<1> DEFINE seen == LabelsOf(out)
           left == Silenced(seen, lost)
<1>1. DOMAIN seen = RoutedAxes
  BY DEF LabelsOf, RoutedAxes, MarketAxes
<1>2. RuleMatches("crisis_specialist", left) => RuleMatches("crisis_specialist", seen)
  BY <1>1, SilenceCallsNoCrisis
<1>3. ASSUME lost # {"monetary"}, lost # {}
      PROVE  DataOutage(left)
  <2>1. PICK a \in lost : a \in MarketAxes \cup {"network"}
    BY <1>3
  <2>2. seen[a] # None /\ a \in DOMAIN seen
    BY <1>1, <2>1, RoutedAxesSpeak DEF RoutedAxes, MarketAxes
  <2>3. left[a] = "unknown"
    BY <2>2 DEF Silenced
  <2> QED
    BY <2>1, <2>3 DEF DataOutage, MarketAxes
<1> HIDE DEF left, seen
<1>4. RuleMatches("crisis_specialist", left) => Cohort(left) = "crisis_specialist"
  BY DEF Cohort
<1>5. RuleMatches("crisis_specialist", seen) => ActiveCohort = "crisis_specialist"
  BY DEF ActiveCohort, Cohort, seen
<1>6. lost # {"monetary"} /\ lost # {} => Cohort(left) \in {ActiveCohort, "data_outage_specialist"}
  <2>1. CASE RuleMatches("crisis_specialist", left)
    BY <1>2, <1>4, <1>5, <2>1
  <2>2. CASE ~ RuleMatches("crisis_specialist", left)
    BY <1>3, <2>2 DEF Cohort
  <2> QED
    BY <2>1, <2>2
<1> QED
  BY <1>4, <1>6 DEF left, seen

(* Losing data leads to the outage cohort or nowhere, provided that the    *)
(* crisis rule names regimes only (cohort_routing.py).                     *)
THEOREM OutageHolds == CrisisNamesRegimes /\ Spec => []OutageNeverCalms
<1>1. CrisisNamesRegimes /\ IInv => OutageNeverCalms
  BY OutageKeepsCrisis
<1>2. CASE CrisisNamesRegimes
  <2>1. IInv => OutageNeverCalms
    BY <1>1, <1>2
  <2> QED
    BY SessionInvariant, <2>1, PTL
<1> QED
  BY <1>2

(***************************************************************************)
(* A crisis whose data are lost.                                           *)
(***************************************************************************)
(* Events only take away from a response.                                  *)
LEMMA EventsTighten ==
  ASSUME NEW response, Sized(response), NEW labels
  PROVE  Tighter(Overlay(response, labels), response)
<1> DEFINE n == Len(EventRules)
           tight == After(response, EventModifiers(labels))
           Bad == {i \in 0..n : ~ Tighter(tight[i], response)}
<1>1. n \in Nat /\ DOMAIN EventRules = 1..n /\ \A i \in 1..n : EventRules[i] \in EventRule
  BY StrategyAssumption
<1>2. EventModifiers(labels) \in Seq({EventModifiers(labels)[i] : i \in 1..n})
  BY <1>1 DEF EventModifiers
<1>3. Len(EventModifiers(labels)) = n
  BY <1>1, <1>2 DEF EventModifiers
<1>4. /\ tight[0] = response
      /\ \A i \in 1..n : tight[i] = Apply(tight[i - 1], EventModifier(EventRules[i], labels))
  BY <1>1, <1>3, AfterSteps DEF EventModifiers
<1>5. Overlay(response, labels) = tight[n]
  BY <1>3 DEF Overlay, Modified, EventModifiers
<1> HIDE DEF n, tight
<1>6. CASE Bad = {}
  BY <1>1, <1>5, <1>6
<1>7. CASE Bad # {}
  <2>1. PICK i \in Bad : \A j \in Bad : i <= j
    <3>1. Bad \in SUBSET Nat
      BY <1>1
    <3> QED
      BY <1>7, <3>1, FirstFires
  <2>2. i # 0
    <3>1. Tighter(tight[0], response)
      BY <1>4 DEF Tighter, Sized
    <3> QED
      BY <2>1, <3>1
  <2>3. i \in 1..n /\ Tighter(tight[i - 1], response)
    BY <1>1, <2>1, <2>2
  <2>4. Apply(response, EventModifier(EventRules[i], {})) = response
    BY DEF Apply, EventModifier, Modifier
  <2>5. Tighter(tight[i], response)
    BY <1>1, <1>4, <2>3, <2>4, RuleTightens
  <2> QED
    BY <2>1, <2>5
<1> QED
  BY <1>6, <1>7

(* A row of the session is the row of its axis.                            *)
LEMMA RowOfSession ==
  ASSUME NEW day, NEW keep, NEW a \in wired, wired \subseteq AllAxes
  PROVE  Rows(Session(day, keep))[a] = Session(day, keep)[a].row
BY DEF Rows, AllAxes

(* The crisis label is held when its data are lost right after it.         *)
LEMMA CrisisLabelIsHeld ==
  ASSUME IInv, Hold > 0, failed = None, Published, memory["vol"].gap = 0,
         out["vol"].active = "crisis_vol", "unknown" \notin {out["vol"].raw, out["vol"].stable},
         NEW day, NEW keep, ForcesUnknown(Rows(Session(day, keep))["vol"].status)
  PROVE  Rows(Session(day, keep))["vol"].active = "crisis_vol"
<1> DEFINE m == memory["vol"]
<1>1. "vol" \in wired /\ "vol" \in AllAxes /\ wired \subseteq AllAxes
  BY DEF IInv, Served, MarketAxes, AllAxes
<1>2. MemoryOK("vol", m) /\ Graded("vol", out["vol"], m)
  BY <1>1 DEF IInv, Remembers, Shows
<1>3. ~ ForcesUnknown(out["vol"].status)
  BY <1>2 DEF Graded
<1>4. m.known = out["vol"].stable /\ m.knownActive = "crisis_vol" /\ m.known # None
  BY <1>1, <1>2, <1>3, KnownIsLabel DEF Graded
<1>5. PICK hears : Session(day, keep)["vol"] = AxisStep("vol", m, day, hears, "vol" \in keep)
  BY <1>1, SessionSteps
<1>6. Rows(Session(day, keep))["vol"] = AxisStep("vol", m, day, hears, "vol" \in keep).row
  BY <1>1, <1>5, RowOfSession
<1>7. m.gap + 1 <= Hold
  BY PipelineAssumption
<1> HIDE DEF m
<1> QED
  BY <1>1, <1>2, <1>4, <1>6, <1>7, KnownIsHeld

(* A session in crisis whose axes are known is small, whatever its events. *)
LEMMA CrisisOnShowIsSmall ==
  IInv /\ Published /\ risk = "crisis" /\ AxesKnown(out) => Response.size <= 25
<1> SUFFICES ASSUME IInv, Published, risk = "crisis", AxesKnown(out)
             PROVE  Response.size <= 25
  OBVIOUS
<1> DEFINE l == LabelsOf(out)
           before == ResponseBeforeEvents(l, risk)
<1>1. l["trend"] # "unknown" /\ l["character"] # "unknown" /\ l["vol"] # "unknown"
      /\ l["breadth"] # "unknown"
  BY RoutedAxesSpeak DEF AxesKnown, MarketAxes
<1> HIDE DEF l
<1>2. ~ Unmapped(l, "crisis")
  BY <1>1 DEF Unmapped
<1>3. before.size = 25 /\ Sized(before)
  BY <1>2, CrisisIsSmall, BeforeEventsIsSized
<1>4. Response = before \/ Response = Overlay(before, events)
  BY DEF Response, ResponseTo, StrategyResponse, l
<1> HIDE DEF before
<1> QED
  BY <1>3, <1>4, EventsTighten DEF Tighter, Sized

(* A crisis that the volatility axis calls chooses the cohort.             *)
LEMMA CrisisIsRouted ==
  CrisisHearsVol /\ IInv /\ Published /\ out["vol"].active = "crisis_vol"
    => ActiveCohort = "crisis_specialist"
<1> SUFFICES ASSUME IInv, Published, CrisisHearsVol, out["vol"].active = "crisis_vol"
             PROVE  ActiveCohort = "crisis_specialist"
  OBVIOUS
<1> DEFINE l == LabelsOf(out)
           rule == RoutingRules["crisis_specialist"]
<1>1. l["vol"] = "crisis_vol" /\ l["vol"] # None
  BY RoutedAxesSpeak DEF MarketAxes
<1>2. PICK p \in rule.any : p.axis = "vol" /\ "crisis_vol" \in p.values
  BY DEF CrisisHearsVol
<1> HIDE DEF l
<1>3. Holds(p, l)
  BY <1>1, <1>2 DEF Holds
<1>4. RuleMatches("crisis_specialist", l)
  BY <1>2, <1>3 DEF RuleMatches, CrisisHearsVol
<1> QED
  BY <1>4 DEF ActiveCohort, Cohort, l

LostInCrisis ==
  /\ Published /\ risk' # None /\ memory["vol"].gap = 0
  /\ out["vol"].active = "crisis_vol" /\ "unknown" \notin {out["vol"].raw, out["vol"].stable}
  /\ ForcesUnknown(out'["vol"].status)

LEMMA PublishedCrisis ==
  ASSUME Hold > 0, IInv, LostInCrisis, failed = None, NEW day, NEW keep, NEW state,
         Publish(Session(day, keep), day, state),
         state \in IF AxesKnown(Rows(Session(day, keep))) THEN StatesFor(Rows(Session(day, keep)))
                   ELSE {"insufficient_data"}
  PROVE  \/ risk' = "insufficient_data"
         \/ risk' = "crisis" /\ AxesKnown(out') /\ out'["vol"].active = "crisis_vol"
<1>1. out' = Rows(Session(day, keep)) /\ risk' = state
  BY DEF Publish
<1>2. out'["vol"].active = "crisis_vol"
  BY <1>1, CrisisLabelIsHeld DEF LostInCrisis
<1> QED
  BY <1>1, <1>2 DEF StatesFor

(* A volatility crisis whose data is lost: the row is held, not forgotten. *)
LEMMA CrisisStep ==
  ASSUME Hold > 0, IInv, [Next]_vars, LostInCrisis
  PROVE  \/ risk' = "insufficient_data"
         \/ risk' = "crisis" /\ AxesKnown(out') /\ out'["vol"].active = "crisis_vol"
<1>1. ~ ForcesUnknown(out["vol"].status)
  <2>1. "vol" \in wired
    BY DEF IInv, Served, MarketAxes, LostInCrisis
  <2>2. Graded("vol", out["vol"], memory["vol"])
    BY <2>1 DEF IInv, Shows, LostInCrisis
  <2> QED
    BY <2>2 DEF Graded, LostInCrisis
<1>2. out' # out
  BY <1>1 DEF LostInCrisis
<1>3. risk # None /\ risk' # None
  BY DEF LostInCrisis, Published
<1>4. ASSUME NEW day \in Days, NEW keep \in KeepSets, failed = None,
             \/ WarmUp(Session(day, keep))
             \/ ScoredSession(Session(day, keep), day)
             \/ UnscoredSession(Session(day, keep), day)
             \/ RefusedSession(Session(day, keep), day)
      PROVE  \E state : /\ Publish(Session(day, keep), day, state)
                        /\ state \in IF AxesKnown(Rows(Session(day, keep)))
                                     THEN StatesFor(Rows(Session(day, keep)))
                                     ELSE {"insufficient_data"}
  <2> DEFINE session == Session(day, keep)
  <2>1. ~ WarmUp(session) /\ ~ RefusedSession(session, day)
    BY <1>2, <1>3 DEF WarmUp, RefusedSession
  <2> HIDE DEF session
  <2>2. CASE ScoredSession(session, day)
    BY <2>2 DEF ScoredSession, session
  <2>3. CASE UnscoredSession(session, day)
    BY <2>3 DEF UnscoredSession, session
  <2> QED
    BY <1>4, <2>1, <2>2, <2>3 DEF session
<1>5. \A r, store : ~ Answer(r, store) /\ ~ Refuse(r, store)
  BY <1>3 DEF Answer, Refuse
<1>6. \E day \in Days, keep \in KeepSets : /\ failed = None
        /\ \/ WarmUp(Session(day, keep))
           \/ ScoredSession(Session(day, keep), day)
           \/ UnscoredSession(Session(day, keep), day)
           \/ RefusedSession(Session(day, keep), day)
  BY <1>2, <1>5 DEF Next, vars
<1> QED
  BY <1>4, <1>6, PublishedCrisis

(* Where labels are held at all, and where a volatility crisis is enough   *)
(* for the crisis cohort, losing the data of the volatility axis in a      *)
(* crisis leaves the crisis in force, or the session without a state       *)
(* (hysteresis, _hold_limit; timeline).                                    *)
THEOREM CrisisHolds == Hold > 0 /\ CrisisHearsVol /\ Spec => CrisisIsHeld
<1> DEFINE Held ==
      LostInCrisis
        => \/ risk' = "insufficient_data"
           \/ /\ risk' = "crisis" /\ (Routed => ActiveCohort' = "crisis_specialist")
              /\ Response'.size <= 25
<1> SUFFICES ASSUME Hold > 0, CrisisHearsVol PROVE Spec => [][Held]_vars
  BY DEF CrisisIsHeld, LostInCrisis
<1>1. ASSUME IInv, IInv', [Next]_vars PROVE Held
  <2>1. SUFFICES ASSUME LostInCrisis
                 PROVE  \/ risk' = "insufficient_data"
                        \/ risk' = "crisis" /\ ActiveCohort' = "crisis_specialist"
                           /\ Response'.size <= 25
    OBVIOUS
  <2>2. CASE risk' = "crisis" /\ AxesKnown(out') /\ out'["vol"].active = "crisis_vol"
    <3>1. Published' /\ AxesKnown(out)' /\ (out["vol"].active = "crisis_vol")'
          /\ (risk = "crisis")'
      BY <2>2, <2>1 DEF Published, LostInCrisis, AxesKnown, MarketAxes
    <3>2. (ActiveCohort = "crisis_specialist")'
      BY <1>1, <3>1, CrisisIsRouted, PTL
    <3>3. (Response.size <= 25)'
      BY <1>1, <3>1, CrisisOnShowIsSmall, PTL
    <3> QED
      BY <2>2, <3>2, <3>3
  <2> QED
    BY <1>1, <2>1, <2>2, CrisisStep
<1> QED
  BY <1>1, SessionInvariant, PTL DEF Spec

(***************************************************************************)
(* One axis while its readings change.                                     *)
(***************************************************************************)
AxisInv ==
  /\ axis \in Axes
  /\ DOMAIN reading = DOMAIN Values[axis]
  /\ \A f \in DOMAIN reading : reading[f] \in Values[axis][f] \cup {NaN}
  /\ heard \in [breadth : Breadths \cup {"unknown"}, vol : Vols \cup {"unknown"},
                credit : Credits \cup {None}]
  /\ label = LabelOf(axis, reading, heard)

LEMMA AxisInitInv == AxisInit => AxisInv
<1> SUFFICES ASSUME AxisInit PROVE AxisInv
  OBVIOUS
<1>1. axis \in Axes /\ label = LabelOf(axis, reading, heard)
  BY DEF AxisInit
<1>2. reading = [f \in DOMAIN Values[axis] |->
                   IF NaN \in Values[axis][f] THEN NaN ELSE CHOOSE v \in Values[axis][f] : TRUE]
      /\ heard = [breadth |-> "unknown", vol |-> "unknown", credit |-> None]
  BY DEF AxisInit
<1>3. \A f \in DOMAIN Values[axis] : (CHOOSE v \in Values[axis][f] : TRUE) \in Values[axis][f]
  BY <1>1, AxisAssumption
<1> QED
  BY <1>1, <1>2, <1>3 DEF AxisInv

LEMMA AxisStepInv == AxisInv /\ [AxisNext]_axisVars => AxisInv'
<1> SUFFICES ASSUME AxisInv, [AxisNext]_axisVars PROVE AxisInv'
  OBVIOUS
<1>1. CASE UNCHANGED axisVars
  BY <1>1 DEF AxisInv, axisVars
<1>2. ASSUME NEW f \in DOMAIN reading, Lose(f) PROVE AxisInv'
  BY <1>2 DEF AxisInv, Lose
<1>3. ASSUME NEW f \in DOMAIN reading, NEW v \in Values[axis][f], Observe(f,
             v) PROVE AxisInv'
  BY <1>3 DEF AxisInv, Observe
<1>4. ASSUME NEW h \in Audible, Hear(h) PROVE AxisInv'
  BY <1>4 DEF AxisInv, Hear, Audible
<1> QED
  BY <1>1, <1>2, <1>3, <1>4 DEF AxisNext

LEMMA AxisInvariant == AxisSpec => []AxisInv
BY AxisInitInv, AxisStepInv, PTL DEF AxisSpec

(***************************************************************************)
(* What credit changes of the network.                                     *)
(***************************************************************************)
NetworkTable(r, b, v, c) ==
  << <<SystemicStress(r, b, c), "systemic_stress">>,
     <<SystemicUnconfirmed(r, b, c), "systemic_stress_unconfirmed">>,
     <<CorrelationToOne(r), "correlation_to_one">>,
     <<Concentration(r), "correlation_concentration">>,
     <<RisingFragility(r, b), "rising_fragility">>,
     <<Dispersed(r) /\ v = "crisis_vol", "idiosyncratic_crisis">>,
     <<Dispersed(r), "stock_picker_dispersion">>,
     <<RotationWatch(r), "rotation_watch">>,
     <<Decorrelated(r), "decorrelated_calm">>,
     <<DiversifiedNormal(r), "diversified_normal">> >>

(* A rule that fires keeps the ones after it silent.                       *)
FiresBy(rules, n, S) ==
  /\ n \in DOMAIN rules /\ rules[n][1]
  /\ \A i \in DOMAIN rules : i \in Nat /\ (i <= n => rules[i][2] \in S)

(* A table whose first n rules cannot all miss says a label of S.          *)
LEMMA FirstMatchBy ==
  ASSUME NEW n \in Nat, NEW S
  PROVE  \A rules, otherwise : FiresBy(rules, n, S) => FirstMatch(rules, otherwise) \in S
<1> TAKE rules, otherwise
<1> HAVE FiresBy(rules, n, S)
<1> DEFINE fires == {i \in DOMAIN rules : rules[i][1]}
           first == CHOOSE i \in fires : \A j \in fires : i <= j
<1>1. n \in fires /\ fires \in SUBSET Nat
  BY DEF FiresBy
<1>2. \E i \in fires : \A j \in fires : i <= j
  BY <1>1, FirstFires
<1>3. first \in fires /\ first <= n
  BY <1>1, <1>2
<1>4. FirstMatch(rules, otherwise) = rules[first][2]
  BY <1>1 DEF FirstMatch
<1> HIDE DEF first
<1> QED
  BY <1>3, <1>4 DEF FiresBy

(* Under either credit reading the network rules give the same rank.       *)
LEMMA CreditOnlyNames ==
  ASSUME NEW r, NEW b, NEW v, NEW c, NEW d
  PROVE  NetworkRank[NetworkLabel(r, b, v, c)] = NetworkRank[NetworkLabel(r, b, v, d)]
<1>1. \A e : NetworkLabel(r, b, v, e) = FirstMatch(NetworkTable(r, b, v, e), "unknown")
  BY DEF NetworkLabel, NetworkTable
<1>2. CASE SystemicGates(r, b)
  <2> DEFINE S == {"systemic_stress", "systemic_stress_unconfirmed", "correlation_to_one"}
  <2>1. CorrelationToOne(r)
    BY <1>2 DEF SystemicGates
  <2>2. \A e : FirstMatch(NetworkTable(r, b, v, e), "unknown") \in S
    <3> TAKE e
    <3>1. FiresBy(NetworkTable(r, b, v, e), 3, S)
      BY <2>1 DEF FiresBy, NetworkTable
    <3> HIDE DEF S
    <3> QED
      BY <3>1, FirstMatchBy
  <2>3. \A l \in S : NetworkRank[l] = 3
    BY DEF NetworkRank
  <2> HIDE DEF S
  <2> QED
    BY <1>1, <2>2, <2>3
<1>3. CASE ~ SystemicGates(r, b)
  <2>1. \A e : SystemicStress(r, b, e) = FALSE /\ SystemicUnconfirmed(r, b, e) = FALSE
    BY <1>3 DEF SystemicStress, SystemicUnconfirmed
  <2>2. NetworkTable(r, b, v, c) = NetworkTable(r, b, v, d)
    BY <2>1 DEF NetworkTable
  <2> QED
    BY <1>1, <2>2
<1> QED
  BY <1>2, <1>3

LEMMA CreditKeepsRank == AxisInv => CreditNamesNotRanks
<1> SUFFICES ASSUME AxisInv, axis = "network", NEW c \in Credits
             PROVE  Risk(LabelOf(axis, reading,
             [heard EXCEPT !.credit = c])) = Risk(label)
  BY DEF CreditNamesNotRanks
<1> DEFINE h == [heard EXCEPT !.credit = c]
<1>1. h.breadth = heard.breadth /\ h.vol = heard.vol /\ h.credit = c
  BY DEF AxisInv
<1> HIDE DEF h
<1>2. \A k : LabelOf(axis, reading, k)
               = NetworkLabel(NetworkReading(reading), k.breadth, k.vol, k.credit)
  BY DEF LabelOf
<1>3. RankOf(axis) = NetworkRank
  BY DEF RankOf
<1>4. label = LabelOf(axis, reading, heard)
  BY DEF AxisInv
<1>5. Risk(LabelOf(axis, reading, h)) = Risk(label)
  BY <1>1, <1>2, <1>3, <1>4, CreditOnlyNames DEF Risk
<1> QED
  BY <1>5 DEF h

(* Credit names the network label and does not rank it                     *)
(* (network_fragility_rules, evaluate_rules_with_evidence).                *)
THEOREM CreditNames == AxisSpec => []CreditNamesNotRanks
BY AxisInvariant, CreditKeepsRank, PTL

(***************************************************************************)
(* With the readings it requires, an axis knows.                           *)
(***************************************************************************)
LEMMA TrendKnows ==
  ASSUME NEW r, Known(r, Required["trend"])
  PROVE  TrendLabel(r) # "unknown"
<1> DEFINE S == DOMAIN TrendRank \ {"unknown"}
<1>1. S = {"bull", "sideways", "recovery", "transition", "bear", "euphoria"}
  BY DEF TrendRank
<1>2. \A rules, otherwise :
        Says(rules, S) /\ otherwise \in S => FirstMatch(rules, otherwise) \in S
  BY FirstMatchIn
<1>3. Known(r, {"close", "sma50", "sma200", "ret63"})
  BY DEF Required
<1> HIDE DEF S
<1>4. TrendLabel(r) \in S
  BY <1>1, <1>2, <1>3 DEF Says, TrendV1, TrendLabel
<1> QED
  BY <1>1, <1>4

LEMMA CharacterKnows ==
  ASSUME NEW r, Known(r, Required["character"])
  PROVE  CharacterLabel(r) # "unknown"
<1> DEFINE S == DOMAIN CharacterRank \ {"unknown"}
<1>1. S = {"breakout_expansion", "trending", "mild_trend", "recovery_attempt", "range_bound",
           "chop", "volatile_chop", "transition"}
  BY DEF CharacterRank
<1>2. \A rules, otherwise :
        Says(rules, S) /\ otherwise \in S => FirstMatch(rules, otherwise) \in S
  BY FirstMatchIn
<1>3. Known(r, {"close", "sma50", "ret10", "ret21", "drawdown63", "adx"})
  BY DEF Required
<1> HIDE DEF S
<1>4. CharacterLabel(r) \in S
  BY <1>1, <1>2, <1>3 DEF Says, CharacterLabel
<1> QED
  BY <1>1, <1>4

LEMMA VolKnows ==
  ASSUME NEW r, Known(r, Required["vol"])
  PROVE  VolLabel(r) # "unknown"
<1> DEFINE S == DOMAIN VolRank \ {"unknown"}
<1>1. S = {"low_vol", "normal_vol", "high_vol", "rising_vol", "crisis_vol", "vol_crush"}
  BY DEF VolRank
<1>2. \A rules, otherwise :
        Says(rules, S) /\ otherwise \in S => FirstMatch(rules, otherwise) \in S
  BY FirstMatchIn
<1>3. Known(r, {"ret1", "ret5", "ret21", "volPct"})
  BY DEF Required
<1> HIDE DEF S
<1>4. VolLabel(r) \in S
  BY <1>1, <1>2, <1>3 DEF Says, VolV1, VolLabel
<1> QED
  BY <1>1, <1>4

LEMMA BreadthKnows ==
  ASSUME NEW r, Known(r, Required["breadth"])
  PROVE  BreadthLabel(r) # "unknown"
<1> DEFINE S == DOMAIN BreadthRank \ {"unknown"}
<1>1. S = {"breadth_thrust", "healthy_breadth", "broadening_breadth", "neutral_breadth",
           "recovery_breadth", "weak_breadth", "narrowing_breadth", "divergent_fragile"}
  BY DEF BreadthRank
<1>2. \A rules, otherwise :
        Says(rules, S) /\ otherwise \in S => FirstMatch(rules, otherwise) \in S
  BY FirstMatchIn
<1>3. Known(r, {"ratio", "ratioSma", "ratioRet20", "offHigh"})
  BY DEF Required
<1> HIDE DEF S
<1>4. BreadthLabel(r) \in S
  BY <1>1, <1>2, <1>3 DEF Says, BreadthV1, BreadthLabel
<1> QED
  BY <1>1, <1>4

LEMMA MonetaryKnows ==
  ASSUME NEW r, Known(r, Required["monetary"])
  PROVE  MonetaryLabel(r) # "unknown"
<1> DEFINE S == DOMAIN MonetaryRank \ {"unknown"}
<1>1. S = {"neutral_monetary", "easing_pressure", "tightening_pressure", "rate_shock"}
  BY DEF MonetaryRank
<1>2. \A rules, otherwise :
        Says(rules, S) /\ otherwise \in S => FirstMatch(rules, otherwise) \in S
  BY FirstMatchIn
<1>3. Known(r, {"z2y", "z10y", "zUsd", "fast2y", "fast10y"})
  BY DEF Required
<1> HIDE DEF S
<1>4. MonetaryLabel(r) \in S
  BY <1>1, <1>2, <1>3 DEF Says, MonetaryLabel
<1> QED
  BY <1>1, <1>4

(* The others have no label of last resort: one of the rules fires.        *)
LEMMA VolumeKnows ==
  ASSUME NEW r, Known(r, Required["volume"])
  PROVE  VolumeLabel(r) # "unknown"
<1> DEFINE S == DOMAIN VolumeRank \ {"unknown"}
<1>1. S = {"normal_volume", "liquidity_gap_behavior", "panic_volume"}
  BY DEF VolumeRank
<1>2. \A rules, otherwise : FiresBy(rules, 3, S) => FirstMatch(rules, otherwise) \in S
  BY FirstMatchBy
<1> DEFINE ranked == Known(r, {"volumeZ", "ret1"}) /\ GapsRanked(r)
<1>3. ranked
  BY DEF Required, GapsRanked, Known
<1> DEFINE table == << <<Panic(r), "panic_volume">>,
                       <<GapPath(r) # "none", "liquidity_gap_behavior">>,
                       <<ranked, "normal_volume">> >>
<1> HIDE DEF S, ranked
<1>4. FiresBy(table, 3, S)
  <2>1. \A i \in DOMAIN table : i \in Nat /\ table[i][2] \in S
    BY <1>1
  <2>2. 3 \in DOMAIN table /\ table[3][1]
    BY <1>3
  <2> HIDE DEF table
  <2> QED
    BY <2>1, <2>2 DEF FiresBy
<1>5. VolumeLabel(r) = FirstMatch(table, "unknown")
  BY DEF VolumeLabel, ranked
<1> HIDE DEF table
<1>6. VolumeLabel(r) \in S
  BY <1>2, <1>4, <1>5
<1> QED
  BY <1>1, <1>6

LEMMA GrowthKnows ==
  ASSUME NEW r, Known(r, Required["growth"]), Required["growth"] \subseteq DOMAIN r, NEW c
  PROVE  GrowthLabel(GrowthReading(r, c)) # "unknown"
<1> DEFINE S == DOMAIN GrowthRank \ {"unknown"}
           g == GrowthReading(r, c)
<1>1. S = {"goldilocks", "recovery_growth", "earnings_expansion",
           "recovery_growth_unconfirmed", "reflation", "macro_neutral", "disinflation",
           "contractionary_disinflation", "late_cycle_inflation_stress", "stagflation_lite",
           "risk_off_mild", "earnings_contraction", "recession_scare", "inflation_shock"}
  BY DEF GrowthRank
<1>2. \A rules, otherwise : FiresBy(rules, 14, S) => FirstMatch(rules, otherwise) \in S
  BY FirstMatchBy
<1>3. Known(g, {"cpiSlope", "pmi", "spy"})
  <2>1. ASSUME NEW f \in {"cpiSlope", "pmi", "spy"} PROVE g[f] = r[f] /\ r[f] # NaN
    <3>1. f \in GrowthFields /\ f \in Required["growth"] /\ f # "credit"
      BY <2>1 DEF GrowthFields, Required
    <3> QED
      BY <3>1 DEF GrowthReading, ScalarAt, Known
  <2> QED
    BY <2>1 DEF Known
<1> HIDE DEF S, g
<1> DEFINE table ==
      << <<InflationShock(g), "inflation_shock">>,
         <<RecessionScare(g), "recession_scare">>,
         <<RiskOffMild(g), "risk_off_mild">>,
         <<Goldilocks(g), "goldilocks">>,
         <<CreditIsCalm(g) /\ GrowthTurning(g), "recovery_growth">>,
         <<RecoveryUnconfirmed(g), "recovery_growth_unconfirmed">>,
         <<Disinflation(g), "disinflation">>,
         <<LateCycle(g), "late_cycle_inflation_stress">>,
         <<Reflation(g), "reflation">>,
         <<StagflationLite(g), "stagflation_lite">>,
         <<EarningsDown(g), "earnings_contraction">>,
         <<EarningsUp(g), "earnings_expansion">>,
         <<Contractionary(g), "contractionary_disinflation">>,
         <<Known(g, {"cpiSlope", "pmi", "spy"}), "macro_neutral">> >>
<1>4. FiresBy(table, 14, S)
  <2>1. \A i \in DOMAIN table : i \in Nat /\ table[i][2] \in S
    BY <1>1
  <2>2. 14 \in DOMAIN table /\ table[14][1]
    BY <1>3
  <2> HIDE DEF table
  <2> QED
    BY <2>1, <2>2 DEF FiresBy
<1>5. GrowthLabel(g) = FirstMatch(table, "unknown")
  BY DEF GrowthLabel
<1> HIDE DEF table
<1>6. GrowthLabel(g) \in S
  BY <1>2, <1>4, <1>5
<1> QED
  BY <1>1, <1>6 DEF g

LEMMA NetworkKnows ==
  ASSUME BandsMeet, NEW row, Known(row, Required["network"]),
         Required["network"] \subseteq DOMAIN row, row["corrPct"] \in Int,
         row["stability"] \in Int, NEW b, NEW v, NEW c
  PROVE  NetworkLabel(NetworkReading(row), b, v, c) # "unknown"
<1> DEFINE S == DOMAIN NetworkRank \ {"unknown"}
           r == NetworkReading(row)
           table == NetworkTable(r, b, v, c)
<1>1. S = {"diversified_normal", "decorrelated_calm", "stock_picker_dispersion",
           "rotation_watch", "rising_fragility", "correlation_concentration",
           "idiosyncratic_crisis", "correlation_to_one", "systemic_stress",
           "systemic_stress_unconfirmed"}
  BY DEF NetworkRank
<1>2. /\ r["corrPct"] \in Int /\ r["stability"] \in Int
      /\ Known(r, {"corrPct", "dispersion", "stability"})
  BY DEF NetworkReading, NetworkFields, ScalarAt, Known, Required
<1> HIDE DEF S, r
<1>3. \/ Concentration(r) \/ RotationWatch(r) \/ Decorrelated(r) \/ DiversifiedNormal(r)
  <2>1. /\ \A f \in {"normalLo", "normalHi", "innerLo", "innerHi", "pickerMax", "concCorr",
                     "stability"} : NetworkT[f] \in Int
        /\ NetworkT.relaxed
    BY ThresholdAssumption DEF NetworkSchema, Shares, Share, Positive, BandsMeet
  <2>2. CASE r["corrPct"] > NetworkT.concCorr
    BY <1>2, <2>2 DEF Concentration, Known
  <2>3. CASE r["corrPct"] < NetworkT.pickerMax
    BY <1>2, <2>3 DEF Decorrelated, Known
  <2>4. CASE /\ r["corrPct"] <= NetworkT.concCorr /\ r["corrPct"] >= NetworkT.pickerMax
    <3>1. /\ r["corrPct"] <= NetworkT.normalHi /\ r["corrPct"] >= NetworkT.normalLo
          /\ r["corrPct"] >= NetworkT.innerLo
      BY <1>2, <2>1, <2>4 DEF BandsMeet
    <3>2. CASE r["stability"] < NetworkT.stability \/ r["corrPct"] <= NetworkT.innerHi
      BY <1>2, <2>1, <3>1, <3>2 DEF DiversifiedNormal, Known
    <3>3. CASE r["stability"] >= NetworkT.stability /\ r["corrPct"] > NetworkT.innerHi
      BY <1>2, <2>1, <3>1, <3>3 DEF RotationWatch, Known
    <3> QED
      BY <1>2, <2>1, <3>2, <3>3
  <2> QED
    BY <1>2, <2>1, <2>2, <2>3, <2>4
<1>4. \E n \in {4, 8, 9, 10} : FiresBy(table, n, S)
  <2>1. /\ \A i \in DOMAIN table : i \in Nat /\ table[i][2] \in S
    BY <1>1 DEF NetworkTable
  <2>2. /\ Concentration(r) => 4 \in DOMAIN table /\ table[4][1]
        /\ RotationWatch(r) => 8 \in DOMAIN table /\ table[8][1]
        /\ Decorrelated(r) => 9 \in DOMAIN table /\ table[9][1]
        /\ DiversifiedNormal(r) => 10 \in DOMAIN table /\ table[10][1]
    BY DEF NetworkTable
  <2> HIDE DEF table
  <2> QED
    BY <1>3, <2>1, <2>2 DEF FiresBy
<1> HIDE DEF table
<1>5. FirstMatch(table, "unknown") \in S
  BY <1>4, FirstMatchBy
<1>6. NetworkLabel(r, b, v, c) = FirstMatch(table, "unknown")
  BY DEF NetworkLabel, NetworkTable, table
<1> QED
  BY <1>1, <1>5, <1>6 DEF r

LEMMA RequiredSuffice ==
  ASSUME BandsMeet, AxisInv
  PROVE  UnknownMeansMissing
<1> SUFFICES ASSUME axis \in DOMAIN Required, Known(reading, Required[axis])
             PROVE  label # "unknown"
  BY DEF UnknownMeansMissing
<1>1. /\ axis \in Axes /\ label = LabelOf(axis, reading, heard)
      /\ Required[axis] \subseteq DOMAIN reading
  BY AxisAssumption DEF AxisInv
<1>2. axis = "network" => reading["corrPct"] \in Int /\ reading["stability"] \in Int
  <2>1. SUFFICES ASSUME axis = "network", NEW f \in {"corrPct", "stability"}
                 PROVE  reading[f] \in Int
    OBVIOUS
  <2>2. f \in DOMAIN reading /\ reading[f] # NaN
    BY <1>1, <2>1 DEF Required, Known
  <2> QED
    BY <1>1, <2>1, <2>2, AxisAssumption DEF AxisInv
<1>3. axis \in {"trend", "character", "vol", "breadth", "volume", "network", "growth", "monetary"}
  BY DEF Required
<1> QED
  BY <1>1, <1>2, <1>3, TrendKnows, CharacterKnows, VolKnows, BreadthKnows, VolumeKnows,
     NetworkKnows, GrowthKnows, MonetaryKnows DEF LabelOf

(* An axis that has what it requires says what it sees, provided that the  *)
(* bands of the network leave no gap (raw_label_for_day, evaluate_rules).  *)
THEOREM UnknownIsMissing == BandsMeet /\ AxisSpec => []UnknownMeansMissing
<1> SUFFICES ASSUME BandsMeet PROVE AxisSpec => []UnknownMeansMissing
  OBVIOUS
<1>1. AxisInv => UnknownMeansMissing
  BY RequiredSuffice
<1> QED
  BY <1>1, AxisInvariant, PTL

(***************************************************************************)
(* What worse readings do to a label.                                      *)
(***************************************************************************)
(* The walk of a table of two, three and seven rules.                      *)
Fired(rules) == {i \in DOMAIN rules : rules[i][1]}

LEMMA FirstFired ==
  \A rules, otherwise, n :
     /\ n \in Fired(rules) /\ Fired(rules) \subseteq Nat /\ \A i \in Fired(rules) : n <= i
     => FirstMatch(rules, otherwise) = rules[n][2]
<1> TAKE rules, otherwise, n
<1> HAVE n \in Fired(rules) /\ Fired(rules) \subseteq Nat /\ \A i \in Fired(rules) : n <= i
<1> DEFINE first == CHOOSE i \in Fired(rules) : \A j \in Fired(rules) : i <= j
<1>1. first = n
  <2>1. first \in Fired(rules) /\ first <= n
    OBVIOUS
  <2> QED
    BY <2>1
<1> QED
  BY <1>1 DEF FirstMatch, Fired

LEMMA NoneFired ==
  \A rules, otherwise : Fired(rules) = {} => FirstMatch(rules, otherwise) = otherwise
BY DEF FirstMatch, Fired

LEMMA MatchTwo ==
  ASSUME NEW rules, NEW otherwise, DOMAIN rules = 1 .. 2
  PROVE  FirstMatch(rules, otherwise)
           = IF rules[1][1] THEN rules[1][2] ELSE IF rules[2][1] THEN rules[2][2]
             ELSE otherwise
<1>1. \A i : i \in Fired(rules) <=> i \in 1 .. 2 /\ rules[i][1]
  BY DEF Fired
<1> QED
  BY <1>1, FirstFired, NoneFired

LEMMA MatchThree ==
  ASSUME NEW rules, NEW otherwise, DOMAIN rules = 1 .. 3
  PROVE  FirstMatch(rules, otherwise)
           = IF rules[1][1] THEN rules[1][2] ELSE IF rules[2][1] THEN rules[2][2]
             ELSE IF rules[3][1] THEN rules[3][2] ELSE otherwise
<1>1. \A i : i \in Fired(rules) <=> i \in 1 .. 3 /\ rules[i][1]
  BY DEF Fired
<1> QED
  BY <1>1, FirstFired, NoneFired

LEMMA MatchSeven ==
  ASSUME NEW rules, NEW otherwise, DOMAIN rules = 1 .. 7
  PROVE  FirstMatch(rules, otherwise)
           = IF rules[1][1] THEN rules[1][2] ELSE IF rules[2][1] THEN rules[2][2]
             ELSE IF rules[3][1] THEN rules[3][2] ELSE IF rules[4][1] THEN rules[4][2]
             ELSE IF rules[5][1] THEN rules[5][2] ELSE IF rules[6][1] THEN rules[6][2]
             ELSE IF rules[7][1] THEN rules[7][2] ELSE otherwise
<1>1. \A i : i \in Fired(rules) <=> i \in 1 .. 7 /\ rules[i][1]
  BY DEF Fired
<1>2. Fired(rules) \subseteq Nat
  BY <1>1
<1> HIDE DEF Fired
<1>3. CASE Fired(rules) = {}
  BY <1>1, <1>3, NoneFired
<1>4. \A n \in 1 .. 7 :
        rules[n][1] /\ (\A i \in 1 .. 7 : i < n => ~ rules[i][1])
          => FirstMatch(rules, otherwise) = rules[n][2]
  BY <1>1, <1>2, FirstFired
<1>5. CASE Fired(rules) # {}
  BY <1>1, <1>4, <1>5
<1> QED
  BY <1>3, <1>5

(* A table says only labels of rules that fire, or what it falls back to.  *)
FiresIn(rules, S) == \A i \in DOMAIN rules : i \in Nat /\ (rules[i][1] => rules[i][2] \in S)

LEMMA FirstMatchFires ==
  ASSUME NEW S
  PROVE  \A rules, otherwise :
            FiresIn(rules, S) /\ otherwise \in S => FirstMatch(rules, otherwise) \in S
<1> TAKE rules, otherwise
<1> HAVE FiresIn(rules, S) /\ otherwise \in S
<1> DEFINE fires == {i \in DOMAIN rules : rules[i][1]}
<1>1. CASE fires = {}
  BY <1>1 DEF FirstMatch
<1>2. CASE fires # {}
  <2> DEFINE first == CHOOSE i \in fires : \A j \in fires : i <= j
  <2>1. fires \in SUBSET Nat
    BY DEF FiresIn
  <2>2. first \in fires
    BY <1>2, <2>1, FirstFires
  <2>3. FirstMatch(rules, otherwise) = rules[first][2]
    BY <1>2 DEF FirstMatch
  <2> QED
    BY <2>2, <2>3 DEF FiresIn
<1> QED
  BY <1>1, <1>2

(* A reading that stayed, or a number that did not fall.                   *)
Rises(x, y) == y = x \/ (x \in Int /\ y \in Int /\ x <= y)

LEMMA NumbersStay ==
  ASSUME NEW x, NEW y, Rises(x, y)
  PROVE  x = NaN <=> y = NaN
BY ReadingAssumption DEF Rises

(***************************************************************************)
(* Credit: worse spreads, stocks, bonds, dollar, volatility or correlation.*)
(***************************************************************************)
LEMMA CreditIsRanked ==
  ASSUME NEW r
  PROVE  CreditRank[CreditLabel(r)] =
           IF DeleveragingPath(r) # "none" THEN 4 ELSE IF FundingSqueeze(r) THEN 3
           ELSE IF CreditStress(r) THEN 2
           ELSE IF /\ ~ SpreadWidening(r) /\ ~ CreditDivergence(r)
                   /\ CreditRecovery(r) \/ CreditCalm(r) THEN 0 ELSE 1
<1> DEFINE deleveraging == DeleveragingPath(r) # "none"
           rules == << <<deleveraging, "deleveraging">>,
                       <<FundingSqueeze(r), "funding_squeeze">>,
                       <<CreditStress(r), "credit_stress">>,
                       <<SpreadWidening(r), "spread_widening">>,
                       <<CreditDivergence(r), "credit_divergence">>,
                       <<CreditRecovery(r), "credit_recovery">>,
                       <<CreditCalm(r), "credit_calm">> >>
<1>1. CreditLabel(r) = FirstMatch(rules, "unknown")
  BY DEF CreditLabel
<1> HIDE DEF deleveraging
<1>2. /\ DOMAIN rules = 1 .. 7
      /\ rules[1][1] = deleveraging /\ rules[2][1] = FundingSqueeze(r)
      /\ rules[3][1] = CreditStress(r) /\ rules[4][1] = SpreadWidening(r)
      /\ rules[5][1] = CreditDivergence(r) /\ rules[6][1] = CreditRecovery(r)
      /\ rules[7][1] = CreditCalm(r)
      /\ rules[1][2] = "deleveraging" /\ rules[2][2] = "funding_squeeze"
      /\ rules[3][2] = "credit_stress" /\ rules[4][2] = "spread_widening"
      /\ rules[5][2] = "credit_divergence" /\ rules[6][2] = "credit_recovery"
      /\ rules[7][2] = "credit_calm"
  OBVIOUS
<1> HIDE DEF rules
<1>3. CreditLabel(r)
        = IF deleveraging THEN "deleveraging"
          ELSE IF FundingSqueeze(r) THEN "funding_squeeze"
          ELSE IF CreditStress(r) THEN "credit_stress"
          ELSE IF SpreadWidening(r) THEN "spread_widening"
          ELSE IF CreditDivergence(r) THEN "credit_divergence"
          ELSE IF CreditRecovery(r) THEN "credit_recovery"
          ELSE IF CreditCalm(r) THEN "credit_calm" ELSE "unknown"
  BY <1>1, <1>2, MatchSeven
<1> QED
  BY <1>3 DEF CreditRank, deleveraging

LEMMA CreditWorsens ==
  ASSUME NEW r, NEW s,
         \A f \in {"hyPct", "hySlope", "igSlope", "usdZ", "fundingSlope", "volPct", "corrPct"} :
            Rises(r[f], s[f]),
         \A f \in {"spy", "tlt"} : Rises(s[f], r[f]),
         \A f \in {"vol", "corr"} : s[f] = r[f],
         r.hyPct \in Int \cup {NaN}, r.hySlope \in Int \cup {NaN}
  PROVE  CreditRank[CreditLabel(s)] >= CreditRank[CreditLabel(r)]
<1>1. \A f \in CreditFields : r[f] = NaN <=> s[f] = NaN
  BY NumbersStay DEF CreditFields
<1>2. \A S \in SUBSET CreditFields : Known(r, S) <=> Known(s, S)
  BY <1>1 DEF Known
<1>3. /\ {CreditT.calmMax, CreditT.stressMin, CreditT.volPct, CreditT.corrPct, CreditT.coldCorr,
          CreditT.spyDrop, CreditT.usdDeleveraging, CreditT.usdFunding} \subseteq Int
  BY ThresholdAssumption DEF CreditSchema, Shares, Share, Positive
<1>4. Liquidation(r) => Liquidation(s)
  BY <1>2, <1>3 DEF Liquidation, Rises, CreditFields
<1>5. DeleveragingPath(r) # "none" => DeleveragingPath(s) # "none"
  BY <1>2, <1>3, <1>4 DEF DeleveragingPath, Rises, CreditFields
<1>6. FundingSqueeze(r) => FundingSqueeze(s)
  BY <1>2, <1>3 DEF FundingSqueeze, Rises, CreditFields
<1>7. CreditStress(r) => CreditStress(s)
  BY <1>2, <1>3 DEF CreditStress, Rises, CreditFields
<1>8. /\ r.hySlope > 0 => s.hySlope > 0
      /\ r.igSlope > 0 => s.igSlope > 0
      /\ r.hyPct >= CreditT.calmMax => s.hyPct >= CreditT.calmMax
      /\ s.igSlope <= 0 => r.igSlope <= 0
      /\ s.hyPct < CreditT.calmMax => r.hyPct < CreditT.calmMax
      /\ s.hySlope <= 0 => r.hySlope <= 0
      /\ s.hySlope < 0 => r.hySlope < 0
  BY <1>3 DEF Rises
<1>9. \A f \in {"hyPct", "hySlope", "igSlope"} :
        \/ s[f] = r[f]
        \/ r[f] \in Int /\ s[f] \in Int /\ r[f] # NaN /\ s[f] # NaN /\ r[f] <= s[f]
  BY ReadingAssumption DEF Rises
<1>10. \A x : /\ Known(x, {"hySlope", "hyPct"}) <=> x.hySlope # NaN /\ x.hyPct # NaN
              /\ Known(x, {"hyPct", "hySlope"}) <=> x.hySlope # NaN /\ x.hyPct # NaN
              /\ Known(x, {"hyPct", "hySlope", "igSlope"})
                    <=> x.hySlope # NaN /\ x.hyPct # NaN /\ x.igSlope # NaN
  BY DEF Known
<1>11. \A f \in {"hyPct", "hySlope", "igSlope"} : r[f] = NaN <=> s[f] = NaN
  BY <1>1 DEF CreditFields
<1>12. SpreadWidening(r) => SpreadWidening(s)
  BY <1>8, <1>10, <1>11 DEF SpreadWidening
<1>13. CreditDivergence(r) => CreditDivergence(s) \/ SpreadWidening(s)
  BY <1>3, <1>8, <1>9, <1>10, <1>11 DEF CreditDivergence, SpreadWidening
<1>14. ASSUME CreditRecovery(s) \/ CreditCalm(s), ~ SpreadWidening(r)
       PROVE  CreditRecovery(r) \/ CreditCalm(r) \/ CreditDivergence(r)
  <2>1. Known(r, {"hyPct", "hySlope"}) /\ Known(r, {"hySlope", "hyPct"})
    BY <1>10, <1>11, <1>14 DEF CreditRecovery, CreditCalm
  <2>2. CASE CreditCalm(s)
    BY <1>8, <2>1, <2>2 DEF CreditCalm
  <2>3. CASE CreditRecovery(s)
    <3>1. r.hyPct \in Int /\ r.hySlope \in Int /\ r.hySlope < 0
      BY <1>8, <1>10, <2>1, <2>3 DEF CreditRecovery
    <3> QED
      BY <1>3, <2>1, <3>1 DEF CreditRecovery, CreditCalm
  <2> QED
    BY <1>14, <2>2, <2>3
<1> QED
  BY <1>5, <1>6, <1>7, <1>12, <1>13, <1>14, CreditIsRanked

(***************************************************************************)
(* Volatility: worse returns, a higher volatility or a higher VIX.         *)
(***************************************************************************)
Crisis(r) ==
  \/ r.ret1 <= -5 \/ r.ret5 <= -8 \/ (r.volPct >= 90 /\ r.ret21 <= -5)
  \/ (r.vixPct # NaN /\ r.vixPct >= 95)
High(r) == r.volPct >= 80 \/ (r.vixPct # NaN /\ r.vixPct >= 80)
VolReadings == {"ret1", "ret5", "ret21", "volPct"}

LEMMA VolIsRanked ==
  ASSUME NEW r
  PROVE  VolRank[VolLabel(r)] =
           IF (Known(r, VolReadings) /\ Crisis(r)) \/ VolCrush(r) THEN 3
           ELSE IF ~ Known(r, VolReadings) \/ High(r) \/ RisingVol(r) THEN 2
           ELSE IF r.volPct <= 30 THEN 0 ELSE 1
<1>1. VolV1(r) = IF ~ Known(r, VolReadings) THEN "unknown"
                 ELSE IF Crisis(r) THEN "crisis_vol" ELSE IF High(r) THEN "high_vol"
                 ELSE IF r.volPct <= 30 THEN "low_vol" ELSE "normal_vol"
  <2> DEFINE low == r.volPct <= 30
             rules == << <<Crisis(r), "crisis_vol">>, <<High(r), "high_vol">>,
                         <<low, "low_vol">> >>
  <2>1. VolV1(r) = IF ~ Known(r, VolReadings) THEN "unknown"
                   ELSE FirstMatch(rules, "normal_vol")
    BY DEF VolV1, VolReadings, Crisis, High
  <2> HIDE DEF low
  <2>2. /\ DOMAIN rules = 1 .. 3
        /\ rules[1][1] = Crisis(r) /\ rules[2][1] = High(r) /\ rules[3][1] = low
        /\ rules[1][2] = "crisis_vol" /\ rules[2][2] = "high_vol" /\ rules[3][2] = "low_vol"
    OBVIOUS
  <2> HIDE DEF rules
  <2>3. FirstMatch(rules, "normal_vol")
          = IF Crisis(r) THEN "crisis_vol" ELSE IF High(r) THEN "high_vol"
            ELSE IF low THEN "low_vol" ELSE "normal_vol"
    BY <2>2, MatchThree
  <2> QED
    BY <2>1, <2>3 DEF low
<1>2. VolLabel(r) = IF VolV1(r) # "crisis_vol" /\ VolCrush(r) THEN "vol_crush"
                    ELSE IF VolV1(r) \notin {"crisis_vol", "high_vol"} /\ RisingVol(r)
                    THEN "rising_vol" ELSE VolV1(r)
  <2> DEFINE crush == VolV1(r) # "crisis_vol" /\ VolCrush(r)
             rising == VolV1(r) \notin {"crisis_vol", "high_vol"} /\ RisingVol(r)
             rules == << <<crush, "vol_crush">>, <<rising, "rising_vol">> >>
  <2>1. VolLabel(r) = FirstMatch(rules, VolV1(r))
    BY DEF VolLabel
  <2> HIDE DEF crush, rising
  <2>2. /\ DOMAIN rules = 1 .. 2
        /\ rules[1][1] = crush /\ rules[2][1] = rising
        /\ rules[1][2] = "vol_crush" /\ rules[2][2] = "rising_vol"
    OBVIOUS
  <2> HIDE DEF rules
  <2>3. VolLabel(r) = IF crush THEN "vol_crush" ELSE IF rising THEN "rising_vol" ELSE VolV1(r)
    BY <2>1, <2>2, MatchTwo
  <2> QED
    BY <2>3 DEF crush, rising
<1> QED
  BY <1>1, <1>2 DEF VolRank

LEMMA VolWorsens ==
  ASSUME NEW r, NEW s,
         \A f \in {"volPct", "vixPct"} : Rises(r[f], s[f]),
         \A f \in {"ret1", "ret5", "ret21"} : Rises(s[f], r[f]),
         \A f \in {"atrRatio", "vol10", "vol21", "vol63", "ivChange", "eventJustPassed"} :
            s[f] = r[f]
  PROVE  VolRank[VolLabel(s)] >= VolRank[VolLabel(r)]
<1>1. \A f \in {"ret1", "ret5", "ret21", "volPct", "vixPct"} : r[f] = NaN <=> s[f] = NaN
  BY NumbersStay
<1>2. Known(r, VolReadings) <=> Known(s, VolReadings)
  BY <1>1 DEF Known, VolReadings
<1>3. VolCrush(r) = VolCrush(s) /\ RisingVol(r) = RisingVol(s)
  BY DEF VolCrush, RisingVol, Known
<1>4. Crisis(r) => Crisis(s)
  BY <1>1 DEF Crisis, Rises
<1>5. High(r) => High(s)
  BY <1>1 DEF High, Rises
<1>6. s.volPct <= 30 => r.volPct <= 30
  BY DEF Rises
<1> QED
  BY <1>2, <1>3, <1>4, <1>5, <1>6, VolIsRanked

(***************************************************************************)
(* Volume: more of it, a worse return, wider gaps or ranges.               *)
(***************************************************************************)
LEMMA VolumeIsRanked ==
  ASSUME NEW r
  PROVE  VolumeRank[VolumeLabel(r)] =
           IF Panic(r) THEN 3 ELSE IF GapPath(r) # "none" THEN 2
           ELSE IF Known(r, {"volumeZ", "ret1"}) /\ GapsRanked(r) THEN 0 ELSE 1
<1> DEFINE gaps == GapPath(r) # "none"
           seen == Known(r, {"volumeZ", "ret1"}) /\ GapsRanked(r)
           rules == << <<Panic(r), "panic_volume">>, <<gaps, "liquidity_gap_behavior">>,
                       <<seen, "normal_volume">> >>
<1>1. VolumeLabel(r) = FirstMatch(rules, "unknown")
  BY DEF VolumeLabel
<1> HIDE DEF gaps, seen
<1>2. /\ DOMAIN rules = 1 .. 3
      /\ rules[1][1] = Panic(r) /\ rules[2][1] = gaps /\ rules[3][1] = seen
      /\ rules[1][2] = "panic_volume" /\ rules[2][2] = "liquidity_gap_behavior"
      /\ rules[3][2] = "normal_volume"
  OBVIOUS
<1> HIDE DEF rules
<1>3. VolumeLabel(r) = IF Panic(r) THEN "panic_volume"
                       ELSE IF gaps THEN "liquidity_gap_behavior"
                       ELSE IF seen THEN "normal_volume" ELSE "unknown"
  BY <1>1, <1>2, MatchThree
<1> QED
  BY <1>3 DEF VolumeRank, gaps, seen

LEMMA VolumeWorsens ==
  ASSUME NEW r, NEW s,
         \A f \in {"volumeZ", "gapPct", "rangePct"} : Rises(r[f], s[f]),
         Rises(s.ret1, r.ret1), \A f \in {"gaps", "range"} : s[f] = r[f]
  PROVE  VolumeRank[VolumeLabel(s)] >= VolumeRank[VolumeLabel(r)]
<1>1. \A f \in {"volumeZ", "ret1", "gapPct", "rangePct"} : r[f] = NaN <=> s[f] = NaN
  BY NumbersStay
<1>2. /\ Known(r, {"volumeZ", "ret1"}) <=> Known(s, {"volumeZ", "ret1"})
      /\ GapsRanked(r) <=> GapsRanked(s)
  BY <1>1 DEF Known, GapsRanked
<1>3. {VolumeT.zscore, VolumeT.ret1, VolumeT.gapPct, VolumeT.rangePct} \subseteq Int
  BY ThresholdAssumption DEF VolumeSchema, Positive, Negative, Shares, Share
<1>4. Panic(r) => Panic(s)
  BY <1>2, <1>3 DEF Panic, Rises
<1>5. GapPath(r) # "none" => GapPath(s) # "none"
  BY <1>2, <1>3 DEF GapPath, Known, Rises
<1> QED
  BY <1>2, <1>4, <1>5, VolumeIsRanked

(***************************************************************************)
(* The network: a higher volatility, concentration or VIX.                 *)
(***************************************************************************)
LEMMA NetworkWorsens ==
  ASSUME NEW r, NEW s, NEW b, NEW v, NEW c,
         \A f \in {"volPct", "eigPct", "vixPct"} : Rises(r[f], s[f]),
         \A f \in NetworkFields \ {"volPct", "eigPct", "vixPct"} : s[f] = r[f]
  PROVE  NetworkRank[NetworkLabel(s, b, v, c)] >= NetworkRank[NetworkLabel(r, b, v, c)]
<1> DEFINE Top == {"systemic_stress", "systemic_stress_unconfirmed", "correlation_to_one"}
           Low == DOMAIN NetworkRank \ Top
<1>1. \A x : NetworkLabel(x, b, v, c) = FirstMatch(NetworkTable(x, b, v, c), "unknown")
  BY DEF NetworkLabel, NetworkTable
<1>2. \A f \in NetworkFields : r[f] = NaN <=> s[f] = NaN
  BY NumbersStay
<1>3. \A S \in SUBSET NetworkFields : Known(r, S) <=> Known(s, S)
  BY <1>2 DEF Known
<1>4. {NetworkT.oneVol, NetworkT.concEig} \subseteq Int
  BY ThresholdAssumption DEF NetworkSchema, Shares, Share
<1>5. CorrelationToOne(r) => CorrelationToOne(s)
  BY <1>3, <1>4 DEF CorrelationToOne, CorrelatedByPercentile, CorrelatedInColdStart, Rises,
                    NetworkFields
<1>6. Concentration(r) => Concentration(s)
  BY <1>2, <1>4 DEF Concentration, Rises, NetworkFields
<1>7. /\ \A l \in Top : NetworkRank[l] = 3
      /\ \A l \in Low : NetworkRank[l] <= 2
      /\ \A l \in DOMAIN NetworkRank : NetworkRank[l] \in 0 .. 3
      /\ NetworkRank["correlation_concentration"] = 2
  BY DEF NetworkRank
<1>8. \A x : NetworkLabel(x, b, v, c) \in DOMAIN NetworkRank
  BY NetworkSays
<1>9. \A x : ~ CorrelationToOne(x) =>
        /\ SystemicStress(x, b, c) = FALSE /\ SystemicUnconfirmed(x, b, c) = FALSE
        /\ CorrelationToOne(x) = FALSE
  BY DEF SystemicStress, SystemicUnconfirmed, SystemicGates, CorrelationToOne
<1>10. CASE CorrelationToOne(s)
  <2>1. FiresBy(NetworkTable(s, b, v, c), 3, Top)
    BY <1>10 DEF FiresBy, NetworkTable
  <2> HIDE DEF Top, Low
  <2>2. NetworkLabel(s, b, v, c) \in Top
    BY <1>1, <2>1, FirstMatchBy
  <2> QED
    BY <1>7, <1>8, <2>2
<1>11. CASE ~ CorrelationToOne(s) /\ Concentration(s)
  <2>1. FiresBy(NetworkTable(s, b, v, c), 4, Top \cup {"correlation_concentration"})
    BY <1>11 DEF FiresBy, NetworkTable
  <2>2. NetworkLabel(s, b, v, c) \in Top \cup {"correlation_concentration"}
    <3> HIDE DEF Top
    <3> QED
      BY <1>1, <2>1, FirstMatchBy
  <2>3. NetworkLabel(r, b, v, c) \in Low
    <3>1. FiresIn(NetworkTable(r, b, v, c), Low)
      BY <1>5, <1>9, <1>11 DEF FiresIn, NetworkTable, NetworkRank
    <3>2. "unknown" \in Low
      BY DEF NetworkRank
    <3> HIDE DEF Low
    <3> QED
      BY <1>1, <3>1, <3>2, FirstMatchFires
  <2> HIDE DEF Top, Low
  <2> QED
    BY <1>7, <1>8, <2>2, <2>3
<1>12. CASE ~ CorrelationToOne(s) /\ ~ Concentration(s)
  <2>1. /\ Concentration(r) = FALSE /\ Concentration(s) = FALSE
    BY <1>6, <1>12 DEF Concentration
  <2>2. /\ RisingFragility(r, b) = RisingFragility(s, b) /\ Dispersed(r) = Dispersed(s)
        /\ RotationWatch(r) = RotationWatch(s) /\ Decorrelated(r) = Decorrelated(s)
        /\ DiversifiedNormal(r) = DiversifiedNormal(s)
    BY DEF RisingFragility, Dispersed, RotationWatch, Decorrelated, DiversifiedNormal, Known,
           NetworkFields
  <2>3. NetworkTable(r, b, v, c) = NetworkTable(s, b, v, c)
    BY <1>5, <1>9, <1>12, <2>1, <2>2 DEF NetworkTable
  <2> HIDE DEF Top, Low
  <2> QED
    BY <1>1, <1>7, <1>8, <2>3
<1> QED
  BY <1>10, <1>11, <1>12

(***************************************************************************)
(* The step.                                                               *)
(***************************************************************************)
Ranked == {"vol", "volume", "network", "credit"}

LEMMA RankedReadings == DOMAIN Worse = Ranked
BY DEF Worse, Ranked

(* What changes in a step that makes a reading worse.                      *)
Worsens(f) ==
  /\ heard' = heard /\ axis' = axis /\ DOMAIN reading' = DOMAIN reading
  /\ f \in DOMAIN reading /\ reading[f] \in Int /\ reading'[f] \in Int
  /\ \A g \in DOMAIN reading : g # f => reading'[g] = reading[g]
  /\ IF Worse[axis][f] = 1 THEN reading[f] <= reading'[f] ELSE reading'[f] <= reading[f]

LEMMA WorseStep ==
  ASSUME AxisInv, [AxisNext]_axisVars, heard' = heard, axis \in DOMAIN Worse,
         NEW f \in DOMAIN reading \cap DOMAIN Worse[axis],
         NaN \notin {reading[f], reading'[f]},
         Worse[axis][f] * (reading'[f] - reading[f]) > 0
  PROVE  Worsens(f)
<1>1. AxisInv'
  BY AxisStepInv
<1>2. Worse[axis][f] \in {1, -1}
  BY DEF Worse
<1>3. /\ axis \in Axes /\ f \in DOMAIN Values[axis]
      /\ Values[axis][f] \subseteq Int \cup {NaN} /\ reading[f] \in Values[axis][f] \cup {NaN}
  BY AxisAssumption DEF AxisInv
<1>4. reading[f] \in Int
  BY <1>3
<1>5. reading' # reading
  BY <1>2, <1>4
<1>6. PICK g \in DOMAIN reading : Lose(g) \/ \E v \in Values[axis][g] : Observe(g, v)
  BY <1>5 DEF AxisNext, axisVars, Hear
<1>7. /\ axis' = axis /\ DOMAIN reading' = DOMAIN reading
      /\ \A h \in DOMAIN reading : h # g => reading'[h] = reading[h]
  BY <1>6 DEF Lose, Observe
<1>8. g = f
  BY <1>2, <1>4, <1>7
<1>9. reading'[f] \in Int
  BY <1>1, <1>3, <1>7 DEF AxisInv
<1> QED
  BY <1>2, <1>4, <1>7, <1>8, <1>9 DEF Worsens

LEMMA ReadingsRise ==
  ASSUME NEW f, Worsens(f), axis \in DOMAIN Worse, f \in DOMAIN Worse[axis]
  PROVE  \A g : /\ g # f => ScalarAt(reading', g) = ScalarAt(reading, g)
                /\ g \in DOMAIN reading =>
                     reading'[g] = ScalarAt(reading', g) /\ reading[g] = ScalarAt(reading, g)
                /\ g \in DOMAIN Worse[axis] =>
                     IF Worse[axis][g] = 1
                     THEN Rises(ScalarAt(reading, g), ScalarAt(reading', g))
                     ELSE Rises(ScalarAt(reading', g), ScalarAt(reading, g))
BY DEF Worsens, ScalarAt, Rises

LEMMA WorseKeepsRank ==
  ASSUME AxisInv, [AxisNext]_axisVars, NEW f, Worsens(f), axis \in DOMAIN Worse,
         f \in DOMAIN Worse[axis]
  PROVE  Risk(label') >= Risk(label)
<1>1. AxisInv'
  BY AxisStepInv
<1>2. /\ label = LabelOf(axis, reading, heard) /\ label' = LabelOf(axis, reading', heard)
      /\ axis \in Axes /\ DOMAIN reading = DOMAIN Values[axis]
      /\ DOMAIN reading' = DOMAIN reading
  BY <1>1 DEF AxisInv, Worsens
<1>3. CASE axis = "vol"
  <2>1. /\ RankOf(axis) = VolRank /\ label = VolLabel(reading) /\ label' = VolLabel(reading')
    BY <1>2, <1>3 DEF LabelOf, RankOf
  <2>2. {"ret1", "ret5", "ret21", "volPct", "vixPct", "atrRatio", "vol10", "vol21", "vol63",
         "ivChange", "eventJustPassed"} \subseteq DOMAIN reading
    BY <1>2, <1>3, AxisAssumption DEF Required, Optional
  <2>3. /\ \A g \in {"volPct", "vixPct"} : Rises(reading[g], reading'[g])
        /\ \A g \in {"ret1", "ret5", "ret21"} : Rises(reading'[g], reading[g])
        /\ \A g \in {"atrRatio", "vol10", "vol21", "vol63", "ivChange", "eventJustPassed"} :
              reading'[g] = reading[g]
    BY <1>3, <2>2, ReadingsRise DEF Worse
  <2>4. VolRank[VolLabel(reading')] >= VolRank[VolLabel(reading)]
    BY <2>3, VolWorsens
  <2> QED
    BY <2>1, <2>4 DEF Risk
<1>4. CASE axis = "volume"
  <2>1. /\ RankOf(axis) = VolumeRank /\ label = VolumeLabel(reading)
        /\ label' = VolumeLabel(reading')
    BY <1>2, <1>4 DEF LabelOf, RankOf
  <2>2. {"volumeZ", "ret1", "gapPct", "rangePct", "gaps", "range"} \subseteq DOMAIN reading
    BY <1>2, <1>4, AxisAssumption DEF Required, Optional
  <2>3. /\ \A g \in {"volumeZ", "gapPct", "rangePct"} : Rises(reading[g], reading'[g])
        /\ Rises(reading'.ret1, reading.ret1)
        /\ \A g \in {"gaps", "range"} : reading'[g] = reading[g]
    BY <1>4, <2>2, ReadingsRise DEF Worse
  <2>4. VolumeRank[VolumeLabel(reading')] >= VolumeRank[VolumeLabel(reading)]
    BY <2>3, VolumeWorsens
  <2> QED
    BY <2>1, <2>4 DEF Risk
<1>5. CASE axis = "network"
  <2> DEFINE x == NetworkReading(reading)
             y == NetworkReading(reading')
             Label(z) == NetworkLabel(z, heard.breadth, heard.vol, heard.credit)
  <2>1. RankOf(axis) = NetworkRank /\ label = Label(x) /\ label' = Label(y)
    BY <1>2, <1>5 DEF LabelOf, RankOf
  <2>2. \A g \in NetworkFields : x[g] = ScalarAt(reading, g) /\ y[g] = ScalarAt(reading', g)
    BY DEF NetworkReading
  <2>3. /\ \A g \in {"volPct", "eigPct", "vixPct"} : Rises(x[g], y[g])
        /\ \A g \in NetworkFields \ {"volPct", "eigPct", "vixPct"} : y[g] = x[g]
    BY <1>5, <2>2, ReadingsRise DEF Worse, NetworkFields
  <2> HIDE DEF x, y
  <2>4. NetworkRank[Label(y)] >= NetworkRank[Label(x)]
    BY <2>3, NetworkWorsens
  <2> QED
    BY <2>1, <2>4 DEF Risk
<1>6. CASE axis = "credit"
  <2> DEFINE x == CreditReading(reading)
             y == CreditReading(reading')
  <2>1. RankOf(axis) = CreditRank /\ label = CreditLabel(x) /\ label' = CreditLabel(y)
    BY <1>2, <1>6 DEF LabelOf, RankOf
  <2>2. \A g \in CreditFields : x[g] = ScalarAt(reading, g) /\ y[g] = ScalarAt(reading', g)
    BY DEF CreditReading
  <2>3. /\ \A g \in {"hyPct", "hySlope", "igSlope", "usdZ", "fundingSlope", "volPct", "corrPct"} :
              Rises(x[g], y[g])
        /\ \A g \in {"spy", "tlt"} : Rises(y[g], x[g])
        /\ \A g \in {"vol", "corr"} : y[g] = x[g]
    BY <1>6, <2>2, ReadingsRise DEF Worse, CreditFields
  <2>4. \A g \in {"hyPct", "hySlope"} : x[g] \in Int \cup {NaN}
    BY <1>2, <1>6, <2>2, AxisAssumption DEF ScalarAt, Worse, CreditFields, AxisInv
  <2> HIDE DEF x, y
  <2>5. CreditRank[CreditLabel(y)] >= CreditRank[CreditLabel(x)]
    BY <2>3, <2>4, CreditWorsens
  <2> QED
    BY <2>1, <2>5 DEF Risk
<1> QED
  BY <1>3, <1>4, <1>5, <1>6, RankedReadings DEF Ranked

(* For every threshold table of the schema and every reading, a reading    *)
(* that moves towards stress does not calm the label of its axis           *)
(* (volatility_state_rules, volume_liquidity_rules, network_fragility_rules,*)
(* credit_funding_rules).                                                  *)
THEOREM WorseIsNotCalmer == AxisSpec => WorseNeverCalmer
<1>1. AxisInv /\ [AxisNext]_axisVars =>
        [(/\ heard' = heard /\ axis \in DOMAIN Worse
          /\ \E f \in DOMAIN reading \cap DOMAIN Worse[axis] :
               /\ NaN \notin {reading[f], reading'[f]}
               /\ Worse[axis][f] * (reading'[f] - reading[f]) > 0)
         => Risk(label') >= Risk(label)]_axisVars
  BY WorseStep, WorseKeepsRank
<1> QED
  BY <1>1, AxisInvariant, PTL DEF AxisSpec, WorseNeverCalmer
=============================================================================
