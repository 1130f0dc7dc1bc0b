--------------------------- MODULE SessionPipeline ---------------------------
(***************************************************************************)
(* From a request to constraints (engine, feature store, axis_series,      *)
(* axis_builders and timeline).  A request is refused or its features are  *)
(* built; sessions before the first one it wants only warm the memories    *)
(* up.  In a session every axis grades its data, classifies, passes through its   *)
(* label memory and publishes a row; later axes hear the active labels of  *)
(* earlier ones; the labels choose a transition state, a cohort, a         *)
(* response and the effective constraints.                                 *)
(*                                                                         *)
(* The label memory is abstracted to what LabelHysteresis promises: after  *)
(* a classified session the stable label is the raw one or the old one.    *)
(* The transition state is abstracted to what TransitionRisk promises.     *)
(***************************************************************************)
EXTENDS RuleBook, AxisQuality, TransitionScore, StrategyRules, FeatureStore

CONSTANTS
  Days,       \* the sessions explored: readings, windows, ages, events, score
  Requests,   \* the requests a client may make
  KeepSets,   \* the sets of axes whose stable label may outlive a session
  Hold,       \* the longest hold of a label through forced sessions
  RiskStates  \* transition states other than crisis and insufficient_data

MarketAxes == {"trend", "character", "vol", "breadth"}
OptionalAxes == {"network", "volume", "oas", "proxy", "monetary", "growth"}

Outputs ==
  [raw : Labels, stable : Labels, active : Labels, status : Statuses, class : Classes]

(* None is neither a row nor the reason why nothing is answered yet; the   *)
(* sections of routing come together.                                      *)
ASSUME PipelineAssumption ==
  /\ None \notin Outputs /\ None # "no_request"
  /\ \A r \in Requests :
       /\ IsConfig(r)
       /\ "cohort_routing" \in r.sections <=> "strategy_family_constraints" \in r.sections
  /\ Hold \in Nat

VARIABLES
  request, \* the request being answered, or None
  wired,   \* the axes built for it
  policy,  \* feature -> its policy in the availability report
  memory,  \* axis -> stable label, last known labels, length of the gap
  out,     \* axis -> the row of the last session
  risk,    \* the transition state of the last session
  events,  \* the matching event labels of the last session
  failed   \* why the request was refused, or None

vars == <<request, wired, policy, memory, out, risk, events, failed>>

Fresh == [stable |-> None, known |-> None, knownActive |-> None, gap |-> 0]

NoRow == [raw |-> None, stable |-> None, active |-> None, status |-> None, class |-> None]

----------------------------------------------------------------------------
(* One axis of one session.                                                *)

(* Trend, character and volatility let the raw label count against the     *)
(* window, breadth looks at it first, the others do not look at it.        *)
MarketStatus(window, raw) == Assess(window, raw)

BreadthStatus(window, raw) ==
  IF raw = "unknown" THEN "insufficient_history" ELSE Assess(window, raw)

WindowStatus(window) == Assess(window, None)

StatusOf(a, day, raw) ==
  CASE a \in {"trend", "character", "vol"} -> MarketStatus(day.window[a], raw)
    [] a = "breadth" -> BreadthStatus(day.window[a], raw)
    [] a \in {"volume", "network", "monetary"} -> WindowStatus(day.window[a])
    [] a \in {"oas", "proxy"} ->
         CreditQuality(day.age, a, CreditT, day.window[a], day.reading[a].hyPct # NaN)
    [] a = "growth" -> GrowthQuality(day.age, GrowthT, day.window[a])

(* What the features of version 2 add to the readings of the market axes,  *)
(* and the labels of trend character that only version 2 gives.            *)
V2Readings ==
  [trend |-> {"drawdown252", "ret126", "vol", "volBack", "sentiment"},
   character |-> {"followthrough", "midpoint"},
   vol |-> {"atrRatio", "vol10", "vol21", "vol63", "ivChange"},
   breadth |-> {"above50", "above50Back", "above200", "above200Back", "nhnl", "nhnlBack",
                "adSlope", "thrust", "thrustLow"}]

Offered(a, r) ==
  IF request.version = 1 /\ a \in MarketAxes
  THEN [f \in DOMAIN r |-> IF f \in V2Readings[a] THEN NaN ELSE r[f]]
  ELSE r

Spoken(raw) ==
  IF request.version = 1 /\ raw \in {"mild_trend", "volatile_chop"} THEN "transition" ELSE raw

(* Growth drops a nowcast or an earnings revision that has grown old;      *)
(* trend reads the score of the sentiment survey.                          *)
ReadingOf(a, day) ==
  CASE a = "growth" ->
         [day.reading[a] EXCEPT
            !.surprise = IF day.age.nowcast > GrowthT.nowcastStale THEN NaN ELSE @,
            !.eps = IF day.age.eps > GrowthT.epsStale THEN NaN ELSE @]
    [] a = "trend" -> [day.reading[a] EXCEPT !.sentiment = SentimentScore(day.survey)]
    [] OTHER -> day.reading[a]

ActiveLabel(a, stable, raw) ==
  IF RankOf(a)[raw] > RankOf(a)[stable] THEN raw ELSE stable

Row(raw, stable, active, status, missing) ==
  [raw |-> raw, stable |-> stable, active |-> active, status |-> status,
   class |-> Classification(status, raw, stable, active, missing)]

(* A plausible slip: the last known active label is taken for the stable one. *)
ClassifiedAxisRemembersStable(a, m, raw, status, keep, missing) ==
  LET stable == IF keep /\ m.stable # None THEN m.stable ELSE raw
      active == ActiveLabel(a, stable, raw)
      known == "unknown" \notin {raw, stable}
  IN [memory |-> [stable |-> stable, gap |-> 0,
                  known |-> IF known THEN stable ELSE m.known,
                  knownActive |-> IF known THEN stable ELSE m.knownActive],
      row |-> Row(raw, stable, active, status, missing)]

ClassifiedAxis(a, m, raw, status, keep, missing) ==
  LET stable == IF keep /\ m.stable # None THEN m.stable ELSE raw
      active == ActiveLabel(a, stable, raw)
      known == "unknown" \notin {raw, stable}
  IN [memory |-> [stable |-> stable, gap |-> 0,
                  known |-> IF known THEN stable ELSE m.known,
                  knownActive |-> IF known THEN active ELSE m.knownActive],
      row |-> Row(raw, stable, active, status, missing)]

HeldAxis(m, raw, status) ==
  [memory |-> [m EXCEPT !.gap = @ + 1],
   row |-> Row(raw, m.known, m.knownActive, status, FALSE)]

ForgottenAxis(raw, status) ==
  [memory |-> [Fresh EXCEPT !.stable = "unknown"],
   row |-> Row(raw, "unknown", "unknown", status, FALSE)]

(* build_per_label_axis_outputs for one axis: classified, held or forgotten. *)
GradedAxis(a, m, raw, status, keep, missing) ==
  IF ~ForcesUnknown(status) THEN ClassifiedAxis(a, m, raw, status, keep, missing)
  ELSE LET shown == IF a = "breadth" THEN raw ELSE "unknown"
       IN IF m.known # None /\ m.gap + 1 <= Hold THEN HeldAxis(m, shown, status)
          ELSE ForgottenAxis(shown, status)

(* The readings whose loss is never given as the reason of an unknown: a   *)
(* market axis reports that its history is short, the evidence of others   *)
(* leaves some out, and three are not binding.                             *)
Unreported(a, reading) ==
  CASE a \in MarketAxes -> DOMAIN reading
    [] a = "network" -> {"corrSlope", "eigSlope"}
    [] a \in {"oas", "proxy"} -> {"usdZ"}
    [] a = "growth" -> {"cpi3m", "surprise", "eps"}
    [] OTHER -> {}

MissesFeature(a, reading) ==
  \E f \in DOMAIN reading \ Unreported(a, reading) : reading[f] = NaN

RuledAxis(a, m, day, raw, keep, reading) ==
  GradedAxis(a, m, raw, StatusOf(a, day, raw), keep, MissesFeature(a, reading))

AxisStep(a, m, day, heard, keep) ==
  LET reading == Offered(a, ReadingOf(a, day))
  IN RuledAxis(a, m, day, Spoken(LabelOf(a, reading, heard)), keep, reading)

----------------------------------------------------------------------------
(* The session: axes in their build order.                                 *)

CreditOf(rows) ==
  IF rows["oas"] = None /\ rows["proxy"] = None THEN None
  ELSE EffectiveCredit(rows["oas"], rows["proxy"], CreditRank)

RowOf(rows, a) == IF a \in DOMAIN rows THEN rows[a] ELSE None
ActiveOfRow(row) == IF row = None THEN None ELSE row.active

(* What network and growth hear from the axes built before them.           *)
Heard(rows) ==
  [breadth |-> rows["breadth"].active, vol |-> rows["vol"].active,
   credit |-> ActiveOfRow(CreditOf([oas |-> RowOf(rows, "oas"),
                                    proxy |-> RowOf(rows, "proxy")]))]

Deaf == [breadth |-> "unknown", vol |-> "unknown", credit |-> None]

EarlyAxes(day, keep) ==
  [a \in wired \ {"network", "growth"} |->
     AxisStep(a, memory[a], day, Deaf, a \in keep)]

WithLateAxes(early, day, keep) ==
  LET heard == Heard([a \in DOMAIN early |-> early[a].row])
  IN [a \in wired |->
        IF a \in DOMAIN early THEN early[a]
        ELSE AxisStep(a, memory[a], day, heard, a \in keep)]

Session(day, keep) == WithLateAxes(EarlyAxes(day, keep), day, keep)

(* The row of an axis the configuration does not build.  Only network has  *)
(* a placeholder.                                                          *)
Unbuilt(a) ==
  IF a = "network" THEN Row("unknown", "unknown", "unknown", "insufficient_history", FALSE)
  ELSE None

Rows(session) ==
  [a \in MarketAxes \cup OptionalAxes |->
     IF a \in wired THEN session[a].row ELSE Unbuilt(a)]

ScoreComponents(rows, day) ==
  LET credit == CreditOf(rows)
  IN Components(day.score,
                IF credit = None THEN NaN ELSE credit,
                IF rows["volume"] = None THEN NaN ELSE rows["volume"],
                day.events)

AxesKnown(rows) == \A a \in MarketAxes : rows[a].active # "unknown"

(* The states open to a session with complete evidence.                    *)
StatesFor(rows) == IF rows["vol"].active = "crisis_vol" THEN {"crisis"} ELSE RiskStates

(***************************************************************************)
(* Requests.                                                               *)
(***************************************************************************)

(* The axes of a store: the feature and the section of the classifier.     *)
AxesOf(r, store) ==
  LET axisOf ==
        [network |-> {"network_fragility"},
         volume |-> {"volume_liquidity_v2", "volume_liquidity_state"},
         oas |-> {"credit_funding"}, proxy |-> {"credit_funding"},
         monetary |-> {"monetary", "monetary_pressure_v2", "monetary_pressure_state"},
         growth |-> {"inflation_growth"}]
  IN MarketAxes \cup
       {a \in OptionalAxes :
          \A part \in axisOf[a] :
             /\ part \in ToSet(Order) => part \in store.built
             /\ part \in RequiredV2 => part \in r.sections}

Init ==
  /\ request = None /\ wired = {} /\ policy = None
  /\ memory = [a \in {} |-> Fresh]
  /\ out = [a \in MarketAxes \cup OptionalAxes |-> NoRow]
  /\ risk = None
  /\ events = {}
  /\ failed = "no_request"

(* The next request starts from an empty memory.                           *)
Answer(r, store) ==
  /\ failed # None /\ Refusal(r, store) = None
  /\ request' = r /\ wired' = AxesOf(r, store) /\ policy' = store.policy
  /\ memory' = [a \in wired' |-> Fresh]
  /\ out' = [a \in MarketAxes \cup OptionalAxes |-> NoRow]
  /\ risk' = None /\ events' = {} /\ failed' = None

Refuse(r, store) ==
  /\ failed # None
  /\ failed' = Refusal(r, store) /\ failed' # None
  /\ request' = None /\ wired' = {} /\ policy' = None
  /\ memory' = [a \in {} |-> Fresh]
  /\ out' = [a \in MarketAxes \cup OptionalAxes |-> NoRow]
  /\ risk' = None /\ events' = {}

----------------------------------------------------------------------------
(* Sessions.                                                               *)

Configured(section) == section \in request.sections
Scored == Configured("transition_score")

(* Monetary pressure, once configured, must have a row in every session.   *)
PressureMissing(rows) == Configured("monetary_pressure_state") /\ rows["monetary"] = None

(* A session before the first one wanted: whatever it lacks, it only moves *)
(* the memories.                                                           *)
WarmUp(session) ==
  /\ failed = None /\ risk = None
  /\ memory' = [a \in wired |-> session[a].memory]
  /\ UNCHANGED <<request, wired, policy, out, risk, events, failed>>

Publish(session, day, state) ==
  /\ memory' = [a \in wired |-> session[a].memory]
  /\ out' = Rows(session)
  /\ risk' = state
  /\ events' = day.events
  /\ UNCHANGED <<request, wired, policy, failed>>

(* A session with a score; the request wants every row of it.              *)
ScoredSession(session, day) ==
  LET rows == Rows(session)
  IN /\ failed = None /\ Scored /\ AxesKnown(rows) /\ ~PressureMissing(rows)
     /\ ScoreFlags(ScoreComponents(rows, day)) # NaN
     /\ \E state \in StatesFor(rows) : Publish(session, day, state)

(* Without a score section an unknown axis is a state of its own.          *)
UnscoredSession(session, day) ==
  LET rows == Rows(session)
  IN /\ failed = None /\ ~Scored /\ ~PressureMissing(rows)
     /\ \E state \in (IF AxesKnown(rows) THEN StatesFor(rows) ELSE {"insufficient_data"}) :
          Publish(session, day, state)

(* With a score section a missing axis or component raises; so does, in    *)
(* every case, monetary pressure that is configured and was not built.  The*)
(* whole request fails with it.                                            *)
RefusedSession(session, day) ==
  LET rows == Rows(session)
  IN /\ failed = None
     /\ failed' = IF Scored /\ ~AxesKnown(rows) THEN "axis_data_quality"
                  ELSE IF Scored /\ ScoreValue(ScoreComponents(rows, day)) = NaN
                  THEN "transition_score"
                  ELSE IF PressureMissing(rows) THEN "monetary_pressure" ELSE None
     /\ failed' # None
     /\ UNCHANGED <<request, wired, policy, memory, out, risk, events>>

Next ==
  \/ \E day \in Days, keep \in KeepSets :
       failed = None /\ \E session \in {Session(day, keep)} :
          \/ WarmUp(session)
          \/ ScoredSession(session, day)
          \/ UnscoredSession(session, day)
          \/ RefusedSession(session, day)
  \/ \E r \in Requests : \E store \in {Store(r)} : Answer(r, store) \/ Refuse(r, store)

Spec == Init /\ [][Next]_vars

----------------------------------------------------------------------------
(* The published session.                                                  *)

Published == risk # None

LabelsOf(rows) ==
  [a \in MarketAxes \cup {"network", "monetary"} |-> ActiveOfRow(rows[a])]

(* Events modify the response, and a cohort constrains it, only where their*)
(* sections are configured.                                                *)
ResponseTo(labels) ==
  IF Configured("strategy_event_modifiers") THEN StrategyResponse(LabelsOf(out), risk, labels)
  ELSE ResponseBeforeEvents(LabelsOf(out), risk)

Response == ResponseTo(events)
Routed == Configured("cohort_routing")
ActiveCohort == Cohort(LabelsOf(out))
Constraints == Effective(Response, ActiveCohort)

(* The axes of the coverage report; the effective credit output and the    *)
(* transition state are reported beside them.                              *)
CoveredAxes == MarketAxes \cup OptionalAxes

FeatureOf ==
  [trend |-> "trend_direction", character |-> "trend_character", vol |-> "volatility",
   breadth |-> "breadth", network |-> "network_fragility", volume |-> "volume_liquidity_v2",
   oas |-> "credit_funding", proxy |-> "credit_funding", growth |-> "inflation_growth",
   monetary |-> "monetary"]

SafeForDownstream ==
  /\ \A a \in CoveredAxes : AxisSafe(out[a], policy[FeatureOf[a]])
  /\ AxisSafe(CreditOf(out), policy["credit_funding"])
  /\ risk # "insufficient_data"

(* Whatever axes lose their data, a session keeps its cohort or falls into *)
(* the data outage cohort; it is never routed to a regime nobody saw, and  *)
(* a crisis that a remaining axis calls stays a crisis (cohort_routing,    *)
(* evaluate_cohort_routing).  Losing monetary pressure, which only routes, *)
(* may uncover the regime behind it.                                       *)
OutageNeverCalms ==
  Published /\ Routed =>
    \A lost \in SUBSET (MarketAxes \cup {"network", "monetary"}) :
      LET seen == LabelsOf(out)
          left == [a \in DOMAIN seen |->
                     IF a \in lost /\ seen[a] # None THEN "unknown" ELSE seen[a]]
      IN /\ lost # {"monetary"} /\ lost # {} =>
              Cohort(left) \in {ActiveCohort, "data_outage_specialist"}
         /\ (RuleMatches("crisis_specialist", left)) => Cohort(left) = "crisis_specialist"

(* Further event labels on the same session never raise the size, never    *)
(* permit what was forbidden, never drop a demand and never lift a veto    *)
(* (strategy_response, _apply_event_calendar_modifiers).                   *)
EventsOnlyTighten ==
  Published =>
    \A more \in SUBSET UNION {EventRules[i].labels : i \in DOMAIN EventRules} :
      LET tight == ResponseTo(events \cup more)
      IN /\ tight.size <= Response.size
         /\ tight.may \subseteq Response.may /\ Response.must \subseteq tight.must
         /\ Routed => \A f \in DOMAIN Constraints :
              Constraints[f].vetoes \subseteq Effective(tight, ActiveCohort)[f].vetoes

(* The credit label that goes downstream is at least as risky as every     *)
(* credit signal that classified on usable data that day                   *)
(* (resolve_credit_funding_effective_output).                              *)
EffectiveAtLeastSignals ==
  \A a \in {"oas", "proxy"} :
    Published /\ HasSignal(out[a]) =>
      CreditRank[CreditOf(out).active] >= CreditRank[out[a].active]

(* A session is reported safe only when every label in force was made from *)
(* this session's own usable data: none is held over a gap, and none was   *)
(* made by an axis that heard a label from before the gap; and a session of*)
(* a version 2 request lacks none of the axes, whatever inputs the request *)
(* came without (classification_coverage, build_classification_coverage).  *)
SafeMeansUsable ==
  Published /\ SafeForDownstream =>
    /\ \A a \in wired : Usable(out[a].status) /\ memory[a].gap = 0
    /\ request.version = 2 => wired = MarketAxes \cup OptionalAxes

(* When the volatility data are lost on the session after a crisis, the    *)
(* crisis stays in force: the held label still chooses the transition      *)
(* state, the cohort and the size (hysteresis, _hold_limit; timeline).     *)
CrisisIsHeld ==
  [][ (/\ Published /\ risk' # None /\ memory["vol"].gap = 0
       /\ out["vol"].active = "crisis_vol" /\ "unknown" \notin {out["vol"].raw, out["vol"].stable}
       /\ ForcesUnknown(out'["vol"].status))
        => \/ risk' = "insufficient_data"
           \/ /\ risk' = "crisis" /\ (Routed => ActiveCohort' = "crisis_specialist")
              /\ Response'.size <= 25 ]_vars
=============================================================================
