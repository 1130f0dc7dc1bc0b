--------------------------- MODULE TransitionScore ---------------------------
(***************************************************************************)
(* The transition-pressure score of one session: eight components, each a  *)
(* percentage or NaN, weighted and read in bands, and the flags the choice *)
(* of the transition state looks at.                                       *)
(***************************************************************************)
EXTENDS Readings, FiniteSetsExt

CONSTANTS
  Weights,     \* transition_score.weights, in percent
  MinCoverage, \* minimum_component_weight_coverage, in percent
  BandFloors,  \* lower bounds of the bands: [weakening, warning, high]
  Overrides,   \* override thresholds: [credit, corr, macro, elevated]
  Scales       \* normalization scales of the components

ComponentNames ==
  {"trend", "vol", "breadth", "corr", "credit", "liquidity", "macro", "model"}

ASSUME ScoreAssumption ==
  /\ DOMAIN Weights = ComponentNames
  /\ \A c \in ComponentNames : Weights[c] \in 0..100
  /\ MinCoverage \in 1..100
  /\ 0 < BandFloors.weakening /\ BandFloors.weakening < BandFloors.warning
  /\ BandFloors.warning < BandFloors.high /\ BandFloors.high < 100
  /\ \A o \in {"credit", "corr", "macro", "elevated"} : Overrides[o] \in 0..100

Clip(x) == IF x < 0 THEN 0 ELSE IF x > 100 THEN 100 ELSE x

MaxPresent(S) == IF S \ {NaN} = {} THEN NaN ELSE Max(S \ {NaN})

CreditScore ==
  [credit_calm |-> 0, credit_recovery |-> 20, credit_divergence |-> 25,
   spread_widening |-> 45, credit_stress |-> 75, funding_squeeze |-> 90,
   deleveraging |-> 100, unknown |-> NaN]

LiquidityScore ==
  [normal_volume |-> 0, liquidity_gap_behavior |-> 70, panic_volume |-> 100,
   unknown |-> NaN]

MacroEvents ==
  {"fed_week", "cpi_week", "nfp_week", "budget_week", "election_window",
   "global_rate_decision"}

(* A label crosses to the score only from a classified output.             *)
LabelScore(output, scores) ==
  IF output = NaN \/ output.class # "classified" THEN NaN ELSE scores[output.active]

VolAcceleration(r) ==
  IF ~Known(r, {"volShort", "volLong"}) \/ r.volLong = 0 THEN NaN
  ELSE Clip((100 * (((100 * r.volShort) \div r.volLong) - 100)) \div Scales.volRatio)

TrendBreak(r) ==
  LET drawdown == IF r.drawdown252 = NaN THEN NaN
                  ELSE Clip((-100 * r.drawdown252) \div Scales.drawdown)
      belowAverage == IF ~Known(r, {"close", "sma50"}) \/ r.sma50 = 0 THEN NaN
                      ELSE Clip((10000 * (r.sma50 - r.close)) \div (r.sma50 * Scales.maBreak))
  IN MaxPresent({drawdown, belowAverage})

CorrelationFragility(r) ==
  MaxPresent(
    {r.corrPct, r.eigPct,
     IF r.rankPct = NaN THEN NaN ELSE 100 - r.rankPct,
     IF r.absorption = NaN THEN NaN
     ELSE Clip((100 * (r.absorption - Scales.absorptionFloor)) \div Scales.absorptionRange)})

LiquidityStress(r, liquidity) ==
  MaxPresent(
    {LabelScore(liquidity, LiquidityScore), r.gapPct, r.rangePct,
     IF r.volumeZ = NaN THEN NaN
     ELSE Clip((100 * (r.volumeZ - Scales.volumeFloor)) \div Scales.volumeRange)})

(* Model evidence counts whole or not at all: the state probability and    *)
(* the cluster with their values five sessions earlier, and a break score. *)
ModelInstability(r) ==
  IF ~Known(r, {"hmm", "hmmBack", "changePoint", "cluster", "clusterBack"}) THEN NaN
  ELSE MaxPresent({Clip(Magnitude(r.hmm - r.hmmBack)), Clip(r.changePoint),
                   IF r.cluster = r.clusterBack THEN 0 ELSE 100})

Components(r, credit, liquidity, events) ==
  [trend |-> TrendBreak(r),
   vol |-> VolAcceleration(r),
   breadth |-> IF r.above50 = NaN THEN NaN
               ELSE Clip((100 * (Scales.breadthZero - r.above50)) \div Scales.breadthRange),
   corr |-> CorrelationFragility(r),
   credit |-> LabelScore(credit, CreditScore),
   liquidity |-> LiquidityStress(r, liquidity),
   macro |-> IF events \cap MacroEvents # {} THEN 100 ELSE 0,
   model |-> ModelInstability(r)]

Missing(c) == {k \in ComponentNames : c[k] = NaN}

WeightOf(S) == MapThenSumSet(LAMBDA k : Weights[k], S)

Coverage(c) == (100 * WeightOf(ComponentNames \ Missing(c))) \div WeightOf(ComponentNames)

(* The weighted mean of the present components.                            *)
WeightedMean(c) ==
  LET present == ComponentNames \ Missing(c)
  IN Clip(MapThenSumSet(LAMBDA k : Weights[k] * c[k], present) \div WeightOf(present))

(* compute_transition_score: one missing component and the call raises;    *)
(* NoScore stands for that and for a coverage below the minimum.           *)
ScoreValue(c) ==
  IF Missing(c) # {} \/ Coverage(c) < MinCoverage THEN NaN ELSE WeightedMean(c)

Band(score) ==
  IF score < BandFloors.weakening THEN "stable"
  ELSE IF score < BandFloors.warning THEN "weakening"
  ELSE IF score < BandFloors.high THEN "transition_warning" ELSE "high"

(* The event watch asks for a macro event that no other component exceeds. *)
EventWatch(c) ==
  /\ c.macro >= Overrides.macro /\ ScoreValue(c) >= Overrides.elevated
  /\ \A k \in ComponentNames : c[k] <= c.macro

(* What the choice of the transition state reads; NaN: not ready.          *)
ScoreFlags(c) ==
  IF ScoreValue(c) = NaN THEN NaN
  ELSE [band |-> Band(ScoreValue(c)), credit |-> c.credit >= Overrides.credit,
        corr |-> c.corr >= Overrides.corr, event |-> EventWatch(c)]
=============================================================================
