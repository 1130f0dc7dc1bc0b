----------------------------- MODULE Thresholds -----------------------------
(***************************************************************************)
(* The thresholds of the rule tables, one record for each rules section of *)
(* the configuration, and what the schema demands of them.  Percentiles,   *)
(* returns and ratios are in percent, z-scores in tenths.                  *)
(***************************************************************************)
EXTENDS Readings

CONSTANTS
  TrendT,      \* trend_direction_v2.rules
  CharacterT,  \* trend_character_v2
  VolT,        \* volatility_state_v2.rules
  BreadthT,    \* breadth_state_v2
  VolumeT,     \* volume_liquidity_state.rules
  NetworkT,    \* network_fragility.rules
  CreditT,     \* credit_funding: rules and staleness limits
  GrowthT,     \* inflation_growth: rules and staleness limits
  MonetaryT    \* monetary_pressure_state.rules

Share == 0..100
Positive(t, S) == \A f \in S : t[f] \in Int /\ t[f] > 0
Negative(t, S) == \A f \in S : t[f] \in Int /\ t[f] < 0
Shares(t, S) == \A f \in S : t[f] \in Share

TrendSchema(t) ==
  /\ Negative(t, {"drawdown"}) /\ Positive(t, {"rebound", "ret126"})
  /\ t.sentiment \in Int

CharacterSchema(t) == Positive(t, {"followthrough", "ret63", "midpoint", "adx"})

VolSchema(t) ==
  /\ Positive(t, {"atrRatio", "volRatio", "crushRatio"}) /\ t.crushRatio < 100
  /\ Negative(t, {"ivChange"})

BreadthSchema(t) == t.nhnl \in 1..99

VolumeSchema(t) ==
  /\ Positive(t, {"zscore", "rawRange"}) /\ Negative(t, {"ret1"})
  /\ Shares(t, {"gapPct", "rangePct", "rawGaps"})
  /\ t.coldStart \in BOOLEAN

(* The cold-start path may not be easier to meet than the percentile one.  *)
NetworkSchema(t) ==
  /\ Shares(t, {"normalLo", "normalHi", "innerLo", "innerHi", "pickerMax",
                "dispersionMin", "concCorr", "concEig", "concRank", "absorption",
                "oneCorr", "oneVol", "coldCorr", "coldEig", "vixMin"})
  /\ Positive(t, {"stability", "coldVol"}) /\ t.drawdown \in Int
  /\ t.coldStart \in BOOLEAN /\ t.relaxed \in BOOLEAN
  /\ t.coldStart => t.coldCorr >= t.oneCorr /\ t.coldEig >= t.concEig

CreditSchema(t) ==
  /\ Shares(t, {"calmMax", "stressMin", "volPct", "corrPct", "coldCorr"})
  /\ {t.spyDrop, t.usdDeleveraging} \subseteq Int /\ t.spyDrop <= 0
  /\ Positive(t, {"usdFunding", "coldVol", "nfciStale", "etfStale"})
  /\ t.coldStart \in BOOLEAN /\ t.hyOnly \in BOOLEAN
  /\ t.coldStart => t.coldCorr >= t.corrPct

GrowthSchema(t) ==
  /\ Positive(t, {"drift", "benign", "cpi3m", "commodity", "surprise", "epsUp",
                  "pmiGood", "pmiRecovery", "pmiDisinflation",
                  "cpiStale", "pmiStale", "dgs10Stale", "epsStale", "nowcastStale"})
  /\ Negative(t, {"epsDown", "spyConfirmed", "spyIndependent"})
  /\ t.yieldIndependent \in BOOLEAN /\ t.creditFallback \in BOOLEAN

MonetarySchema(t) == Positive(t, {"tightening", "shock"}) /\ Negative(t, {"easing"})

ASSUME ThresholdAssumption ==
  /\ TrendSchema(TrendT) /\ CharacterSchema(CharacterT) /\ VolSchema(VolT)
  /\ BreadthSchema(BreadthT) /\ VolumeSchema(VolumeT) /\ NetworkSchema(NetworkT)
  /\ CreditSchema(CreditT) /\ GrowthSchema(GrowthT) /\ MonetarySchema(MonetaryT)
=============================================================================
