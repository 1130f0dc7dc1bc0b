---------------------------- MODULE NetworkRules ----------------------------
(***************************************************************************)
(* The rules of the network fragility axis: sector correlations read with  *)
(* the active labels of breadth, volatility and effective credit.  A       *)
(* credit label None means that the credit axis is not built; "unknown"    *)
(* is a label like any other.                                              *)
(***************************************************************************)
EXTENDS Thresholds

NetworkRank ==
  [diversified_normal |-> 0, decorrelated_calm |-> 0,
   stock_picker_dispersion |-> 1, rotation_watch |-> 1,
   rising_fragility |-> 2, correlation_concentration |-> 2,
   idiosyncratic_crisis |-> 2, unknown |-> 2,
   correlation_to_one |-> 3, systemic_stress |-> 3,
   systemic_stress_unconfirmed |-> 3]

NetworkFields ==
  {"corrPct", "eigPct", "rankPct", "corr", "eig", "dispersion", "absorption",
   "corrSlope", "eigSlope", "stability", "volPct", "vol", "drawdown", "vixPct"}

(* build_rule_inputs_for_date.                                             *)
NetworkReading(row) == [f \in NetworkFields |-> ScalarAt(row, f)]

(***************************************************************************)
(* Correlation to one: by percentile, or by the raw readings while one of  *)
(* the percentiles warms up.                                               *)
(***************************************************************************)
CorrelatedByPercentile(r) ==
  /\ Known(r, {"corrPct", "volPct", "drawdown"})
  /\ r.corrPct > NetworkT.oneCorr /\ r.volPct > NetworkT.oneVol
  /\ r.drawdown < NetworkT.drawdown

CorrelatedInColdStart(r) ==
  /\ NetworkT.coldStart /\ ~Known(r, {"corrPct", "eigPct", "volPct"})
  /\ Known(r, {"corr", "eig", "vol", "drawdown"})
  /\ r.corr >= NetworkT.coldCorr /\ r.eig >= NetworkT.coldEig
  /\ r.vol >= NetworkT.coldVol /\ r.drawdown < NetworkT.drawdown

CorrelationToOne(r) == CorrelatedByPercentile(r) \/ CorrelatedInColdStart(r)

(* The gates of systemic stress other than credit.                         *)
SystemicGates(r, breadth) ==
  /\ r.vixPct # NaN /\ r.vixPct > NetworkT.vixMin
  /\ CorrelationToOne(r)
  /\ breadth \in {"weak_breadth", "narrowing_breadth"}

SystemicStress(r, breadth, credit) ==
  SystemicGates(r, breadth) /\ credit \in {"credit_stress", "deleveraging"}

SystemicUnconfirmed(r, breadth, credit) ==
  SystemicGates(r, breadth) /\ credit = None

(***************************************************************************)
(* The rules below correlation to one.  Concentration reads whichever of   *)
(* its readings is known.                                                  *)
(***************************************************************************)
Concentration(r) ==
  \/ r.corrPct # NaN /\ r.corrPct > NetworkT.concCorr
  \/ r.eigPct # NaN /\ r.eigPct > NetworkT.concEig
  \/ r.rankPct # NaN /\ r.rankPct < NetworkT.concRank
  \/ r.absorption # NaN /\ r.absorption > NetworkT.absorption

RisingFragility(r, breadth) ==
  /\ Known(r, {"corrSlope", "eigSlope"})
  /\ r.corrSlope > 0 /\ r.eigSlope > 0
  /\ breadth \in {"weak_breadth", "narrowing_breadth", "divergent_fragile"}

Decorrelated(r) ==
  Known(r, {"corrPct", "dispersion"}) /\ r.corrPct < NetworkT.pickerMax

Dispersed(r) == Decorrelated(r) /\ r.dispersion > NetworkT.dispersionMin

(* A plausible slip: the boundary of the inner band belongs to neither.    *)
RotationWatchAbove(r) ==
  /\ Known(r, {"corrPct", "stability"})
  /\ r.corrPct > NetworkT.innerHi /\ r.corrPct <= NetworkT.normalHi
  /\ r.stability > NetworkT.stability

RotationWatch(r) ==
  /\ Known(r, {"corrPct", "stability"})
  /\ r.corrPct > NetworkT.innerHi /\ r.corrPct <= NetworkT.normalHi
  /\ r.stability >= NetworkT.stability

DiversifiedNormal(r) ==
  /\ r.corrPct # NaN /\ r.corrPct >= NetworkT.normalLo /\ r.corrPct <= NetworkT.normalHi
  /\ \/ r.stability # NaN /\ r.stability < NetworkT.stability
     \/ /\ NetworkT.relaxed
        /\ r.corrPct >= NetworkT.innerLo /\ r.corrPct <= NetworkT.innerHi

(* Of the bands: the inner one is open to every stability, concentration   *)
(* begins before the normal band ends, and the calm band reaches to where  *)
(* the normal and the inner one begin.                                     *)
BandsMeet ==
  /\ NetworkT.relaxed /\ NetworkT.concCorr <= NetworkT.normalHi
  /\ NetworkT.normalLo <= NetworkT.pickerMax /\ NetworkT.innerLo <= NetworkT.pickerMax

(* evaluate_rules_with_evidence, in order of precedence.                   *)
NetworkLabel(r, breadth, vol, credit) ==
  FirstMatch(
    << <<SystemicStress(r, breadth, credit), "systemic_stress">>,
       <<SystemicUnconfirmed(r, breadth, credit), "systemic_stress_unconfirmed">>,
       <<CorrelationToOne(r), "correlation_to_one">>,
       <<Concentration(r), "correlation_concentration">>,
       <<RisingFragility(r, breadth), "rising_fragility">>,
       <<Dispersed(r) /\ vol = "crisis_vol", "idiosyncratic_crisis">>,
       <<Dispersed(r), "stock_picker_dispersion">>,
       <<RotationWatch(r), "rotation_watch">>,
       <<Decorrelated(r), "decorrelated_calm">>,
       <<DiversifiedNormal(r), "diversified_normal">> >>,
    "unknown")
=============================================================================
