----------------------------- MODULE MacroRules -----------------------------
(***************************************************************************)
(* The rules of the macro axes: credit and funding, inflation and growth,  *)
(* monetary pressure.  Inflation and growth reads the effective credit     *)
(* label: None when the credit axis is not built.                          *)
(***************************************************************************)
EXTENDS Thresholds

(***************************************************************************)
(* Credit and funding.  The spread fields hold the option-adjusted spreads *)
(* or the total-return proxy: the same rules run on either.                *)
(***************************************************************************)
CreditRank ==
  [credit_calm |-> 0, credit_recovery |-> 0, credit_divergence |-> 1,
   unknown |-> 1, spread_widening |-> 1, credit_stress |-> 2,
   funding_squeeze |-> 3, deleveraging |-> 4]

CreditFields ==
  {"hyPct", "hySlope", "igSlope", "usdZ", "fundingSlope", "spy", "tlt",
   "volPct", "vol", "corrPct", "corr"}

(* build_rule_inputs_for_date, for either source of the spreads.           *)
CreditReading(row) == [f \in CreditFields |-> ScalarAt(row, f)]

(* What both paths of deleveraging ask for.                                *)
Liquidation(r) ==
  /\ Known(r, {"spy", "tlt", "usdZ"})
  /\ r.spy < CreditT.spyDrop /\ r.tlt < 0 /\ r.usdZ > CreditT.usdDeleveraging

DeleveragingPath(r) ==
  IF Known(r, {"volPct", "corrPct"})
  THEN IF Liquidation(r) /\ r.volPct > CreditT.volPct /\ r.corrPct > CreditT.corrPct
       THEN "percentile" ELSE "none"
  ELSE IF /\ CreditT.coldStart /\ Liquidation(r) /\ Known(r, {"vol", "corr"})
          /\ r.vol >= CreditT.coldVol /\ r.corr >= CreditT.coldCorr
       THEN "cold_start_fallback" ELSE "none"

FundingSqueeze(r) ==
  /\ Known(r, {"usdZ", "fundingSlope", "spy"})
  /\ r.usdZ > CreditT.usdFunding /\ r.fundingSlope > 0 /\ r.spy < 0

CreditStress(r) ==
  Known(r, {"hyPct", "spy"}) /\ r.hyPct > CreditT.stressMin /\ r.spy < CreditT.spyDrop

SpreadWidening(r) ==
  /\ Known(r, {"hySlope", "hyPct"}) /\ r.hySlope > 0
  /\ \/ r.igSlope # NaN /\ r.igSlope > 0
     \/ r.hyPct >= CreditT.calmMax
     \/ CreditT.hyOnly

CreditDivergence(r) ==
  /\ Known(r, {"hyPct", "hySlope", "igSlope"})
  /\ r.hyPct < CreditT.calmMax /\ r.hySlope > 0 /\ r.igSlope <= 0

CreditRecovery(r) ==
  Known(r, {"hyPct", "hySlope"}) /\ r.hyPct >= CreditT.calmMax /\ r.hySlope < 0

CreditCalm(r) ==
  Known(r, {"hyPct", "hySlope"}) /\ r.hyPct < CreditT.calmMax /\ r.hySlope <= 0

(* A plausible slip: widening is looked at before stress.                  *)
CreditLabelWideningFirst(r) ==
  FirstMatch(
    << <<DeleveragingPath(r) # "none", "deleveraging">>,
       <<FundingSqueeze(r), "funding_squeeze">>,
       <<SpreadWidening(r), "spread_widening">>,
       <<CreditStress(r), "credit_stress">>,
       <<CreditDivergence(r), "credit_divergence">>,
       <<CreditRecovery(r), "credit_recovery">>,
       <<CreditCalm(r), "credit_calm">> >>,
    "unknown")

CreditLabel(r) ==
  FirstMatch(
    << <<DeleveragingPath(r) # "none", "deleveraging">>,
       <<FundingSqueeze(r), "funding_squeeze">>,
       <<CreditStress(r), "credit_stress">>,
       <<SpreadWidening(r), "spread_widening">>,
       <<CreditDivergence(r), "credit_divergence">>,
       <<CreditRecovery(r), "credit_recovery">>,
       <<CreditCalm(r), "credit_calm">> >>,
    "unknown")

(***************************************************************************)
(* Inflation and growth.                                                   *)
(***************************************************************************)
GrowthRank ==
  [goldilocks |-> 0, recovery_growth |-> 0, earnings_expansion |-> 0,
   recovery_growth_unconfirmed |-> 1, reflation |-> 1, macro_neutral |-> 1,
   disinflation |-> 1, unknown |-> 1,
   contractionary_disinflation |-> 2, late_cycle_inflation_stress |-> 2,
   stagflation_lite |-> 2, risk_off_mild |-> 2, earnings_contraction |-> 2,
   recession_scare |-> 3, inflation_shock |-> 3]

GrowthFields ==
  {"cpi3m", "cpi6m", "cpi6mBack", "cpiSlope", "surprise", "eps", "pmi", "pmiSlope",
   "commodity", "yieldSlope", "cyclicalSlope", "spy", "tlt"}

(* build_rule_inputs_for_date: the row, the inflation of a month before    *)
(* and the effective credit label.                                         *)
GrowthReading(row, credit) ==
  [f \in GrowthFields \cup {"credit"} |-> IF f = "credit" THEN credit ELSE ScalarAt(row, f)]

CreditAbsent(r) == r.credit = None /\ GrowthT.creditFallback
CreditIsCalm(r) == r.credit = "credit_calm" \/ CreditAbsent(r)
CreditWorsening(r) == r.credit \in {"spread_widening", "credit_stress"}
CreditCrisis(r) == r.credit \in {"credit_stress", "funding_squeeze", "deleveraging"}

InflationShock(r) ==
  \/ r.surprise # NaN /\ r.surprise > GrowthT.surprise
  \/ /\ Known(r, {"commodity", "yieldSlope", "spy", "tlt"})
     /\ r.commodity > GrowthT.commodity /\ r.yieldSlope > 0 /\ r.spy < 0 /\ r.tlt < 0
  \/ /\ Known(r, {"cpi3m", "yieldSlope"})
     /\ r.cpi3m > GrowthT.cpi3m /\ r.yieldSlope > 0

(* Without a credit axis the fall of equities has to be deeper.            *)
RecessionScare(r) ==
  /\ Known(r, {"yieldSlope", "cyclicalSlope", "spy"})
  /\ r.yieldSlope < 0 /\ r.cyclicalSlope < 0
  /\ \/ CreditWorsening(r) /\ r.spy < GrowthT.spyConfirmed
     \/ CreditAbsent(r) /\ r.spy < GrowthT.spyIndependent

RiskOffMild(r) ==
  /\ CreditWorsening(r) /\ r.spy # NaN /\ r.spy < 0 /\ r.spy >= GrowthT.spyConfirmed
  /\ \/ r.cyclicalSlope # NaN /\ r.cyclicalSlope < 0
     \/ r.yieldSlope # NaN /\ r.yieldSlope < 0
     \/ r.pmi # NaN /\ r.pmi < GrowthT.pmiGood

(* Goldilocks asks for one benign limb of inflation.                       *)
BenignInflation(r) ==
  \/ Known(r, {"cpi6m", "cpi6mBack"}) /\ Magnitude(r.cpi6m - r.cpi6mBack) <= GrowthT.drift
  \/ r.cpiSlope # NaN /\ r.cpiSlope <= 0
  \/ r.cpi6m # NaN /\ r.cpi6m < GrowthT.benign

Goldilocks(r) ==
  /\ CreditIsCalm(r) /\ Known(r, {"pmi", "spy"}) /\ BenignInflation(r)
  /\ r.pmi > GrowthT.pmiGood /\ r.spy > 0

GrowthTurning(r) ==
  /\ Known(r, {"pmiSlope", "pmi", "cyclicalSlope"})
  /\ r.pmiSlope > 0 /\ r.pmi > GrowthT.pmiRecovery /\ r.cyclicalSlope > 0

RecoveryUnconfirmed(r) ==
  /\ GrowthTurning(r) /\ r.cpiSlope # NaN /\ r.cpiSlope <= 0
  /\ r.credit \in {"credit_divergence", "credit_recovery", "spread_widening"}

Disinflation(r) ==
  /\ Known(r, {"cpiSlope", "pmi"}) /\ r.pmi > GrowthT.pmiDisinflation /\ r.cpiSlope < 0
  /\ GrowthT.yieldIndependent \/ (r.yieldSlope # NaN /\ r.yieldSlope < 0)

LateCycle(r) ==
  /\ Known(r, {"cpiSlope", "pmi", "spy"})
  /\ r.cpiSlope >= 0 /\ r.pmi > GrowthT.pmiGood /\ (r.spy <= 0 \/ CreditCrisis(r))

Reflation(r) ==
  /\ Known(r, {"cpiSlope", "pmi", "spy"})
  /\ r.cpiSlope > 0 /\ r.pmi > GrowthT.pmiGood /\ r.spy > 0 /\ ~CreditCrisis(r)

StagflationLite(r) ==
  Known(r, {"cpiSlope", "pmi"}) /\ r.cpiSlope > 0 /\ r.pmi <= GrowthT.pmiGood

EarningsDown(r) == r.eps # NaN /\ r.eps < GrowthT.epsDown
EarningsUp(r) == r.eps # NaN /\ r.eps > GrowthT.epsUp

Contractionary(r) ==
  Known(r, {"cpiSlope", "pmi"}) /\ r.cpiSlope <= 0 /\ r.pmi <= GrowthT.pmiDisinflation

(* evaluate_rules, in order of precedence.                                 *)
GrowthLabel(r) ==
  FirstMatch(
    << <<InflationShock(r), "inflation_shock">>,
       <<RecessionScare(r), "recession_scare">>,
       <<RiskOffMild(r), "risk_off_mild">>,
       <<Goldilocks(r), "goldilocks">>,
       <<CreditIsCalm(r) /\ GrowthTurning(r), "recovery_growth">>,
       <<RecoveryUnconfirmed(r), "recovery_growth_unconfirmed">>,
       <<Disinflation(r), "disinflation">>,
       <<LateCycle(r), "late_cycle_inflation_stress">>,
       <<Reflation(r), "reflation">>,
       <<StagflationLite(r), "stagflation_lite">>,
       <<EarningsDown(r), "earnings_contraction">>,
       <<EarningsUp(r), "earnings_expansion">>,
       <<Contractionary(r), "contractionary_disinflation">>,
       <<Known(r, {"cpiSlope", "pmi", "spy"}), "macro_neutral">> >>,
    "unknown")

(***************************************************************************)
(* Monetary pressure: z-scores of yields and the dollar, in tenths.        *)
(***************************************************************************)
MonetaryRank ==
  [neutral_monetary |-> 0, easing_pressure |-> 1, unknown |-> 1,
   tightening_pressure |-> 2, rate_shock |-> 3]

MonetaryLabel(r) ==
  IF ~Known(r, {"z2y", "z10y", "zUsd", "fast2y", "fast10y"}) THEN "unknown"
  ELSE FirstMatch(
    << <<Magnitude(r.fast2y) > MonetaryT.shock \/ Magnitude(r.fast10y) > MonetaryT.shock,
         "rate_shock">>,
       <<\E z \in {r.z2y, r.z10y, r.zUsd} : z > MonetaryT.tightening,
         "tightening_pressure">>,
       <<r.z2y < MonetaryT.easing \/ r.z10y < MonetaryT.easing, "easing_pressure">> >>,
    "neutral_monetary")
=============================================================================
