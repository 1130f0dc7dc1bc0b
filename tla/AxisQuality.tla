----------------------------- MODULE AxisQuality -----------------------------
(***************************************************************************)
(* What an axis says about the data behind a session's label: the quality  *)
(* of its input windows, the staleness gates of the macro axes, the        *)
(* classification status, and which of two credit readings goes downstream.*)
(*                                                                         *)
(* A window enters by three facts: is it full, how many sessions old is    *)
(* its last observation, what percentage of it is observed.                *)
(***************************************************************************)
EXTENDS Readings, FiniteSetsExt

CONSTANTS
  NeverSeen,     \* the age of a series without an observation (10**9)
  MaxFreshness,  \* data_quality.max_freshness_days
  MinComplete,   \* data_quality.min_completeness, in percent
  Floor          \* INSUFFICIENT_COMPLETENESS_FLOOR, in percent

ASSUME QualityAssumption ==
  /\ MaxFreshness \in Nat /\ NeverSeen \in Nat /\ NeverSeen > MaxFreshness
  /\ MinComplete \in 0..100 /\ Floor \in 0..100

Statuses == {"ok", "degraded", "insufficient_data", "insufficient_history", "stale_data"}

(* assess_series_input_quality; raw is None where the label is not asked.  *)
Assess(w, raw) ==
  IF ~w.full THEN "insufficient_history"
  ELSE IF w.age > MaxFreshness THEN "stale_data"
  ELSE IF w.share < Floor THEN "insufficient_data"
  ELSE IF raw = "unknown" THEN "insufficient_history"
  ELSE IF w.share < MinComplete THEN "degraded" ELSE "ok"

ForcesUnknown(status) ==
  status \in {"insufficient_data", "insufficient_history", "stale_data"}

Usable(status) == status \in {"ok", "degraded"}

(***************************************************************************)
(* The clock each source is aged by, and the gates of the macro axes.      *)
(***************************************************************************)
ClockOf ==
  [cpi |-> "calendar", pmi |-> "calendar", dgs10 |-> "trading", nowcast |-> "calendar",
   eps |-> "calendar", hyg |-> "trading", lqd |-> "trading", tlt |-> "trading",
   hyOas |-> "calendar", igOas |-> "calendar", nfci |-> "calendar", sofr |-> "calendar",
   iorb |-> "calendar", fedfunds |-> "calendar", ioer |-> "calendar"]

(* A funding spread needs both of its rates; the youngest pair counts.     *)
FundingAge(age) ==
  LET pair(a, b) == Max({age[a], age[b]})
  IN Min({pair("sofr", "iorb"), pair("sofr", "ioer"), pair("fedfunds", "ioer")})

CreditStale(age, source, limits) ==
  \/ \E etf \in {"hyg", "lqd", "tlt"} : age[etf] > limits.etfStale
  \/ FundingAge(age) > MaxFreshness
  \/ age["nfci"] > limits.nfciStale
  \/ source = "oas" /\ \E s \in {"hyOas", "igOas"} : age[s] > MaxFreshness

(* Gate, then window, then the warm-up of the spread percentile.           *)
CreditQuality(age, source, limits, window, hyPctKnown) ==
  IF CreditStale(age, source, limits) THEN "stale_data"
  ELSE IF ForcesUnknown(Assess(window, None)) THEN Assess(window, None)
  ELSE IF ~hyPctKnown THEN "insufficient_history"
  ELSE Assess(window, None)

GrowthQuality(age, limits, window) ==
  IF \/ age["cpi"] > limits.cpiStale \/ age["pmi"] > limits.pmiStale
     \/ age["dgs10"] > limits.dgs10Stale
  THEN "stale_data" ELSE Assess(window, None)

(***************************************************************************)
(* classification_status.  missing: a rule feature that binds is absent.   *)
(***************************************************************************)

(* A plausible slip: a label in force is classified, whatever its data.    *)
ClassificationActiveFirst(status, raw, stable, active, missing) ==
  IF active # "unknown" THEN "classified"
  ELSE IF status \in {"stale_data", "insufficient_history"} THEN status
  ELSE IF status = "insufficient_data" THEN "data_unavailable" ELSE "no_rule_fired"

Classification(status, raw, stable, active, missing) ==
  IF status \in {"stale_data", "insufficient_history"} THEN status
  ELSE IF status = "insufficient_data" THEN "data_unavailable"
  ELSE IF active # "unknown" THEN "classified"
  ELSE IF raw # "unknown" \/ stable # "unknown" THEN "no_rule_fired_hysteresis"
  ELSE IF missing THEN "no_rule_fired_missing_feature" ELSE "no_rule_fired"

NoRuleFired ==
  {"no_rule_fired", "no_rule_fired_hysteresis", "no_rule_fired_missing_feature"}

Classes ==
  NoRuleFired \cup {"classified", "data_unavailable", "stale_data", "insufficient_history"}

UnsafeStatuses == {"data_unavailable", "stale_data", "insufficient_history", "not_wired"}

(* One axis of the coverage report; policy None: no availability report.   *)
AxisSafe(output, policy) ==
  IF output = None THEN policy = "none"
  ELSE output.class \notin UnsafeStatuses

(***************************************************************************)
(* The effective credit output: the riskier of two classified signals.     *)
(***************************************************************************)
HasSignal(o) == o # None /\ o.active # "unknown" /\ Usable(o.status)

(* A plausible slip: the spreads outvote the proxy whenever they classify. *)
EffectiveCreditOasFirst(oas, proxy, rank) ==
  IF HasSignal(oas) THEN oas ELSE IF proxy = None THEN oas ELSE proxy

EffectiveCredit(oas, proxy, rank) ==
  IF HasSignal(oas) /\ HasSignal(proxy)
  THEN IF rank[proxy.active] > rank[oas.active] THEN proxy ELSE oas
  ELSE IF HasSignal(proxy) THEN proxy
  ELSE IF HasSignal(oas) THEN oas
  ELSE IF proxy # None /\ proxy.class \in NoRuleFired THEN proxy
  ELSE IF oas # None THEN oas ELSE proxy
=============================================================================
