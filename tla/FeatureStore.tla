---------------------------- MODULE FeatureStore ----------------------------
(***************************************************************************)
(* What a classification request needs before its first session: the       *)
(* checks of classify_request and build_market_context in their order, the *)
(* input contracts of the configured sections, and the feature store that  *)
(* builds the features in the order of _FEATURE_SPECS.                      *)
(*                                                                         *)
(* A request is [version, sections, source, lookback, given, unfit]: the   *)
(* configuration version and its sections, who asks, the sessions wanted,  *)
(* the facts that hold of its inputs, and the models whose fit would raise.*)
(***************************************************************************)
EXTENDS Readings, SequencesExt

CONSTANT SentimentStale  \* sessions after which a sentiment score is dropped

(***************************************************************************)
(* Facts about the inputs.  A key stands for "the mapping is given and has *)
(* the key", a table for "given and not empty".                            *)
(***************************************************************************)
CreditKeys == {"HYG", "LQD", "TLT", "KRE", "sofr", "iorb", "nfci", "broad_usd_index"}

GrowthKeys ==
  {"DBC", "TLT", "XLY", "XLI", "XLP", "XLU", "cpi_all_items", "pmi_manufacturing", "10y_yield"}

MonetaryKeys == {"2y_yield", "10y_yield", "broad_usd_index"}

(* What the market data must show: its columns, SPY rows on known dates and*)
(* on the end date, exchange sessions only, sound constituent frames, and  *)
(* prices of RSP and VIX.                                                  *)
MarketChecks ==
  {"columns", "spy_rows", "dates", "end_row", "sessions_only", "constituents_sound",
   "rsp", "vix"}

Tables ==
  {"sectors", "filled_sectors", "a_sector_etf", "volume", "close", "aaii", "aaii_columns", "central_bank_text",
   "news", "cpi_first_release", "pit_intervals", "constituents"}

Inputs ==
  CreditKeys \cup GrowthKeys \cup MonetaryKeys \cup MarketChecks \cup Tables
    \cup {"manifest", "trading_day", "event_calendar", "history"}

(***************************************************************************)
(* Configurations.                                                         *)
(***************************************************************************)
EvidenceSections == {"hmm", "clustering", "change_point"}

FeatureSections ==
  {"network_fragility", "trend_direction_v2", "volatility_state_v2", "breadth_state_v2",
   "volume_liquidity_v2", "monetary_pressure_v2", "credit_funding", "inflation_growth",
   "central_bank_text", "news_sentiment", "sentiment_score"}

(* A version 2 configuration has every section or is not loaded.           *)
RequiredV2 ==
  FeatureSections \cup EvidenceSections
    \cup {"volume_liquidity_state", "transition_score", "trend_character_v2",
          "monetary_pressure_state", "no_flip_flop", "cohort_routing",
          "strategy_family_constraints", "strategy_event_modifiers"}

IsConfig(r) == r.version = 2 => RequiredV2 \subseteq r.sections

(* v2_feature_build_configs: a version 1 configuration hands no section to *)
(* the store; the evidence models read theirs from the context.            *)
Handed(r) == IF r.version = 1 THEN {} ELSE r.sections \cap FeatureSections

(***************************************************************************)
(* The contract of each section, and the order of the checks.              *)
(***************************************************************************)
Contracts ==
  [network_fragility |-> {"filled_sectors"}, breadth_state_v2 |-> {"filled_sectors"},
   volume_liquidity_v2 |-> {"volume"},
   monetary_pressure_v2 |-> MonetaryKeys, monetary_pressure_state |-> MonetaryKeys,
   credit_funding |-> CreditKeys, inflation_growth |-> GrowthKeys \cup {"cpi_first_release"},
   hmm |-> {"volume_liquidity_v2", "network_fragility"},
   clustering |-> {"breadth_state_v2", "network_fragility", "trend_direction_v2"},
   change_point |-> {"close"}, sentiment_score |-> {"aaii"},
   central_bank_text |-> {"central_bank_text"}, news_sentiment |-> {"news"}]

(* An input of a contract that is a section is met by its configuration.   *)
Met(r, input) == input \in IF input \in Inputs THEN r.given ELSE r.sections

ContractsMet(r) ==
  r.version = 1 \/ \A s \in DOMAIN Contracts \cap r.sections :
                     \A input \in Contracts[s] : Met(r, input)

(* Only a request from a manifest may, and must, carry its provenance.     *)
SourceSound(r) ==
  \/ r.source = "direct" /\ "manifest" \notin r.given
  \/ r.source = "profile_manifest" /\ "manifest" \in r.given

(***************************************************************************)
(* The features, in the order in which they are built.                     *)
(***************************************************************************)
Order ==
  <<"trend_direction", "trend_character", "volatility", "breadth", "sma_50",
    "sentiment_score", "news_sentiment_score", "trend_direction_v2", "network_fragility",
    "volatility_state_v2", "breadth_state_v2", "volume_liquidity_v2", "monetary",
    "realized_vol_21d", "drawdown_63d", "hmm", "clustering", "credit_funding",
    "inflation_growth", "change_point">>

Core == {"trend_direction", "trend_character", "volatility", "breadth", "sma_50"}

(* Series that only other features read; the report leaves them out.       *)
Inner == {"sentiment_score", "news_sentiment_score", "realized_vol_21d", "drawdown_63d"}

(***************************************************************************)
(* What a feature lacks of its section, its inputs and the features built  *)
(* before it; nothing when it can be built.                                *)
(***************************************************************************)
Without(r, section, inputs) == ({section} \ Handed(r)) \cup (inputs \ r.given)

SentimentLacks(r, feature) ==
  CASE feature = "sentiment_score" -> {"aaii", "aaii_columns"} \ r.given
    [] feature = "news_sentiment_score" -> Without(r, "news_sentiment", {"news"})

(* A sector dictionary may be given without any of the sector funds: the   *)
(* network copes with that, breadth does not.                              *)
MarketLacks(r, feature) ==
  CASE feature \in {"trend_direction_v2", "volatility_state_v2"} -> Without(r, feature, {})
    [] feature = "network_fragility" -> {"sectors"} \ r.given
    [] feature = "breadth_state_v2" -> Without(r, feature, {"sectors", "a_sector_etf"})
    [] feature = "volume_liquidity_v2" -> Without(r, feature, {"volume"})

MacroLacks(r, feature) ==
  Without(r, feature, IF feature = "credit_funding" THEN CreditKeys ELSE GrowthKeys)

(* The bank texts are asked for only where their section is configured.    *)
MonetaryLacks(r) ==
  Without(r, "monetary_pressure_v2",
          MonetaryKeys \cup ({"central_bank_text"} \cap Handed(r)))

(* The models read their sections from the context.  The clusters need the *)
(* share of members above their average, which breadth has only with       *)
(* membership and constituent prices.                                      *)
ModelLacks(r, model, built) ==
  ({model} \ r.sections)
    \cup CASE model = "hmm" -> {"volume_liquidity_v2", "network_fragility"} \ built
           [] model = "clustering" ->
                ({"breadth_state_v2", "network_fragility", "trend_direction_v2"} \ built)
                  \cup ({"pit_intervals", "constituents"} \ r.given)
           [] model = "change_point" -> {"realized_vol_21d"} \ built

(* A series that several models read is built for any one of them.         *)
SharedLacks(r, feature) ==
  LET readers == IF feature = "drawdown_63d" THEN {"hmm", "clustering"} ELSE EvidenceSections
  IN IF readers \cap r.sections = {} THEN readers ELSE {}

Lacks(r, feature, built) ==
  CASE feature \in Core -> {}
    [] feature \in {"sentiment_score", "news_sentiment_score"} -> SentimentLacks(r, feature)
    [] feature \in {"credit_funding", "inflation_growth"} -> MacroLacks(r, feature)
    [] feature = "monetary" -> MonetaryLacks(r)
    [] feature \in EvidenceSections -> ModelLacks(r, feature, built)
    [] feature \in {"realized_vol_21d", "drawdown_63d"} -> SharedLacks(r, feature)
    [] OTHER -> MarketLacks(r, feature)

(* The score of a session from the sentiment rows, each [age, spread] with *)
(* the sessions since its publication, negative before it (a publication   *)
(* date is a session here).  Four distinct publications must be out; of the*)
(* rows of the newest one the last counts; an old score is dropped.        *)
SentimentScore(rows) ==
  LET out == {i \in DOMAIN rows : rows[i].age >= 0}
      newest == {i \in out : \A j \in out : rows[i].age <= rows[j].age}
  IN IF Cardinality({rows[i].age : i \in out}) < 4 THEN NaN
     ELSE LET last == CHOOSE i \in newest : \A j \in newest : j <= i
          IN IF rows[last].age > SentimentStale THEN NaN ELSE rows[last].spread

(* The policy of an unavailable feature: monetary pressure is optional, but*)
(* not when it is configured and its data are missing.                     *)
PolicyOf(r, feature) ==
  IF feature \in Core THEN "raise"
  ELSE IF feature = "monetary" /\ "monetary_pressure_v2" \in Handed(r) THEN "raise"
  ELSE "none"

(* _run_feature_specs.  A version 2 request raises at the first feature it *)
(* cannot build; a fit that fails raises for everybody.                    *)
Unavailable(r, store, feature) ==
  IF r.version = 2 THEN [store EXCEPT !.broken = feature]
  ELSE IF feature \in Inner THEN store
  ELSE [store EXCEPT !.policy[feature] = PolicyOf(r, feature)]

RunSpec(r, store, feature) ==
  IF store.broken # None THEN store
  ELSE IF Lacks(r, feature, store.built) # {} THEN Unavailable(r, store, feature)
  ELSE IF feature \in r.unfit THEN [store EXCEPT !.broken = feature]
  ELSE [store EXCEPT !.built = @ \cup {feature}]

EmptyStore == [built |-> {}, policy |-> [f \in ToSet(Order) |-> "none"], broken |-> None]

(* The store after the first i features.                                   *)
Stores(r) ==
  LET after[i \in 0..Len(Order)] ==
        IF i = 0 THEN EmptyStore ELSE RunSpec(r, after[i - 1], Order[i])
  IN after

Store(r) == Stores(r)[Len(Order)]

(* The score reads features of its own; without one of them it raises.     *)
ScoreNeeds ==
  {"volatility_state_v2", "breadth_state_v2", "network_fragility", "trend_direction_v2",
   "hmm", "change_point", "clustering"}

ScoreReady(r, store) ==
  "transition_score" \in r.sections =>
    ScoreNeeds \subseteq store.built /\ {"pit_intervals", "constituents"} \subseteq r.given

(* The checks of a request; none of them, and no feature, is called None.  *)
Checks ==
  {"source", "lookback", "trading_day", "event_calendar", "contracts", "market_context",
   "history", "score_inputs"}

ASSUME FeatureAssumption == None \notin Checks \cup ToSet(Order)

(***************************************************************************)
(* classify_request: the first check that fails, or None.                  *)
(***************************************************************************)
Refusal(r, store) ==
  CASE ~SourceSound(r) -> "source"
    [] r.lookback <= 0 -> "lookback"
    [] "trading_day" \notin r.given -> "trading_day"
    [] "event_calendar" \notin r.given -> "event_calendar"
    [] ~ContractsMet(r) -> "contracts"
    [] ~(MarketChecks \subseteq r.given) -> "market_context"
    [] "history" \notin r.given -> "history"
    [] store.broken # None -> store.broken
    [] ~ScoreReady(r, store) -> "score_inputs"
    [] OTHER -> None
=============================================================================
