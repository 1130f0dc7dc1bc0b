------------------------------ MODULE MCSession ------------------------------
(***************************************************************************)
(* Eleven sessions under the shipped rules - calm, stressed, thin or       *)
(* missing data, stale sources, event days, euphoria, a score without its  *)
(* model - and the requests that ask for them.                             *)
(***************************************************************************)
EXTENDS SessionPipeline

ShippedTrend == [drawdown |-> -15, rebound |-> 10, ret126 |-> 20, sentiment |-> 20]
ShippedCharacter == [followthrough |-> 60, ret63 |-> 5, midpoint |-> 5, adx |-> 20]
ShippedVol == [atrRatio |-> 115, volRatio |-> 125, crushRatio |-> 75, ivChange |-> -20]
ShippedBreadth == [nhnl |-> 40]
ShippedVolume ==
  [zscore |-> 20, ret1 |-> -2, gapPct |-> 75, rangePct |-> 75, rawGaps |-> 30,
   rawRange |-> 4, coldStart |-> TRUE]
ShippedNetwork ==
  [normalLo |-> 0, normalHi |-> 75, innerLo |-> 30, innerHi |-> 60, pickerMax |-> 30,
   dispersionMin |-> 70, concCorr |-> 75, concEig |-> 75, concRank |-> 25,
   absorption |-> 90, oneCorr |-> 90, oneVol |-> 80, drawdown |-> 0,
   coldCorr |-> 90, coldEig |-> 75, coldVol |-> 25, vixMin |-> 80, stability |-> 5,
   coldStart |-> TRUE, relaxed |-> TRUE]
ShippedCredit ==
  [calmMax |-> 50, stressMin |-> 80, spyDrop |-> -5, usdFunding |-> 15,
   usdDeleveraging |-> 0, volPct |-> 75, corrPct |-> 75, coldStart |-> TRUE,
   coldVol |-> 25, coldCorr |-> 75, hyOnly |-> FALSE, nfciStale |-> 14, etfStale |-> 5]
ShippedGrowth ==
  [drift |-> 1, benign |-> 4, cpi3m |-> 2, commodity |-> 15, surprise |-> 15,
   epsUp |-> 2, epsDown |-> -2, pmiGood |-> 50, pmiRecovery |-> 50,
   pmiDisinflation |-> 45, spyConfirmed |-> -5, spyIndependent |-> -7,
   yieldIndependent |-> TRUE, creditFallback |-> TRUE, cpiStale |-> 60,
   pmiStale |-> 45, dgs10Stale |-> 5, epsStale |-> 35, nowcastStale |-> 60]
ShippedMonetary == [tightening |-> 15, easing |-> -15, shock |-> 20]

ShippedWeights ==
  [trend |-> 18, vol |-> 16, breadth |-> 16, corr |-> 14, credit |-> 12,
   liquidity |-> 10, macro |-> 6, model |-> 8]
ShippedBands == [weakening |-> 35, warning |-> 55, high |-> 75]
ShippedOverrides == [credit |-> 70, corr |-> 70, macro |-> 100, elevated |-> 35]
ShippedScales ==
  [volRatio |-> 50, drawdown |-> 15, maBreak |-> 5, breadthZero |-> 50,
   breadthRange |-> 30, absorptionFloor |-> 70, absorptionRange |-> 25,
   volumeFloor |-> 10, volumeRange |-> 20]

ShippedEvents ==
  << [name |-> "macro_event_window", cap |-> 75, revoke |-> {"expansion"},
      labels |-> {"fed_week", "cpi_week"}, demand |-> {"confirmLongs"}],
     [name |-> "policy_or_event_risk_window", cap |-> 50, revoke |-> {"leverage"},
      labels |-> {"budget_week", "geopolitical_event"}, demand |-> {"hedges", "confirmLongs"}] >>

P(axis, values) == [axis |-> axis, values |-> values]
AnyOf(S) == [any |-> S, all |-> {}]
AllOf(S) == [any |-> {}, all |-> S]

ShippedRouting ==
  [crisis_specialist |->
     AnyOf({P("network", {"correlation_to_one", "systemic_stress_unconfirmed", "systemic_stress"}),
            P("vol", {"crisis_vol"})}),
   euphoria_specialist |-> AllOf({P("trend", {"euphoria"})}),
   bear_stress_specialist |->
     AllOf({P("trend", {"bear"}),
            P("breadth", {"weak_breadth", "divergent_fragile", "narrowing_breadth"})}),
   tightening_specialist |-> AllOf({P("monetary", {"tightening_pressure", "rate_shock"})}),
   easing_specialist |-> AllOf({P("monetary", {"easing_pressure"})}),
   recovery_specialist |-> AllOf({P("trend", {"recovery"})}),
   chop_mean_reversion_specialist |->
     AllOf({P("character", {"range_bound"}), P("vol", {"normal_vol", "low_vol"})}),
   bull_low_vol_specialist |->
     AllOf({P("trend", {"bull"}), P("vol", {"low_vol", "normal_vol"})})]

ShippedBlocked ==
  [data_outage_specialist |-> {"short_vol", "leveraged_long", "breakout"},
   crisis_specialist |-> {"short_vol", "leveraged_long", "breakout"},
   euphoria_specialist |-> {"mean_reversion"},
   bear_stress_specialist |-> {"short_vol", "breakout", "leveraged_long"},
   recovery_specialist |-> {"short_vol"},
   chop_mean_reversion_specialist |-> {"trend_following", "breakout"}]

Unset == [f \in ConstraintFields |-> None]
Allowed == [Unset EXCEPT !["allowed"] = TRUE]
Banned(why) == [Unset EXCEPT !["allowed"] = FALSE, !["reason"] = why]

ShippedFamilies ==
  [trend_following |-> [Allowed EXCEPT !["lookback"] = 50, !["adx"] = 20],
   mean_reversion |-> [Allowed EXCEPT !["holding"] = 5, !["volumeFirst"] = TRUE],
   breakout |-> Banned("false_breakouts"), short_vol |-> Banned("fragility_or_crisis"),
   long_vol |-> [Allowed EXCEPT !["eventOnly"] = TRUE]]

ShippedFamilyOverrides ==
  [crisis_specialist |->
     [trend_following |-> Banned("false_signals"), mean_reversion |-> Banned("knife_catching"),
      breakout |-> Banned("false_breakouts"), short_vol |-> Banned("vol_expands"),
      long_vol |-> [Allowed EXCEPT !["eventOnly"] = FALSE]],
   bull_low_vol_specialist |->
     [trend_following |-> [Allowed EXCEPT !["lookback"] = 200, !["adx"] = 15],
      breakout |-> Allowed, short_vol |-> [Allowed EXCEPT !["position"] = 25]]]

----------------------------------------------------------------------------
AllAxes == MarketAxes \cup OptionalAxes
Sources == DOMAIN ClockOf

Spreads(pct, slope) ==
  [hyPct |-> pct, hySlope |-> slope, igSlope |-> slope, usdZ |-> 0, fundingSlope |-> 0,
   spy |-> 1, tlt |-> 1, volPct |-> 50, vol |-> 15, corrPct |-> 50, corr |-> 40]

CalmReadings ==
  [trend |-> [close |-> 110, sma50 |-> 105, sma200 |-> 100, ret63 |-> 6, drawdown252 |-> 0,
              ret126 |-> 10, vol |-> 10, volBack |-> 10, sentiment |-> 0],
   character |-> [close |-> 110, sma50 |-> 105, ret10 |-> 1, ret21 |-> 5, drawdown63 |-> 0,
                  adx |-> 25, breakout |-> FALSE, bandWidening |-> FALSE, volumeAbove |-> FALSE,
                  followthrough |-> 50, ret63 |-> 6, midpoint |-> 4],
   vol |-> [ret1 |-> 0, ret5 |-> 1, ret21 |-> 5, volPct |-> 40, vixPct |-> 40, atrRatio |-> 100,
            vol10 |-> 10, vol21 |-> 10, vol63 |-> 10, ivChange |-> 0, eventJustPassed |-> FALSE],
   breadth |-> [ratio |-> 11, ratioSma |-> 10, ratioRet20 |-> 1, offHigh |-> 0, thrust |-> 50,
                thrustLow |-> 45, above50 |-> 60, above50Back |-> 60, above200 |-> 60,
                above200Back |-> 60, nhnl |-> 60, nhnlBack |-> 60, adSlope |-> 1],
   volume |-> [volumeZ |-> 0, ret1 |-> 0, gapPct |-> 40, rangePct |-> 40, gaps |-> 5, range |-> 1],
   network |-> [corrPct |-> 45, eigPct |-> 40, rankPct |-> 50, corr |-> 40, eig |-> 40,
                dispersion |-> 50, absorption |-> 60, corrSlope |-> -1, eigSlope |-> -1,
                stability |-> 3, volPct |-> 40, vol |-> 10, drawdown |-> 0, vixPct |-> 40],
   oas |-> Spreads(30, 0), proxy |-> Spreads(30, 0),
   monetary |-> [z2y |-> 0, z10y |-> 0, zUsd |-> 0, fast2y |-> 0, fast10y |-> 0],
   growth |-> [cpi3m |-> 1, cpi6m |-> 2, cpi6mBack |-> 2, cpiSlope |-> 0, surprise |-> 0,
               eps |-> 1, pmi |-> 52, pmiSlope |-> 1, commodity |-> 2, yieldSlope |-> 1,
               cyclicalSlope |-> 1, spy |-> 1, tlt |-> 1]]

StressReadings ==
  [CalmReadings EXCEPT
     !.trend = [@ EXCEPT !.close = 80, !.sma50 = 90],
     !.character = [@ EXCEPT !.close = 80, !.ret10 = -6, !.ret21 = -12, !.drawdown63 = -15],
     !.vol = [@ EXCEPT !.ret1 = -6, !.ret5 = -9, !.ret21 = -12, !.volPct = 95, !.vixPct = 96],
     !.breadth = [@ EXCEPT !.ratio = 9, !.ratioRet20 = -2, !.offHigh = -15],
     !.volume = [@ EXCEPT !.volumeZ = 25, !.ret1 = -6],
     !.network = [@ EXCEPT !.corrPct = 95, !.eigPct = 90, !.volPct = 95, !.drawdown = -10, !.vixPct = 96],
     !.oas = [Spreads(85, 1) EXCEPT !.spy = -12],
     !.proxy = [Spreads(85, 1) EXCEPT !.spy = -12, !.tlt = -1, !.usdZ = 1, !.volPct = 95, !.corrPct = 95],
     !.monetary = [@ EXCEPT !.fast2y = -21],
     !.growth = [@ EXCEPT !.yieldSlope = -1, !.cyclicalSlope = -1, !.spy = -12]]

CalmScore ==
  [volShort |-> 10, volLong |-> 10, drawdown252 |-> 0, close |-> 110, sma50 |-> 105,
   corrPct |-> 45, eigPct |-> 40, rankPct |-> 50, absorption |-> 60, gapPct |-> 40,
   rangePct |-> 40, volumeZ |-> 0, above50 |-> 60, hmm |-> 90, hmmBack |-> 88,
   changePoint |-> 5, cluster |-> 6, clusterBack |-> 6]

Sound == [full |-> TRUE, age |-> 0, share |-> 100]
Old == [Sound EXCEPT !.age = 4]

(* Weekly surveys: the newest one republished, an older one too old.       *)
Survey(spread) ==
  << [age |-> 18, spread |-> 0], [age |-> 13, spread |-> 0], [age |-> 8, spread |-> 0],
     [age |-> 3, spread |-> -5], [age |-> 3, spread |-> spread], [age |-> -2, spread |-> 30] >>

Calm ==
  [survey |-> Survey(0), reading |-> CalmReadings, window |-> [a \in AllAxes |-> Sound],
   age |-> [s \in Sources |-> 1], events |-> {}, score |-> CalmScore]

Stress ==
  [Calm EXCEPT !.reading = StressReadings,
               !.score = [@ EXCEPT !.volShort = 20, !.drawdown252 = -20, !.close = 80,
                                   !.corrPct = 95, !.above50 = 20, !.changePoint = 80]]

StressWithoutVol == [Stress EXCEPT !.window["vol"] = Old]
StressWithoutOas == [Stress EXCEPT !.age["hyOas"] = 10]
CalmWithoutCredit == [Calm EXCEPT !.age["hyg"] = 6, !.age["eps"] = 40]
Outage == [Calm EXCEPT !.window = [a \in AllAxes |-> Old], !.age["cpi"] = 90]
ThinCalm ==
  [Calm EXCEPT !.window = [a \in AllAxes |-> [Sound EXCEPT !.share = IF a = "vol" THEN 60 ELSE 80]],
               !.events = {"cpi_week"}]
EventDay == [Calm EXCEPT !.events = {"fed_week", "geopolitical_event"}]
Euphoric ==
  [Calm EXCEPT !.survey = Survey(25), !.reading["trend"] = [@ EXCEPT !.ret126 = 25, !.vol = 20]]
EuphoricBefore == [Euphoric EXCEPT !.survey = SubSeq(@, 2, 6)]
NoModel == [Calm EXCEPT !.score.hmmBack = NaN]

TheDays == {Calm, Stress, StressWithoutVol, StressWithoutOas, CalmWithoutCredit,
            Outage, ThinCalm, EventDay, Euphoric, EuphoricBefore, NoModel}

(* The shipped requests, each with one input missing, one fit failing or   *)
(* one thing wrong, and version 1 with and without a network section.      *)
Everything == Inputs \ {"manifest"}

Full == [version |-> 2, sections |-> RequiredV2, source |-> "direct", lookback |-> 2,
         given |-> Everything, unfit |-> {}]

Plain == [Full EXCEPT !.version = 1, !.sections = {},
                      !.given = MarketChecks \cup {"trading_day", "event_calendar", "history"}]

WithNetwork == [Plain EXCEPT !.sections = {"network_fragility", "credit_funding", "hmm"},
                             !.given = Everything]

Routing == {"cohort_routing", "strategy_family_constraints", "strategy_event_modifiers"}

TheRequests ==
  {Full, Plain, WithNetwork, [WithNetwork EXCEPT !.sections = @ \cup Routing],
   [Plain EXCEPT !.sections = {"monetary_pressure_state"}], [WithNetwork EXCEPT !.given = @ \ {"sectors"}],
   [WithNetwork EXCEPT !.sections = @ \cup {"transition_score", "change_point"}],
   [WithNetwork EXCEPT !.sections = {"change_point"}, !.unfit = {"change_point"}],
   [Full EXCEPT !.lookback = 0],
   [Full EXCEPT !.source = "profile_manifest"],
   [Full EXCEPT !.source = "profile_manifest", !.given = Inputs]}
  \cup {[Full EXCEPT !.given = @ \ {input}] : input \in Everything}
  \cup {[Full EXCEPT !.unfit = {model}] : model \in EvidenceSections}

TheKeepSets == {{}, AllAxes \ {"proxy", "breadth"}}

ASSUME CrisisNamesRegimes /\ CrisisHearsVol /\ Hold > 0
=============================================================================
