------------------------------- MODULE MCAxes -------------------------------
(***************************************************************************)
(* The nine axes under the shipped thresholds, each reading on both sides  *)
(* of the thresholds it meets, on one of them, or missing.                 *)
(***************************************************************************)
EXTENDS AxisRules

ShippedTrend == [drawdown |-> -15, rebound |-> 10, ret126 |-> 20, sentiment |-> 20]
ShippedCharacter == [followthrough |-> 60, ret63 |-> 5, midpoint |-> 5, adx |-> 20]
ShippedVol == [atrRatio |-> 115, volRatio |-> 125, crushRatio |-> 75, ivChange |-> -20]
ShippedBreadth == [nhnl |-> 40]
ShippedVolume ==
  [zscore |-> 20, ret1 |-> -2, gapPct |-> 75, rangePct |-> 75, rawGaps |-> 30,
   rawRange |-> 4, coldStart |-> TRUE]
ShippedNetwork ==
  [normalLo |-> 0, normalHi |-> 75, innerLo |-> 30, innerHi |-> 60, pickerMax |-> 30,
   dispersionMin |-> 70, concCorr |-> 75, concEig |-> 75, concRank |-> 25,
   absorption |-> 90, oneCorr |-> 90, oneVol |-> 80, drawdown |-> 0,
   coldCorr |-> 90, coldEig |-> 75, coldVol |-> 25, vixMin |-> 80, stability |-> 5,
   coldStart |-> TRUE, relaxed |-> TRUE]
ShippedCredit ==
  [calmMax |-> 50, stressMin |-> 80, spyDrop |-> -5, usdFunding |-> 15,
   usdDeleveraging |-> 0, volPct |-> 75, corrPct |-> 75, coldStart |-> TRUE,
   coldVol |-> 25, coldCorr |-> 75, hyOnly |-> FALSE, nfciStale |-> 14, etfStale |-> 5]
ShippedGrowth ==
  [drift |-> 1, benign |-> 4, cpi3m |-> 2, commodity |-> 15, surprise |-> 15,
   epsUp |-> 2, epsDown |-> -2, pmiGood |-> 50, pmiRecovery |-> 50,
   pmiDisinflation |-> 45, spyConfirmed |-> -5, spyIndependent |-> -7,
   yieldIndependent |-> TRUE, creditFallback |-> TRUE, cpiStale |-> 60,
   pmiStale |-> 45, dgs10Stale |-> 5, epsStale |-> 35, nowcastStale |-> 60]
ShippedMonetary == [tightening |-> 15, easing |-> -15, shock |-> 20]

TheValues ==
  [trend |-> [close |-> {NaN, 90, 100, 110}, sma50 |-> {NaN, 95, 105},
              sma200 |-> {NaN, 85, 100}, ret63 |-> {NaN, 0, 12},
              drawdown252 |-> {NaN, -15}, ret126 |-> {NaN, 25},
              vol |-> {20}, volBack |-> {10, 20}, sentiment |-> {NaN, 20}],
   character |-> [close |-> {NaN, 100}, sma50 |-> {NaN, 95}, ret10 |-> {NaN, 0, 5},
                  ret21 |-> {NaN, 2, 5}, drawdown63 |-> {NaN, -10, 0},
                  adx |-> {NaN, 15, 20}, breakout |-> {NaN, TRUE},
                  bandWidening |-> {TRUE}, volumeAbove |-> {NaN, FALSE, TRUE},
                  followthrough |-> {NaN, 60}, ret63 |-> {NaN, 2}, midpoint |-> {5}],
   vol |-> [ret1 |-> {NaN, -5, 0}, ret5 |-> {NaN, -8, 0}, ret21 |-> {NaN, -5, 0},
            volPct |-> {NaN, 30, 80, 90}, vixPct |-> {NaN, 50, 80, 95},
            atrRatio |-> {NaN, 120}, vol10 |-> {10}, vol21 |-> {20},
            vol63 |-> {20}, ivChange |-> {NaN, -20}, eventJustPassed |-> {FALSE, TRUE}],
   breadth |-> [ratio |-> {NaN, 9, 11}, ratioSma |-> {10}, ratioRet20 |-> {NaN, -3, -1, 0},
                offHigh |-> {NaN, -6, -5}, thrust |-> {NaN, 62}, thrustLow |-> {39},
                above50 |-> {NaN, 40}, above50Back |-> {45}, above200 |-> {40},
                above200Back |-> {45}, nhnl |-> {NaN, 30, 50}, nhnlBack |-> {40},
                adSlope |-> {NaN, 0, 1}],
   volume |-> [volumeZ |-> {NaN, 0, 20, 21}, ret1 |-> {NaN, -3, -2}, gapPct |-> {NaN, 75, 76},
               rangePct |-> {NaN, 75, 76}, gaps |-> {NaN, 0, 30}, range |-> {NaN, 0, 4}],
   network |-> [corrPct |-> {NaN, 20, 30, 60, 61, 75, 91}, eigPct |-> {NaN, 75, 76}, corr |-> {90},
                eig |-> {75}, dispersion |-> {NaN, 70, 71},
                corrSlope |-> {NaN, 1}, eigSlope |-> {1},
                stability |-> {NaN, 4, 5}, volPct |-> {NaN, 80, 81}, vol |-> {30},
                drawdown |-> {-1}, vixPct |-> {NaN, 81}],
   credit |-> [hyPct |-> {NaN, 49, 50, 81}, hySlope |-> {NaN, -1, 0, 1}, igSlope |-> {NaN, 0, 1},
               usdZ |-> {NaN, 0, 16}, fundingSlope |-> {0, 1}, spy |-> {NaN, -6, -1, 1},
               tlt |-> {0, -1}, volPct |-> {NaN, 76}, vol |-> {25},
               corrPct |-> {NaN, 75, 76}, corr |-> {75}],
   growth |-> [cpi3m |-> {3}, cpi6m |-> {NaN, 3}, cpi6mBack |-> {2}, cpiSlope |-> {NaN, -1, 1},
               surprise |-> {NaN, 16}, eps |-> {NaN, -3, 3}, pmi |-> {NaN, 45, 51},
               pmiSlope |-> {1}, commodity |-> {16}, yieldSlope |-> {NaN, -1, 1},
               cyclicalSlope |-> {-1, 1}, spy |-> {NaN, -8, -5, 1}, tlt |-> {-1, 1}],
   monetary |-> [z2y |-> {NaN, -16, 15, 16}, z10y |-> {NaN, -16, 16}, zUsd |-> {NaN, 0, 16},
                 fast2y |-> {NaN, 20, 21}, fast10y |-> {NaN, -21, 0}]]

ASSUME BandsMeet
=============================================================================
