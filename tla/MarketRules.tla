----------------------------- MODULE MarketRules -----------------------------
(***************************************************************************)
(* The rule tables of the axes that read the market alone: trend           *)
(* direction, trend character, volatility, breadth, volume and liquidity.  *)
(* Each takes the readings of one session to its raw label.  A v1 label is *)
(* computed first; the v2 labels lie over it, each above the labels it     *)
(* outranks.                                                               *)
(***************************************************************************)
EXTENDS Thresholds

(***************************************************************************)
(* Trend direction.                                                        *)
(***************************************************************************)
TrendRank ==
  [bull |-> 0, sideways |-> 1, recovery |-> 1, transition |-> 2,
   unknown |-> 2, bear |-> 3, euphoria |-> 4]

TrendV1(r) ==
  IF ~Known(r, {"close", "sma50", "sma200", "ret63"}) THEN "unknown"
  ELSE FirstMatch(
    << <<r.close > r.sma50 /\ r.close > r.sma200 /\ r.sma50 > r.sma200, "bull">>,
       <<r.close < r.sma50 /\ r.close < r.sma200 /\ r.sma50 < r.sma200, "bear">>,
       <</\ Magnitude(r.ret63) < 5
         /\ 100 * r.close >= 95 * r.sma200 /\ 100 * r.close <= 105 * r.sma200,
         "sideways">> >>,
    "transition")

Recovery(r) ==
  /\ Known(r, {"drawdown252", "ret63", "sma50", "close"})
  /\ r.drawdown252 <= TrendT.drawdown /\ r.ret63 > TrendT.rebound /\ r.close > r.sma50

(* volBack is the volatility five sessions earlier; a sentiment series that *)
(* is not supplied reads NaN.                                              *)
Euphoria(r) ==
  /\ Known(r, {"close", "sma200", "ret126", "vol", "volBack", "sentiment"})
  /\ r.close > r.sma200 /\ r.ret126 > TrendT.ret126
  /\ r.vol > r.volBack /\ r.sentiment >= TrendT.sentiment

(* Only bull, of the v1 labels, outranks recovery; euphoria outranks all.  *)
TrendLabel(r) ==
  LET v1 == TrendV1(r)
  IN FirstMatch(<< <<Euphoria(r), "euphoria">>,
                   <<v1 # "bull" /\ Recovery(r), "recovery">> >>, v1)

(***************************************************************************)
(* Trend character.  The unset flags (NaN) read false, except the volume   *)
(* gate, which an unavailable volume leaves open.                          *)
(***************************************************************************)
CharacterRank ==
  [breakout_expansion |-> 0, trending |-> 0, mild_trend |-> 0,
   recovery_attempt |-> 1, range_bound |-> 1, chop |-> 1, volatile_chop |-> 1,
   transition |-> 2, unknown |-> 2]

Breakout(r) ==
  /\ r.breakout = TRUE /\ r.bandWidening = TRUE /\ r.volumeAbove # FALSE
  /\ r.followthrough # NaN /\ r.followthrough >= CharacterT.followthrough

RangeBound(r) ==
  /\ Known(r, {"ret63", "midpoint"})
  /\ Magnitude(r.ret63) < CharacterT.ret63
  /\ r.midpoint <= CharacterT.midpoint /\ r.adx < CharacterT.adx

CharacterLabel(r) ==
  IF ~Known(r, {"close", "sma50", "ret10", "ret21", "drawdown63", "adx"})
  THEN "unknown"
  ELSE FirstMatch(
    << <<Breakout(r), "breakout_expansion">>,
       <<r.drawdown63 <= -10 /\ r.close > r.sma50 /\ r.ret10 >= 5, "recovery_attempt">>,
       <<r.adx >= 20 /\ Magnitude(r.ret21) >= 5, "trending">>,
       <<r.adx >= 20, "mild_trend">>,
       <<RangeBound(r), "range_bound">>,
       <<Magnitude(r.ret10) < 3 /\ Magnitude(r.ret21) < 5, "chop">> >>,
    "volatile_chop")

(***************************************************************************)
(* Volatility.                                                             *)
(***************************************************************************)
VolRank ==
  [low_vol |-> 0, normal_vol |-> 1, high_vol |-> 2, rising_vol |-> 2,
   unknown |-> 2, crisis_vol |-> 3, vol_crush |-> 3]

VolV1(r) ==
  LET vixAtLeast(p) == r.vixPct # NaN /\ r.vixPct >= p
  IN IF ~Known(r, {"ret1", "ret5", "ret21", "volPct"}) THEN "unknown"
     ELSE FirstMatch(
       << <<\/ r.ret1 <= -5 \/ r.ret5 <= -8
            \/ r.volPct >= 90 /\ r.ret21 <= -5
            \/ vixAtLeast(95), "crisis_vol">>,
          <<r.volPct >= 80 \/ vixAtLeast(80), "high_vol">>,
          <<r.volPct <= 30, "low_vol">> >>,
       "normal_vol")

RisingVol(r) ==
  /\ Known(r, {"atrRatio", "vol10", "vol63"})
  /\ r.atrRatio > VolT.atrRatio \/ 100 * r.vol10 > VolT.volRatio * r.vol63

(* Without an implied volatility or an event calendar the rule is silent.  *)
VolCrush(r) ==
  /\ Known(r, {"vol10", "vol21", "ivChange"})
  /\ 100 * r.vol10 < VolT.crushRatio * r.vol21
  /\ r.ivChange <= VolT.ivChange /\ r.eventJustPassed

VolLabel(r) ==
  LET v1 == VolV1(r)
  IN FirstMatch(<< <<v1 # "crisis_vol" /\ VolCrush(r), "vol_crush">>,
                   <<v1 \notin {"crisis_vol", "high_vol"} /\ RisingVol(r),
                     "rising_vol">> >>, v1)

(***************************************************************************)
(* Breadth.  The v2 readings are taken with their value five sessions      *)
(* earlier; thrust is the advancing share, with its lowest value of the    *)
(* ten sessions before.                                                    *)
(***************************************************************************)
BreadthRank ==
  [breadth_thrust |-> 0, healthy_breadth |-> 0, broadening_breadth |-> 0,
   neutral_breadth |-> 1, recovery_breadth |-> 1, weak_breadth |-> 2,
   narrowing_breadth |-> 2, unknown |-> 2, divergent_fragile |-> 3]

BreadthV1(r) ==
  IF ~Known(r, {"ratio", "ratioSma", "ratioRet20", "offHigh"}) THEN "unknown"
  ELSE FirstMatch(
    << <<r.offHigh >= -5 /\ r.ratio < r.ratioSma /\ r.ratioRet20 <= -3,
         "divergent_fragile">>,
       <<r.ratio < r.ratioSma /\ r.ratioRet20 < 0, "weak_breadth">>,
       <<r.ratio > r.ratioSma /\ r.ratioRet20 >= 0, "healthy_breadth">> >>,
    "neutral_breadth")

Thrust(r) ==
  Known(r, {"thrust", "thrustLow"}) /\ 1000 * r.thrust > 61500 /\ r.thrustLow < 40

Narrowing(r) ==
  /\ Known(r, {"above50", "above50Back", "above200", "above200Back", "nhnl"})
  /\ r.above50 < r.above50Back /\ r.above200 < r.above200Back /\ r.nhnl < BreadthT.nhnl

HighsRising(r) == Known(r, {"nhnl", "nhnlBack", "adSlope"}) /\ r.nhnl > r.nhnlBack

BreadthLabel(r) ==
  LET v1 == BreadthV1(r)
  IN FirstMatch(
       << <<Thrust(r), "breadth_thrust">>,
          <<v1 = "divergent_fragile", "divergent_fragile">>,
          <<Narrowing(r), "narrowing_breadth">>,
          <<HighsRising(r) /\ r.adSlope <= 0, "recovery_breadth">>,
          <<HighsRising(r) /\ r.adSlope > 0, "broadening_breadth">> >>, v1)

(***************************************************************************)
(* Volume and liquidity.  While the gap percentiles warm up the raw gap    *)
(* readings stand in for them, and only they.                              *)
(***************************************************************************)
VolumeRank ==
  [normal_volume |-> 0, unknown |-> 1, liquidity_gap_behavior |-> 2,
   panic_volume |-> 3]

GapsRanked(r) == Known(r, {"gapPct", "rangePct"})

Panic(r) ==
  Known(r, {"volumeZ", "ret1"}) /\ r.volumeZ > VolumeT.zscore /\ r.ret1 < VolumeT.ret1

GapPath(r) ==
  IF GapsRanked(r)
  THEN IF r.gapPct > VolumeT.gapPct /\ r.rangePct > VolumeT.rangePct THEN "percentile" ELSE "none"
  ELSE IF /\ VolumeT.coldStart /\ Known(r, {"gaps", "range"})
          /\ r.gaps >= VolumeT.rawGaps /\ r.range >= VolumeT.rawRange
       THEN "cold_start_fallback" ELSE "none"

VolumeLabel(r) ==
  FirstMatch(
    << <<Panic(r), "panic_volume">>,
       <<GapPath(r) # "none", "liquidity_gap_behavior">>,
       <<Known(r, {"volumeZ", "ret1"}) /\ GapsRanked(r), "normal_volume">> >>,
    "unknown")
=============================================================================
