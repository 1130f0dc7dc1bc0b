SPECIFICATION AxisSpec
CONSTANTS
  NaN = NaN
  None = None
  TrendT <- ShippedTrend
  CharacterT <- ShippedCharacter
  VolT <- ShippedVol
  BreadthT <- ShippedBreadth
  VolumeT <- ShippedVolume
  NetworkT <- ShippedNetwork
  CreditT <- ShippedCredit
  GrowthT <- ShippedGrowth
  MonetaryT <- ShippedMonetary
  Axes = {"trend", "character", "vol", "breadth", "volume", "network", "credit", "growth", "monetary"}
  Values <- TheValues
  Breadths = {"unknown", "weak_breadth"}
  Vols = {"unknown", "crisis_vol"}
  Credits = {None, "unknown", "credit_calm", "spread_widening", "credit_stress"}
INVARIANT UnknownMeansMissing
PROPERTY WorseNeverCalmer
