SPECIFICATION Spec
CONSTANTS
  NaN = NaN
  None = None
  TrendT <- ShippedTrend
  CharacterT <- ShippedCharacter
  VolT <- ShippedVol
  BreadthT <- ShippedBreadth
  VolumeT <- ShippedVolume
  NetworkT <- ShippedNetwork
  CreditT <- ShippedCredit
  GrowthT <- ShippedGrowth
  MonetaryT <- ShippedMonetary
  Weights <- ShippedWeights
  MinCoverage = 75
  BandFloors <- ShippedBands
  Overrides <- ShippedOverrides
  Scales <- ShippedScales
  NeverSeen = 1000
  MaxFreshness = 3
  MinComplete = 90
  Floor = 70
  EventRules <- ShippedEvents
  RoutingRules <- ShippedRouting
  BlockedModes <- ShippedBlocked
  FamilyDefault <- ShippedFamilies
  FamilyOverride <- ShippedFamilyOverrides
  Days <- TheDays
  Requests <- TheRequests
  KeepSets <- TheKeepSets
  Hold = 2
  SentimentStale = 40
  RiskStates = {"stable", "high_transition_risk"}
INVARIANT OutageNeverCalms
INVARIANT EventsOnlyTighten
INVARIANT EffectiveAtLeastSignals
INVARIANT SafeMeansUsable
PROPERTY CrisisIsHeld
