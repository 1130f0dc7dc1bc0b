SPECIFICATION Spec
CONSTANTS
  Trends <- SomeTrends
  Characters <- SomeCharacters
  Vols <- SomeVols
  Breadths <- SomeBreadths
  Scores <- SomeScores
  NoScore = NoScore
  None = None
  RequiredDays <- ShippedDays
  InitialState = "stable"
  CooldownDays = 2
  SwitchHorizon = 4
  BearHorizon = 2
CHECK_DEADLOCK FALSE
INVARIANTS
  CrisisShows
  QuietCooldownIsPending
  RequestedRowsKnown
PROPERTY ConfirmedState
