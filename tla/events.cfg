SPECIFICATION Spec
CONSTANTS
  Down = Down
  Broken = Broken
  NoDate = NoDate
  NoFigure = NoFigure
  NoToken = NoToken
  None = None
  Absent = Absent
  Torn = Torn
  Sessions <- MCSessions
  YearLength = 24
  MonthLength = 8
  ThirdFriday = 4
  SeasonStarts <- MCSeasonStarts
  SeasonDays = 3
  ExpiryWindow <- MCExpiryWindow
  PublicationLead = 10
  Padding = 8
  AllowV2 = TRUE
  StartYear = 1
  EndYear = 2
  ElectionOffset = 22
  FiscalOffset = 19
  FirstListedYear = 2
  MeetingsPerYear = 2
  ReleasesPerYear = 2
  Cancelled <- MCCancelled
  NewsPages = 2
  MergeDays = 1
  ConfirmDays = 1
  MinHistory = 2
  Threshold = 3
  PageSize = 2
  QuarantineLimit = 8
  Answers <- MCAnswers
  Operators = {op}
  FirstOverlays <- MCFirstOverlays
  Curated <- MCCurated
  Requests <- MCRequests
  CutDays <- MCCutDays
  MaxApprovals = 2
  MaxBuilds = 2
INVARIANTS
  OnlyApprovedShocksFire
  EveryApprovalAnswered
  PointMatchesBulk
  NoForesight
CHECK_DEADLOCK FALSE
