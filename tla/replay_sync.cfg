SPECIFICATION ReplaySpec
CONSTANTS
  Labels <- TrendLabels
  Unknown = "unknown"
  None = None
  Rank <- TrendRank
  EscDays <- TrendEscDays
  DeescDays <- TrendDeescDays
  Warmup = 12
CHECK_DEADLOCK FALSE
INVARIANT SyncedAgree
PROPERTY AgreementIsPermanent
