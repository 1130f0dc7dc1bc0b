SPECIFICATION Spec
CONSTANTS
  Labels <- VolLabels
  Unknown = "unknown"
  None = None
  Rank <- VolRank
  EscDays <- ConfirmedEsc
  DeescDays <- VolDeescDays
  FreezeChoices = {0, 2}
  MaxSessions = 11
CHECK_DEADLOCK FALSE
INVARIANTS
  TypeOK
  LongRunWins
  HoldBounded
PROPERTIES
  ConfirmedLeave
  HoldContinues
  ImplementsMemory
