SPECIFICATION Spec
CONSTANTS
  Registry <- TheRegistry
  MaxWorkers = 2
  Served <- TheServed
  OtherDb <- Other
  NoSource = NoSource
  NoFile = NoFile
  Torn = Torn
  Scripts <- TheScripts
  MaxFaults = 1
INVARIANT OkRunIsWhole
INVARIANT ManifestOfFinishedRuns
PROPERTY HistoryOnlyGrows
PROPERTY InvocationsEnd
CHECK_DEADLOCK FALSE
