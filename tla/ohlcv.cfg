\* Two symbols and two dates: one file can be torn or missing while the other
\* is whole, and a window can begin after the first date.
SPECIFICATION Spec
CONSTANTS
    NSymbols = 2
    NDates = 2
    Torn = Torn
    MaxVersion = 2
    MaxRuns = 4
    MaxFaults = 2
INVARIANTS
    HistoryIsKept
PROPERTIES
    ImportIsWhole
CHECK_DEADLOCK FALSE
