\* The atomicity contract as its comment has it.
SPECIFICATION Spec
CONSTANTS
    N = 3
    Contents = {"new", "other"}
    Absent = Absent
    Manifest <- PinnedToNew
    MaxFaults = 2
INVARIANTS
    AllOrNothing
CHECK_DEADLOCK FALSE
