SPECIFICATION Spec
CONSTANTS
    N = 3
    Contents = {"new", "other"}
    Absent = Absent
    Manifest <- PinnedToNew
    MaxFaults = 2
INVARIANTS
    OldOrPinned
    OneSeam
    WholeOrRestored
PROPERTIES
    RerunsRepair
CHECK_DEADLOCK FALSE
