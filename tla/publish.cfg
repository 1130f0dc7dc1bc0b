\* Two artifacts, one of them a daily OHLCV file, and three contents, one of them
\* in breach of its contract: a fetch can bring back bytes that were published
\* before, and a publish may take one artifact, both or none.
SPECIFICATION PublishSpec
CONSTANTS
    N = 2
    Contents = {"c1", "c2", "c3"}
    First = "c1"
    Daily = {1}
    Barred = {"c3"}
    NoFile = NoFile
    NoObject = NoObject
    PartialCopy = PartialCopy
    Logical = Logical
    MaxFetches = 3
    MaxKills = 2
INVARIANTS
    PinnedStaysFetchable
PROPERTIES
    PatchedIsRaw
    PublishConverges
CHECK_DEADLOCK FALSE
