SPECIFICATION Spec
CONSTANTS
    Sessions <- Week
    LastDay = 4
    FirstDay = 1
    Required = 2
    Configs = {a, b}
    VersionOf <- OneVersion
    Feeds <- OneFeed
    MaxMishaps = 2
SYMMETRY Alike
INVARIANTS
    QualifiesIffClean
    OneConfigPerWindow
    MissedSessionStaysMissed
    SuccessKeepsOutput
CHECK_DEADLOCK FALSE
