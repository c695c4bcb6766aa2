\* one identity and window, a clock that only advances: buckets and retention
SPECIFICATION Spec
CONSTANTS
    Divisor = 2
    MinWidth = 1
    Monotonic = TRUE
    Identities <- OneIdentity
    Windows = {4}
    Replicas = {1, 2, 3}
    MaxInt32 = 2147483647
    Bounds <- OneBound
    WallSteps <- NoSteps
    MaxTime = 6
    MaxDistinct = 4
    MaxEntries = 5
INVARIANTS
    NeverExpiresEarly
    RetainsNoMore
    NeverInitiatesExpansion
PROPERTY
    ImplementsRollingMaximum
CHECK_DEADLOCK FALSE
