\* expected to be violated: a wall-clock rollback is invisible to Before when
\* the readings are monotonic
SPECIFICATION Spec
CONSTANTS
    Divisor = 2
    MinWidth = 1
    Monotonic = TRUE
    Identities <- OneIdentity
    Windows = {4}
    Replicas = {1, 3}
    MaxInt32 = 2147483647
    Bounds <- OneBound
    WallSteps <- SetBack
    MaxTime = 5
    MaxDistinct = 2
    MaxEntries = 5
PROPERTY
    RollbackRebuildsProtection
CHECK_DEADLOCK FALSE
