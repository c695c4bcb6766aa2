\* identities, windows and bounds change, the process restarts, and the single
\* reading of the clock is set back (times without a monotonic reading)
SPECIFICATION Spec
CONSTANTS
    Divisor = 2
    MinWidth = 1
    Monotonic = FALSE
    Identities <- ThreeIdentities
    Windows = {0, 2}
    Replicas = {1, 3}
    MaxInt32 = 2147483647
    Bounds <- TwoBounds
    WallSteps <- SetBack
    MaxTime = 4
    MaxDistinct = 2
    MaxEntries = 5
INVARIANTS
    TypeOK
    ProtectsColdStart
PROPERTIES
    RollbackRebuildsProtection
    ImplementsRollingMaximum
CHECK_DEADLOCK FALSE
