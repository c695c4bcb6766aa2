SPECIFICATION Spec
CONSTANTS
    Divisor = 2
    MinWidth = 1
    Monotonic = TRUE
    Procs = {1}
    Policies <- TwoPolicies
    Cpus = {0, 80}
    Forecasts = {50}
    Counts = {1, 3}
    MaxSampleAge = 1
    Horizon = 2
    Kinds = {"edit", "delete", "create", "target", "scale", "crash", "fault", "slow"}
    MaxEvents = 2
INVARIANTS
    TypeOK
    NeverForgotten
PROPERTIES
    WritesOwnBase
    StatusOfLiveGeneration
    NoReductionSoonAfterRestart
