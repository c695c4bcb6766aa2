\* one process, disturbances of every kind, then quiet: what must come about
SPECIFICATION FairSpec
CONSTANTS
    Divisor = 2
    MinWidth = 1
    Monotonic = TRUE
    Procs = {1}
    Policies <- BreakingPolicies
    Cpus = {0, 80}
    Forecasts = {50}
    Counts = {2}
    MaxSampleAge = 1
    Horizon = 2
    Kinds = {"edit", "target", "scale", "crash", "fault", "slow", "relist"}
    MaxEvents = 2
PROPERTIES
    DemandIsMet
    CapacityIsReleased
    StatusCatchesUp
