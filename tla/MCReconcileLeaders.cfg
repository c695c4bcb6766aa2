\* two processes whose leadership overlaps
SPECIFICATION Spec
CONSTANTS
    Divisor = 2
    MinWidth = 1
    Monotonic = TRUE
    Procs = {leader, paused}
    Policies <- QuickPolicy
    Cpus = {0, 80}
    Forecasts = {50}
    Counts = {2}
    MaxSampleAge = 0
    Horizon = 1
    Kinds = {"cpu"}
    MaxEvents = 1
SYMMETRY ProcSymmetry
PROPERTIES
    WritesOwnBase
