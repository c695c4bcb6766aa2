\* expected to be violated: a write whose cycle ends before the status patch
\* is never entered in lastScaleTime
SPECIFICATION Spec
CONSTANTS
    Divisor = 2
    MinWidth = 1
    Monotonic = TRUE
    Procs = {1}
    Policies <- RetunedPolicies
    Cpus = {80}
    Forecasts = {50}
    Counts = {2}
    MaxSampleAge = 1
    Horizon = 2
    Kinds = {"edit"}
    MaxEvents = 1
PROPERTY
    LastScaleTimeIsLatest
