\* expected to be violated: a re-created object seen first in a relist, at the
\* generation of the deleted one, passes no predicate
SPECIFICATION Spec
CONSTANTS
    Divisor = 2
    MinWidth = 1
    Monotonic = TRUE
    Procs = {1}
    Policies <- TwoPolicies
    Cpus = {0}
    Forecasts = {50}
    Counts = {1}
    MaxSampleAge = 0
    Horizon = 2
    Kinds = {"delete", "create", "edit", "relist"}
    MaxEvents = 5
INVARIANT
    NeverForgotten
