SPECIFICATION Spec
CONSTANTS
    Cpus <- MCCpus
    Forecasts <- MCForecasts
    Targets <- MCTargets
    Replicas <- MCReplicas
    Bounds <- MCBounds
INVARIANTS
    TypeOK
    DirectionFollowsSignal
    HybridForecastOnlyRetains
    LeadIsBounded
    MonotoneInSignal
    ToleranceNeverHidesBounds
CHECK_DEADLOCK FALSE
