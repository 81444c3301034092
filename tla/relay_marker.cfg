SPECIFICATION Spec
CONSTANTS
    HardMax <- MCHardMax
    BackflushMax <- MCBackflushMax
    CloseLimits <- MCCloseLimits
    CompatibilityMode = FALSE
    LogicalWalls = FALSE
    MaxCallbackDelay = 1
    Generations = 2
    Faults = {}
INVARIANT
    CloseIsLatched
