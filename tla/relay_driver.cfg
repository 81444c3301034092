SPECIFICATION FairSpec
CONSTANTS
    HardMax <- MCHardMax
    BackflushMax <- MCBackflushMax
    CloseLimits <- MCCloseLimits
    CompatibilityMode = FALSE
    LogicalWalls = TRUE
    MaxCallbackDelay = 1
    Generations = 2
    Faults = {"gptimer", "esp_timer", "pin"}
INVARIANTS
    ClosureIsSupervised
    ContactTimeBound
    OpenIsPublished
    CutReachesControl
PROPERTIES
    NoStaleAlarm
    ClosureEnds
