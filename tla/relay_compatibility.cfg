SPECIFICATION Spec
CONSTANTS
    HardMax <- MCHardMax
    BackflushMax <- MCBackflushMax
    CloseLimits <- MCCloseLimits
    CompatibilityMode = TRUE
    LogicalWalls = TRUE
    MaxCallbackDelay = 1
    Generations = 2
    Faults = {"esp_timer", "watchdog"}
PROPERTIES
    ImplementsContract
