SPECIFICATION Spec
CONSTANTS
    Capacity = 2
    Configs <- BrewConfigs
INVARIANTS
    ClosureHasOwner
    ActiveIsClosedOrTold
    HistoryIsExact
    ShotLeavesNothing
    LeaseIsQuiet
