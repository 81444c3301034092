SPECIFICATION Spec
CONSTANTS
    Capacity = 2
    Configs <- Timed
INVARIANTS
    ActiveIsClosedOrTripped
