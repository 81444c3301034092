SPECIFICATION DiscoveryFairSpec
CONSTANTS
    Scales = {"a", "b"}
    Modes = {"FIRST", "PREFER", "ONLY"}
    ClockRange = 16
    PauseTicks = 1
    MaxClock = 2
    MaxChanges = 1
INVARIANT CleanIsSaved
PROPERTY OnlyMeansOnly
CHECK_DEADLOCK FALSE
