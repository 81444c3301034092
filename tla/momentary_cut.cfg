SPECIFICATION MomentarySpec
CONSTANTS
    Builds <- ReedOnRelease
    MaxEvents = 4
PROPERTY CutReachesGroup
