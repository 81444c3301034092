SPECIFICATION ServicesSpec
CONSTANTS
    Pieces <- MCPieces
    MaxVersion <- MCMaxVersion
    MaxGeneration <- MCMaxGeneration
    Builds <- SomeBuilds
    MaxEvents = 2
    HookConfigs <- Receivers
    HookKinds = {"brew_state", "started", "test"}
    QueueDepth = 2
    PostAttempts = 2
    MaxPosts = 2
    MaxSaves = 1
    MaxGates = 1
    Scales = {"a", "b"}
    Modes = {"FIRST", "PREFER", "ONLY"}
    ClockRange = 16
    PauseTicks = 1
    MaxClock = 2
    MaxChanges = 1
    Devices = {"a"}
    Slots = 1
    RememberDays = 2
    MaxDay = 1
    MaxTokens = 1
    MaxPairs = 1
    MaxChangesQueued = 1
    MaxRestarts = 1
    MaxFailures = 1
    Catalog <- SomeSounds
    Melody = "melody"
    MaxRequests = 3
    MaxTests = 1
    MaxTimerFailures = 1
    Pages = {"p"}
    Sockets = {1}
    Views = {"settings", "diagnostic", "log", "history", "stats"}
    HomeFits = {"batch"}
    CardFits = {"together", "payload"}
    MaxOpens = 2
    MaxOps = 1
    MaxFaults = 1
    MaxUiChanges = 1
INVARIANT ReportedVersionSurvives
INVARIANT RightReceiver
INVARIANT CleanIsSaved
INVARIANT UnmarkedIsSaved
INVARIANT PageIsWhereTheSessionIs
PROPERTY ImplementsDurableLog
PROPERTY OnlyARunIsCut
PROPERTY WaitingAlarmSounds
CHECK_DEADLOCK FALSE
