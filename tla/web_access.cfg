SPECIFICATION WebAccessSpec
CONSTANTS
    Devices = {"a"}
    Slots = 1
    RememberDays = 2
    MaxDay = 2
    MaxTokens = 2
    MaxPairs = 2
    MaxChangesQueued = 1
    MaxRestarts = 1
    MaxFailures = 1
INVARIANT UnmarkedIsSaved
PROPERTY ApprovesWhatWasShown
CHECK_DEADLOCK FALSE
