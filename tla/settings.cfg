SPECIFICATION FairSpec
CONSTANTS
    MaxEdits <- MCMaxEdits
    MaxNetworks = 1
    MaxRevision = 4
    MaxAttempts = 1
    Commands <- SavingCommands
    LeaseFreeSaves = TRUE
INVARIANT LastPutLoads
PROPERTY EditsReachFlash
