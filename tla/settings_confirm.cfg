SPECIFICATION Spec
CONSTANTS
    MaxEdits <- MCMaxEdits
    MaxNetworks <- MCMaxNetworks
    MaxRevision <- MCMaxRevision
    MaxAttempts <- MCMaxAttempts
    Commands <- AllCommands
    LeaseFreeSaves = TRUE
INVARIANT ConfirmedIsCommitted

