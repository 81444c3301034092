SPECIFICATION WebhookSpec
CONSTANTS
    HookConfigs <- Receivers
    HookKinds = {"brew_state", "started", "test"}
    QueueDepth = 2
    PostAttempts = 2
    MaxPosts = 2
    MaxSaves = 1
    MaxGates = 0
INVARIANT EnablingKeepsWorker
CHECK_DEADLOCK FALSE
