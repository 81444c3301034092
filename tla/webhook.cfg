SPECIFICATION WebhookFairSpec
CONSTANTS
    HookConfigs <- Receivers
    HookKinds = {"brew_state", "started", "test"}
    QueueDepth = 2
    PostAttempts = 2
    MaxPosts = 2
    MaxSaves = 1
    MaxGates = 1
INVARIANT RightReceiver
PROPERTY SupersededHasSuccessor
PROPERTY EventSettles
CHECK_DEADLOCK FALSE
