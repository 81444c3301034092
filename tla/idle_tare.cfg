SPECIFICATION FairSpec
CONSTANTS
 MaxRequests = 2
 MaxMoves = 2
 MaxShots = 1
 MaxGenerations = 2
 MaxNoise = 1
 MaxDebugTares = 1
 WindowCapacity = 2
 QueueCapacity = 1
INVARIANTS ReferenceMatchesScale
PROPERTIES NoClaimInShot
CHECK_DEADLOCK FALSE
