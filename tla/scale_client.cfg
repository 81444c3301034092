SPECIFICATION ClientFairSpec
CONSTANTS
  MaxScans = 2
  MaxCommands = 1
  MaxResets = 1
  RadioFaults = TRUE
INVARIANTS OneOwnedLink
PROPERTIES SilenceIsKept CleanupEnds
CHECK_DEADLOCK FALSE
