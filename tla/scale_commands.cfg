SPECIFICATION FairSpec
CONSTANTS
  Bounds <- MCBounds
  MaxAttempts = 2
  Beeps <- OneBeep
  WriteFaults = TRUE
INVARIANTS CommandIsForItsShot
PROPERTIES PowerOffHolds TimerIsStopped
