SPECIFICATION BuzzerFairSpec
CONSTANTS
    Catalog <- SomeSounds
    Melody = "melody"
    MaxRequests = 4
    MaxTests = 1
    MaxTimerFailures = 1
PROPERTY WaitingAlarmSounds
PROPERTY TestTuneIsForTheTest
PROPERTY SoundsEnd
CHECK_DEADLOCK FALSE
