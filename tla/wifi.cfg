SPECIFICATION WifiFairSpec
CONSTANTS
    Networks = {A, B}
    Known = {A}
    None = None
    MaxWifiEvents = 2
    Attempts = 2
PROPERTIES ConfirmsWhatWasJoined ProbationSettles
CHECK_DEADLOCK FALSE
