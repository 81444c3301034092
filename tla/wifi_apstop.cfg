SPECIFICATION WifiSpec
CONSTANTS
    Networks = {A, B}
    Known = {A}
    None = None
    MaxWifiEvents = 2
    Attempts = 2
PROPERTY ApStopIsObeyed
CHECK_DEADLOCK FALSE
