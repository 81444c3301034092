SPECIFICATION FairSpec
CONSTANTS
 Targets = {t1}
 MaxAttempts = 2
 MaxEvents = 2
INVARIANTS ShotCancelsCommand ShowsThisIdentity
PROPERTIES AcceptedIsSentOnce TemperatureSettles
CHECK_DEADLOCK FALSE
