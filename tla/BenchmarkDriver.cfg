SPECIFICATION FairSpec
CONSTANTS
    c1 = c1
    Clients = {c1}
    MaxRuns = 2
    MaxDrivers = 2
    MaxSessions = 2
    ResumeLimit = 1
    MaxCrashes = 2
    MaxLost = 0
    MaxRequests = 1
INVARIANTS
    OneDriver
    StopIsPrompt
    ResumedOnce
PROPERTIES
    EveryDriverEnds
CHECK_DEADLOCK FALSE
