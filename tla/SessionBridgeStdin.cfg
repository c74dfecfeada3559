SPECIFICATION FairSpec
CONSTANTS
    MaxRequests = 3
    MaxSessions = 2
    MaxCloses = 1
    Controls = FALSE
PROPERTY StdinReturns
CHECK_DEADLOCK FALSE
