SPECIFICATION MCSpec
CONSTANTS
    Process = {P1, P2}
    Session = {S1, S2, S3}
    None = None
    MaxBirths = 2
    MaxFailures = 1
    P1 = P1
    S1 = S1
    Tool = {T1, T2}
    MaxLifeTurns = 3
    MaxTimeouts = 2
    MaxTurns = 3
    MaxMessages = 2
    MaxRewinds = 2
    MaxStops = 1
    MaxSwitches = 1
INVARIANTS
    SessionsTypeOK
    HistoryIsTrue
    
    TabsAreTrue
    TranscriptIsTrue
    ViewIsTrue

    
CHECK_DEADLOCK FALSE
