SPECIFICATION StaleSpec
CONSTANTS
    S1 = S1
    S2 = S2
    P1 = P1
    P2 = P2
    F1 = F1
    F2 = F2
    C1 = C1
    C2 = C2
    T1 = T1
    T2 = T2
    F3 = F3
    F4 = F4
    C3 = C3
    Session <- MCSession
    Proc <- MCProc
    ProcOf <- MCProcOf
    File = {F1}
    Content = {Absent, C1}
    Absent = Absent
    NoPath = NoPath
    None = None
    MaxRows = 1
    MaxTurns = 1
    MaxOutside = 0
    MaxCrashes = 0
    MaxErrors = 1
    MaxRewinds = 1
    MaxOpens = 1
    RollbackMayFail = TRUE
INVARIANT CompletedTurnsSurvive
CHECK_DEADLOCK FALSE
