SPECIFICATION LedgerSpec
CONSTANTS
    S1 = S1
    S2 = S2
    P1 = P1
    P2 = P2
    F1 = F1
    F2 = F2
    C1 = C1
    C2 = C2
    T1 = T1
    T2 = T2
    F3 = F3
    F4 = F4
    C3 = C3
    Session <- MCSession
    Proc <- OneProc
    ProcOf <- OneProcOf
    File = {F1}
    Content = {Absent, C1, C2}
    Absent = Absent
    NoPath = NoPath
    None = None
    MaxRows = 3
    MaxTurns = 1
    MaxOutside = 1
    MaxCrashes = 0
    MaxErrors = 0
    MaxRewinds = 2
    MaxOpens = 0
    RollbackMayFail = FALSE
INVARIANTS
    LedgerTypeOK
    WorkSurvivesRecovery
    RewindsAreExact
PROPERTIES
    AllOrNothing
CHECK_DEADLOCK FALSE
SYMMETRY Interchangeable
