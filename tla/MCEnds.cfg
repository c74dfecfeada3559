SPECIFICATION MCSpec
CONSTANTS
    P1 = P1
    P2 = P2
    Rewind = Rewind
    Tool = Tool
    Batch = Batch
    S1 = S1
    S2 = S2
    NoPath = NoPath
    None = None
    A1 = A1
    A2 = A2
    SA = SA
    SB = SB
    F1 = F1
    F2 = F2
    C1 = C1
    C2 = C2
    Agent <- MCAgent
    Service <- TwoServices
    ServiceOf <- Together
    Readers <- Nobody
    Sorted <- TwoFiles
    Content <- OneContent
    Absent = Absent
    Unobserved = Unobserved
    Size <- OneSize
    Quota = 3
    Obedient = TRUE
    MaxWrites = 2
    MaxOutside = 0
    MaxErrors = 1
    UndoMayFail = TRUE
PROPERTY
    WorkspaceEnds
CHECK_DEADLOCK FALSE
