SPECIFICATION MCSpec
CONSTANTS
    A1 = A1
    A2 = A2
    SA = SA
    SB = SB
    F1 = F1
    F2 = F2
    C1 = C1
    C2 = C2
    Agent <- MCAgent
    Service <- TwoServices
    ServiceOf <- Apart
    Readers <- Nobody
    Sorted <- TwoFiles
    Content <- OneContent
    Absent = Absent
    Unobserved = Unobserved
    Size <- OneSize
    Quota = 3
    Obedient = TRUE
    MaxWrites = 2
    MaxOutside = 1
    MaxErrors = 1
    UndoMayFail = FALSE
SYMMETRY Interchange
INVARIANTS
    FilesTypeOK
    
    BatchAtomic
    NoLostUpdate
    MemoryIsTrue
PROPERTIES
    BothSidesKept
    FactsAreNotOverwritten
CHECK_DEADLOCK FALSE
