SPECIFICATION MCSpec
CONSTANTS
    Agent = {"a1", "a2"}
    Worker = {"a1"}
    MaxOpen = 2
    Threads = 1
    MaxMessages = 1
    Job = {"j1"}
    MaxWorkers = 2
    MaxChanges = 2
    Process = {"p1", "p2"}
    Home = "p1"
    MaxPieces = 2
    MaxOrders = 1
    Server = {1, 2}
    MaxEdits = 3
    MaxVersion = 3
INVARIANTS
    AgentsTypeOK
    HelpersKeepTheirWord
PROPERTIES
    HelpersEnd
CHECK_DEADLOCK FALSE
