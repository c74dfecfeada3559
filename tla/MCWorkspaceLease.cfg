SPECIFICATION FairSpec
CONSTANTS
    P1 = P1
    P2 = P2
    Rewind = Rewind
    Tool = Tool
    Batch = Batch
    Shell = Shell
    Proc <- MCProc
    Thread <- MCThread
    ProcOf <- MCProcOf
    Owner <- CrossOwner
    Claim <- MCClaim
    Wanted <- CrossWanted
    MaxBirths = 2
    Repeats = TRUE
INVARIANTS
    TypeOK
    WritersExclude
    RowsMatchHolders
PROPERTIES
    NoLeaseStolen
    ImplementsRegions
    CancelledThreadReturns
