SPECIFICATION BatchSpec
CONSTANTS
    Root = Root
    Dir = Dir
    Leaf = Leaf
    Other = Other
    R = R
    A = A
    B = B
    Token = {R, A, B}
    TopToken = R
    ParentOf <- Chain
    S1 = S1
    S2 = S2
    C1 = C1
    C2 = C2
    C3 = C3
    Session = {S1, S2}
    Call = {C1, C2, C3}
    CallOf <- Owners
    Limit = 1
    MaxBudgets = 3
    Sizes <- TwoThenOne
    CallBudget = 2
    Deferred = {"t1"}
    MaxRevision = 3
    FreshIds = FALSE
INVARIANT CallsAreAnswered
CHECK_DEADLOCK FALSE
