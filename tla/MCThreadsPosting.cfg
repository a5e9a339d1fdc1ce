SPECIFICATION Spec
CONSTANTS
    NULL = NULL
    Users = {u1, u2}
    Requests = {r1, r2}
    Operations <- PostingRoutes
    Citations <- SomeCitations
    ThreadPostLimit = 3
    PostInterval = 3
    Second = 2
    Retention = 0
    MaxThreads = 2
    MaxLog = 0
    MaxClock = 3
SYMMETRY Symmetry
INVARIANTS
    Coherent
    PostsAreSpaced
    AdvisedWaitIsExact
    NobodyPostsAfterWithdrawing
CHECK_DEADLOCK FALSE
