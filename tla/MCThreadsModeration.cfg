SPECIFICATION Spec
CONSTANTS
    NULL = NULL
    Users = {u1}
    Requests = {r1, r2}
    Operations <- AllRoutes
    Citations <- NoCitations
    ThreadPostLimit = 2
    PostInterval = 1
    Second = 1
    Retention = 0
    MaxThreads = 1
    MaxLog = 3
    MaxClock = 2
SYMMETRY Symmetry
INVARIANTS
    NothingPostedAfterClosing
    LogExplainsState
    NoOrphans
PROPERTIES
    RateLimitedMeansWait
    ImplementsConversation
CHECK_DEADLOCK FALSE
