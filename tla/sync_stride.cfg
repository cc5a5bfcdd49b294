SPECIFICATION SSpec
CONSTANTS
    NThreads = 2
    MutexKinds = {TRUE, FALSE}
    SemCounts = {1}
    MaxMutex = 1
    MaxSem = 1
    MaxCondvar = 1
    MaxUnits = 2
    OverflowChecks = FALSE
    None = None
    Discipline = {"valid_ids", "paired", "create_first", "quiet_toggle"}
    NoTask = NoTask
    BigStride = 4
    StrideModulus = 4
    DefaultPriority = 4
    Clock = {1}
INVARIANT
    QueueHoldsTheReady
PROPERTY
    ImplementsSched
CHECK_DEADLOCK FALSE
