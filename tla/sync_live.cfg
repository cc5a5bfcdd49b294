SPECIFICATION LiveSpec
CONSTANTS
    NThreads = 2
    MutexKinds = {TRUE}
    SemCounts = {}
    MaxMutex = 2
    MaxSem = 0
    MaxCondvar = 0
    MaxUnits = 3
    OverflowChecks = FALSE
    None = None
    Discipline = {"valid_ids", "paired", "create_first", "quiet_toggle"}
    NoTask = NoTask
    BigStride = 4
    StrideModulus = 8
    DefaultPriority = 4
    Clock = {1}
PROPERTIES
    NoLockerBlocksForEver
    EverySleeperRuns
CHECK_DEADLOCK FALSE
