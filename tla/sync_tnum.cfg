SPECIFICATION Spec
CONSTANTS
    NThreads = 2
    MutexKinds = {TRUE}
    SemCounts = {}
    MaxMutex = 1
    MaxSem = 0
    MaxCondvar = 0
    MaxUnits = 3
    OverflowChecks = TRUE
    None = None
    Discipline = {"valid_ids", "paired", "create_first", "quiet_toggle"}
INVARIANT
    NoDeadlock
CHECK_DEADLOCK FALSE
