SPECIFICATION Spec
CONSTANTS
    NThreads = 2
    MutexKinds = {TRUE}
    SemCounts = {1, 2}
    MaxMutex = 2
    MaxSem = 2
    MaxCondvar = 0
    MaxUnits = 3
    OverflowChecks = TRUE
    None = None
    Discipline = {"valid_ids", "paired", "create_first", "quiet_toggle"}
INVARIANT
    NoDeadlockWithinClass
PROPERTIES
    RefusedOnlyIfDeadlock
    RefusalChangesNothing
CHECK_DEADLOCK FALSE
