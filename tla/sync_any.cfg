SPECIFICATION Spec
CONSTANTS
    NThreads = 2
    MutexKinds = {FALSE}
    SemCounts = {0}
    MaxMutex = 1
    MaxSem = 1
    MaxCondvar = 1
    MaxUnits = 2
    OverflowChecks = FALSE
    None = None
    Discipline = {}
INVARIANTS
    TypeOK
    ColumnsBalance
    BlockedIffQueued
CHECK_DEADLOCK FALSE
