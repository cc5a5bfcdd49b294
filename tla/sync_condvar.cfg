SPECIFICATION Spec
CONSTANTS
    NThreads = 2
    MutexKinds = {TRUE}
    SemCounts = {}
    MaxMutex = 1
    MaxSem = 0
    MaxCondvar = 1
    MaxUnits = 3
    OverflowChecks = FALSE
    None = None
    Discipline = {"valid_ids", "paired"}
INVARIANT
    LedgerAgreesWithPrimitives
CHECK_DEADLOCK FALSE
