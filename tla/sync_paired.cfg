SPECIFICATION Spec
CONSTANTS
    NThreads = 3
    MutexKinds = {TRUE}
    SemCounts = {1, 2}
    MaxMutex = 2
    MaxSem = 1
    MaxCondvar = 0
    MaxUnits = 3
    OverflowChecks = TRUE
    None = None
    Discipline = {"valid_ids", "paired"}
INVARIANTS
    LedgerAgreesWithPrimitives
    MatrixInvariant
    BlockedIffQueued
    KernelNeverPanics
CHECK_DEADLOCK FALSE
