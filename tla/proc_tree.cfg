SPECIFICATION PSpec
CONSTANTS
    Task = {init, a, b}
    NoTask = NoTask
    InitProc = init
    Stayers = {init}
    BigStride = 0
    StrideModulus = 8
    DefaultPriority = 4
    Priorities = {1}
    Clock = {}
    OverflowChecks = TRUE
    ClockModulus = 4
    BootTime = 1
    MaxUptime = 3
    PageSize = 2
    MmapArgs <- SomeMmapArgs
INVARIANTS
    ProcTypeOK
    ZombieIsHeldByItsParentOnly
    EveryTaskHasOneParent
PROPERTIES
    ReportedTimeIsElapsed
CHECK_DEADLOCK FALSE
