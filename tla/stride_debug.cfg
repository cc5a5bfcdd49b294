SPECIFICATION HSpec
CONSTANTS
    Task = {init, a, b}
    NoTask = NoTask
    InitProc = init
    Stayers = {init}
    BigStride = 4
    StrideModulus = 8
    DefaultPriority = 4
    Priorities = {1, 2, 4}
    Clock = {0, 1}
    OverflowChecks = TRUE
INVARIANTS
    TypeOK
    QueueHoldsTheReady
PROPERTIES
    ImplementsSched
    FetchesLeastStrideFirst
CHECK_DEADLOCK FALSE
