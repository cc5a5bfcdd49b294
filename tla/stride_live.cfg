SPECIFICATION FairSpec
CONSTANTS
    Task = {init, a, b}
    NoTask = NoTask
    InitProc = init
    Stayers = {init}
    BigStride = 4
    StrideModulus = 8
    DefaultPriority = 4
    Priorities = {1}
    Clock = {1}
    OverflowChecks = FALSE
INVARIANT
    KernelNeverPanics
PROPERTY
    EveryReadyTaskRuns
