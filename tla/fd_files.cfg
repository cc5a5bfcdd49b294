SPECIFICATION Spec
CONSTANTS
    Task = {init, a}
    InitProc = init
    Name = {f, g}
    None = None
    Stdin = Stdin
    Stdout = Stdout
    MaxFd = 4
    Closable = {4}
    MaxOpen = 2
    MaxInode = 2
    MaxSize = 1
    Lens = {0, 1}
    Flags <- ValidFlags
    FileMode = 2
    InodeAreaStart = 2
    InodesPerBlock = 2
    Careful = TRUE
INVARIANTS
    TypeOK
    KernelNeverPanics
PROPERTIES
    OffsetMovesWithinFile
SYMMETRY Names
