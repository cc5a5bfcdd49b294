SPECIFICATION InputSpec
CONSTANTS
    NThreads = 3
    NResources = 2
    MaxFree = 2
    MaxHeld = 1
INVARIANT
    ScanDecidesSafety
