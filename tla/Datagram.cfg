SPECIFICATION FairSpec
CONSTANTS
    High = 1
    Low = 0
    MaxSends = 3
    MaxReceived = 1
    MaxDepth = 2
INVARIANTS Flushed PausedForAReason
PROPERTY CloseCompletes
CHECK_DEADLOCK FALSE
