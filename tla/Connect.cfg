SPECIFICATION FairSpec
CONSTANTS
    N = 3
    Modes = {"host", "sock", "accepted"}
INVARIANT FailureCleansUp
PROPERTIES OneConnection CoroutineEnds
CHECK_DEADLOCK FALSE
