CONSTANTS
    c1 = c1
    c2 = c2
    s1 = s1
    t1 = t1
    t2 = t2
    NoHandle = NoHandle
    Handles <- MCHandles
    StopHandles <- MCStopHandles
    Threads <- MCThreads
SPECIFICATION FairSpec
INVARIANTS NoLostWakeup StopCompletesIteration
PROPERTIES HandleRuns StopReturns ImplementsQueue
CHECK_DEADLOCK FALSE
