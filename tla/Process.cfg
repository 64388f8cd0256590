SPECIFICATION FairSpec
CONSTANTS
    MaxData = 1
    Written = {1}
    Redirections = {{}, {1}, {0, 1}, {1, 2}}
INVARIANTS CallsInOrder ToldOnce LostIsLastOnceReady
PROPERTIES LossIsReported CloseEnds NothingLeftBehind
CHECK_DEADLOCK FALSE
