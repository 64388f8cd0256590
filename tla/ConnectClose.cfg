SPECIFICATION Spec
CONSTANTS
    N = 1
    Modes = {"sock"}
INVARIANT NoDoubleClose
CHECK_DEADLOCK FALSE
