SPECIFICATION Spec
CONSTANTS
    Kinds = {"server"}
    MaxOut = 0
    MaxIn = 1
    MaxReads = 1
    ReadLimits <- MCZeroReadLimits
    WriteLimits <- MCOneWriteLimit
INVARIANT FlowResumes
CHECK_DEADLOCK FALSE
