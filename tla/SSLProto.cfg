SPECIFICATION Spec
CONSTANTS
    Kinds = {"server", "upgrade"}
    MaxOut = 1
    MaxIn = 1
    MaxReads = 1
    ReadLimits <- MCReadLimits
    WriteLimits <- MCWriteLimits
INVARIANTS FlushedFirst PeerCannotHang FlowResumes
PROPERTY AppOrder
CHECK_DEADLOCK FALSE
