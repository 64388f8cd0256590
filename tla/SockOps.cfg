SPECIFICATION FairSpec
CONSTANTS
    Recvs = {r1}
    Sends = {s1}
    Connects = {k1}
    Callbacks = {u1}
    NoOp = NoOp
    Length = 3
    MaxIn = 1
    MaxRoom = 2
    ErrorsPersist = TRUE
INVARIANTS StillWaiting NoStaleHandle SocketLifetime
PROPERTY WriterEnds
CHECK_DEADLOCK FALSE
