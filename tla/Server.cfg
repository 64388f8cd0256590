SPECIFICATION FairSpec
CONSTANTS
    Sockets = {s1, s2}
    Conns = {c1, c2, c3}
    Waiters = {w1}
    NoConn = NoConn
INVARIANTS NobodyLeftWaiting WokenWhenIdle
PROPERTY KeepsAccepting
CHECK_DEADLOCK FALSE
