SPECIFICATION SignalsSpec
CONSTANTS
    Sigs = {int, term}
    SigInt = int
    PipeMax = 1
    MaxArrivals = 2
INVARIANTS NothingMissed NothingLost NoPhantom
CHECK_DEADLOCK FALSE
