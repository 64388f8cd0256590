CONSTANTS
    MaxBytes = 3
    Limits <- MCLimits
    Awaited = FALSE
    Interrupts = FALSE
SPECIFICATION FairSpec
INVARIANTS NoStrandedData LostIsReported
PROPERTIES CloseCompletes PauseEnds
CHECK_DEADLOCK FALSE
