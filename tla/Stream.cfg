CONSTANTS
    MaxBytes = 3
    Limits <- MCLimits
    Awaited = TRUE
    Interrupts = TRUE
SPECIFICATION Spec
INVARIANTS InOrder FlushBeforeLost HighWater LostOnce EofAfterData
CHECK_DEADLOCK FALSE
