SPECIFICATION WireSpec
CONSTANTS
    MaxPut = 3
    MaxBreaks = 2
CHECK_DEADLOCK FALSE
INVARIANT
    AcksIncrease
