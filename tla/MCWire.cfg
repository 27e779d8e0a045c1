SPECIFICATION WireFairSpec
CONSTANTS
    MaxPut = 4
    MaxBreaks = 3
CHECK_DEADLOCK FALSE
INVARIANTS
    WireTypeOK
    SenderKeepsOrder
    AcksIncreaseTillAhead
PROPERTIES
    ImplementsChannel
    SentArrives
