SPECIFICATION SpecAck
CONSTANTS
    MaxParts = 4
    CanAbort = TRUE
    MaxAcks = 2
INVARIANTS
    IInvBody
    EveryAckCounts
PROPERTIES
    BodyEnds
    KeepsStream
CHECK_DEADLOCK FALSE
