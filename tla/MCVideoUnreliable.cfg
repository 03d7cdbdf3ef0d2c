SPECIFICATION FairSpec
CONSTANTS
    MaxPackets = 4
    MaxSegments = 2
    MaxBuffering = 2
    ClientCapacity = 1
    SeqRange = 16
INVARIANTS
    Inv
PROPERTIES
    NoEarlyDrop
    DeadlineNotPostponed
    ImplementsOrderedDelivery
    GapPassed
CHECK_DEADLOCK FALSE
