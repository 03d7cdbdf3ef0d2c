SPECIFICATION FairSpec
CONSTANTS
    MaxPackets = 5
    ConfigsAt = {0}
    MaxSegments = 2
    MaxBuffering = 1
    ClientCapacity = 1
    FrameSize = 1
    MaxSamples = 2
    SeqRange = 4
    MaxFecPackets = 4
    FecSeqRange = 16
    MaxSources = 2
    MinRepairs = 1
    MaxObjects = 3
    MaxSymbols = 4
INVARIANTS
    
    NothingRejected
    BudgetKept
    NothingHeldBack
PROPERTIES
    ImplementsOrderedDelivery
    GapPassed
CHECK_DEADLOCK FALSE
