SPECIFICATION FairSpec
CONSTANTS
    MaxPackets = 3
    MaxSources = 2
    MinRepairs = 1
    MaxBuffering = 1
    MaxObjects = 2
    MaxSymbols = 3
    MaxGroups = 2
    ClientCapacity = 1
INVARIANTS
    AdmissionSound
    FecAccounted
    NothingHeldBack
PROPERTIES
    ImplementsOrderedDelivery
    GapPassed
CHECK_DEADLOCK FALSE
