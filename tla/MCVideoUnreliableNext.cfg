SPECIFICATION FairSpec
CONSTANTS
    MaxPackets = 3
    MaxSegments = 1
    MaxBuffering = 1
    ClientCapacity = 1
    SeqRange = 16
PROPERTIES
    NextIsSent
CHECK_DEADLOCK FALSE
