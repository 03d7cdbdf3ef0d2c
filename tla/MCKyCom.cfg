SPECIFICATION FairSpec
CONSTANTS
    IdRange = 2
    QueueSize = 1
    MaxChannels = 3
    MaxClients = 2
INVARIANTS
    WaitingIsReachable
    Paired
    NoneForgotten
PROPERTIES
    Served
    Notified
CHECK_DEADLOCK FALSE
