SPECIFICATION FairSpec
CONSTANTS
    IdRange = 2
    MaxEndpoints = 2
    Registrars = {"server", "client"}
    Tokens = {1020, 1021}
    QueueCapacity = 1
    WireCapacity = 1
INVARIANTS
    StartedTogether
    StreamsRouted
    
PROPERTIES
    
    BothStart
CHECK_DEADLOCK FALSE
