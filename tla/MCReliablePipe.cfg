SPECIFICATION FairSpec
CONSTANTS
    Setups <- AllSetups
    MaxPackets = 4
    PayloadUnits <- Payloads
    Invalids = {{}, {1}}
INVARIANTS
    InOrder
    EndIsClean
    ErrorsReturned

    
CHECK_DEADLOCK FALSE
