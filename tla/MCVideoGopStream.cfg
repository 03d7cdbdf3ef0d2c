SPECIFICATION FairSpec
CONSTANTS
    MaxGops = 3
    MaxMedia = 3
    MaxCodecs = 1
    MaxConfigs = 2
    Capacity = 2
INVARIANTS
    InOrder
    Decodable
PROPERTIES
    NewestGopDelivered
CHECK_DEADLOCK FALSE
