SPECIFICATION FairSpec
CONSTANTS
    NoId = NoId
    Channels = {c1, c2}
    Kinds = {"uni", "datagram"}
    Capacity = 1
    MaxItems = 2
INVARIANTS
    RoutedInOrder
    UnknownDatagramsHarmless
PROPERTIES
    EventuallyReceived
CHECK_DEADLOCK FALSE
