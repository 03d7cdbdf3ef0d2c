SPECIFICATION Spec
CONSTANTS
    NoId = NoId
    Channels = {c1, c2}
    Kinds = {"datagram"}
    Capacity = 1
    MaxItems = 2
INVARIANTS DatagramTaskSurvives
CHECK_DEADLOCK FALSE
