SPECIFICATION FairSpec
CONSTANTS
    Offset <- ClientAhead
    Timeout = 2
    IdRange = 3
    MaxRequests = 3
    MaxAnswers = 2
    MaxTime = 5
    MaxTimes = 2
INVARIANTS
    Accurate
    AverageAccurate
PROPERTIES
    Fresh
    SyncReturns
CHECK_DEADLOCK FALSE
