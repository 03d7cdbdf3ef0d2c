SPECIFICATION FairSpec
CONSTANTS
    IdRange = 2
    MaxEndpoints = 2
    Registrars = {"server"}
    Tokens = {1020}
    QueueCapacity = 1
    WireCapacity = 1
PROPERTIES
    RegistrationReturns
CHECK_DEADLOCK FALSE
