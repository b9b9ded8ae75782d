SPECIFICATION FairSpec
CONSTANTS
    N = 3
    maxRetryAttempts = 2
    Environments <- AllEnvironments
INVARIANTS
    OnePlace
    RoomyHostLosesNone
    QueueIsServed
PROPERTIES
    OrderlyAckIsFinal
    SendsOnlyWanted
    QueueDrains
