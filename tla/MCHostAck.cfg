SPECIFICATION Spec
CONSTANTS
    N = 3
    maxRetryAttempts = 2
    Environments <- OnlyEarly
PROPERTIES
    AckIsFinal
