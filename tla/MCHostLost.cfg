SPECIFICATION Spec
CONSTANTS
    N = 3
    maxRetryAttempts = 2
    Environments <- OnlyPlain
INVARIANTS
    NoPELLost
