SPECIFICATION Spec
CONSTANTS
    MaxPELs = 3
    MaxDeletions = 1
    _maxRepoSize = 10
    _maxNumPELs = 2
    Kinds <- InfoAndGuard
    HostStates = {"new", "sent", "acked"}
    Associated = {1}
    WritesFail = TRUE
    Crashes = TRUE
    PeltoolRuns = TRUE
INVARIANTS
    SizesAddUp
    IndexMatchesFiles
    ArchiveAccounted
PROPERTIES
    PruneReachesLimits
    PruneTakesLeastNeeded
    IsolatedPELKept
    LogGoesWithPEL
