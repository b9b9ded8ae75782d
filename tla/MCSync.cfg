SPECIFICATION Spec
CONSTANTS
    M = 6
    NoPosition = 2
    Position = 0
    SyncedIDs = {2, 7}
    MaxCreates = 2
    MaxSyncs = 2
PROPERTY OnlyRemovedFilesErase
