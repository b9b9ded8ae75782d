SPECIFICATION Spec
CONSTANTS
    MaxId = 3
    MaxSignals = 1
    ERROR_CAP = 2
    ERROR_INFO_CAP = 1
    PELExtension = FALSE
    TornWrites = FALSE
    Inputs <- ErrorAndInfo
    QuiesceSettings = {FALSE}
    Texts = {t0, t1}
    NoText = t0
    None = None
    Torn = Torn
INVARIANTS
    TypeOK
    FilesMirrorEntries
    ListsIndexEntries
    CapsHold
PROPERTIES
    EvictsOldestOfFullClass
    ImplementsStore
