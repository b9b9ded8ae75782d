SPECIFICATION Spec
CONSTANTS
    MaxId = 3
    MaxSignals = 1
    ERROR_CAP = 2
    ERROR_INFO_CAP = 1
    PELExtension = TRUE
    TornWrites = FALSE
    Inputs <- PlainError
    QuiesceSettings = {TRUE, FALSE}
    Texts = {t0}
    NoText = t0
    None = None
    Torn = Torn
INVARIANTS
    NoEntryAboveLastId
    ClearedBehindCursor
PROPERTIES
    BlockOutlivesOpenError
    IsolatedEntrySurvives
