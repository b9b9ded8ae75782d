SPECIFICATION Spec
CONSTANTS
    MaxId = 2
    MaxSignals = 1
    ERROR_CAP = 2
    ERROR_INFO_CAP = 1
    PELExtension = FALSE
    TornWrites = TRUE
    Inputs <- ErrorAndInfo
    QuiesceSettings = {TRUE, FALSE}
    Texts = {t0}
    NoText = t0
    None = None
    Torn = Torn
PROPERTIES
    CorruptJSONFallsBackToCereal
