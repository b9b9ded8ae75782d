SPECIFICATION Spec
CONSTANTS
    MaxId = 2
    MaxSignals = 1
    ERROR_CAP = 2
    ERROR_INFO_CAP = 1
    PELExtension = FALSE
    TornWrites = FALSE
    Inputs <- ErrorOnly
    QuiesceSettings = {TRUE, FALSE}
    Texts = {t0}
    NoText = t0
    None = None
    Torn = Torn
INVARIANTS
    OpenErrorHasAssociations
