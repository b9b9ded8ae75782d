SPECIFICATION FairSpec
CONSTANTS
    MaxId = 2
    MaxSignals = 2
    ERROR_CAP = 2
    ERROR_INFO_CAP = 1
    PELExtension = TRUE
    TornWrites = TRUE
    Inputs <- ErrorAndInfo
    QuiesceSettings = {TRUE, FALSE}
    Texts = {t0}
    NoText = t0
    None = None
    Torn = Torn
INVARIANTS
    BlocksAreOpenErrors
PROPERTIES
    ResolvedErrorUnblocks
    LoopsEnd
