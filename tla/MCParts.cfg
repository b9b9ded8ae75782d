SPECIFICATION Spec
CONSTANTS
    InstanceIDs = {i1, i2}
    LogIDs = {p1, p2}
    Names = {"host"}
    IPv6 = {"v6"}
    Scoped = {"zone"}
    Invalid = {"bad"}
    Ports = {1, 2}
    Clients = {"c1", "c2"}
    Txns = {1, 2}
    Meta <- SmallMeta
    MaxErrors = 2
    MaxTraces = 1
    M = 6
    NoPosition = 2
    Position = 0
    SyncedIDs = {2, 7}
    MaxCreates = 2
    MaxSyncs = 2
    LastID = 4
    BMCs = {0, 1}
    OtherBMCs = {2}
    maxNumberOfCallouts = 3
    Expand <- SmallExpand
    Length <- SmallLength
    RegistryFiles <- SmallRegistryFiles
    Messages = {"Bus", "Fan", "Unknown"}
    ADs <- SmallADs
    SystemNames <- SmallSystemNames
    DeviceFiles <- SmallDeviceFiles
    DeviceJSON <- SmallDeviceJSON
    JSONCallouts <- SmallJSONCallouts
    maxPELSize = 16384
    FixedSize = 276
    DataSizes = {3, 8043, 16100, 65533}
    MaxUserData = 3
    RegHeaders <- SmallRegHeaders
    RawPELs <- SmallRawPELs
    LogSeverities = {"Informational", "Warning", "Critical", "Error"}
    Frus = {"fan", "psu"}
    PLDMFrus = {"psu"}
    MaxSignals = 3
    Events = {1, 2}
    MaxQueued = 3
    LocCodes = {"P1", "P2"}
    DIMMs = {"P1"}
    MaxJobs = 2
INVARIANTS
    CommandCanEnd
    LogsGoWhereTold
    EntriesFollowFiles
    CalloutsAreRight
    IndicatorsAreRight
    SectionsReadBack
    LogAgreesWithPEL
    ViewCatchesUp
    EventsAreServed
    DIMMCacheIsTrue
PROPERTIES
    AnswersAreRight
    JournalIsUpToDate
    OwnIDsFresh
    CounterIDsOnce
