SPECIFICATION Spec
CONSTANTS
    Features <- MCFeatures
    Lockfree = FALSE
    Concurrency = "mpsc"
    SinkTypes <- MCSinkTypes
    MaxOutputs = 4
    MaxRules = 4
    NormalForm <- MCNormalForm
    Files <- MCFiles
    Codes <- MCCodes
    InitFiles = {"plain", "off", "shared"}
    EditFiles = {"moved", "resized", "twice"}
    Triggers = {"app"}
    Throttled = FALSE
    OpensMayFail = TRUE
    MaxEdits = 1
    MaxTriggers = 1
    MaxSnaps = 3
INVARIANTS
    HandlesOwned
    HandleFitsOutput
    LiveIsSound
    StaleOnlyIfOverdue
PROPERTIES
    MainReturns
    EditsTakeEffect
CHECK_DEADLOCK FALSE
