SPECIFICATION Spec
CONSTANTS
    Features <- MCFeatures
    Lockfree = FALSE
    Concurrency = "mpsc"
    SinkTypes <- MCSinkTypes
    MaxOutputs = 4
    MaxRules = 4
    NormalForm <- MCNormalForm
    Files <- MCFiles
    Codes <- MCCodes
    InitFiles = {"plain"}
    EditFiles = {"resized"}
    Triggers = {"app"}
    Throttled = TRUE
    OpensMayFail = FALSE
    MaxEdits = 1
    MaxTriggers = 0
    MaxSnaps = 2
INVARIANT NoStaleSnapshot
CHECK_DEADLOCK FALSE
