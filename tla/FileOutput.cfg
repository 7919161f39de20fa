SPECIFICATION Spec
CONSTANTS
    LineCount = 4
    Size <- SizeDef
    BufSize = 4
    Threshold = 3
    CheckEvery = 2
    MaxSize = 4
    MaxFiles = 1
    TimeUnit = 1
    Timestamped = TRUE
    Severities = {"shutdown", "entry"}
    NoFile = NoFile
    MaxNow = 1
    MaxTrouble = 2
INVARIANTS
    EveryLineAccounted
    LinesInOrder
    ReplacementNoticed
    DiskBounded
    EntryDurable
