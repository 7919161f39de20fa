SPECIFICATION Spec
CONSTANTS
    NoRec = NoRec
    Discard = NotOverwrite
    Overwrite = Overwrite
    Wait = NotOverwrite
    Records = {r1, r2}
    ConsumerCount = 2
    Flushers = {f1}
    BatchSize = 2
    MaxFlushes = 1
    StagingMayFail = TRUE
    DeadlinesPass = TRUE
INVARIANTS
    FlushMeansWritten
    ShutdownDrains
PROPERTIES
    FlushSucceeds
    StopReturns
