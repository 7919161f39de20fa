SPECIFICATION Spec
CONSTANTS
    a = a
    b = b
    Confs <- MCConfs
    Categories <- MCCategories
    LongNames <- MCLongNames
    LogLevels = {2, 4}
    Overrides = {3}
    Loggers <- MCLoggers
    RegMax = 2
    RingMax = 1
    Builds = {TRUE, FALSE}
    Throttled = TRUE
    MaxCalls = 2
    MaxReloads = 1
    MaxControls = 1
    MaxTime = 2
INVARIANTS
    RoutesCurrent
    RegistryUnique
    
    BucketBounded
SYMMETRY MCSymmetry
CHECK_DEADLOCK FALSE
