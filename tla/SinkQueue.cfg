SPECIFICATION Spec
CONSTANTS
    e1 = e1
    e2 = e2
    e3 = e3
    e4 = e4
    e5 = e5
    Events = {e1, e2, e3, e4, e5}
    PackedLen <- PackedLenDef
    Cap = 11
    Hdr = 3
    PadLen = 2
    BatchMax = 2
    TimeoutMs = 1
    Word = 16
    MaxNow = 3
    Pad = Pad
    Unwritten = Unwritten
CHECK_DEADLOCK FALSE
INVARIANTS
    StreamSound
    NoEventVanishes
    StatsExact
PROPERTIES
    EveryEventEmitted
    CloseEnds
