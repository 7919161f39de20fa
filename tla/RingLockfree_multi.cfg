SPECIFICATION SafetySpec
CONSTANTS
    SPSC = SPSC
    MPSC = MPSC
    MPMC = MPMC
    Discard = Discard
    Overwrite = Overwrite
    NoThread = NoThread
    NoMsg = NoMsg
    Junk = Junk
    m1 = m1
    m2 = m2
    m3 = m3
    m4 = m4
    m5 = m5
    RecordLen <- RecordLenDef
    Capacity = 8
    MinPad = 2
    JunkMayMatch = {}
    Modes = {SPSC, MPSC, MPMC}
    Producers = {p1, p2}
    Consumers = {c1, c2}
    Msgs = {m1, m2, m3}
SYMMETRY Symmetry
INVARIANTS
    RingChain
    ProtocolSound
    RecordsSafe
