SPECIFICATION Spec
CONSTANTS
    NoThread = NoThread
    NoMsg = NoMsg
    Discard = Discard
    Overwrite = Overwrite
    Wait = Wait
    m1 = m1
    m2 = m2
    m3 = m3
    m4 = m4
    m5 = m5
    RecordLen <- RecordLenDef
    Capacity = 8
    MinPad = 2
    Producers = {p1, p2}
    Consumers = {c1, c2}
    Msgs = {m1, m2, m3, m4}
INVARIANTS
    RingChain
    NothingLost
PROPERTIES
    ImplementsContract
    EveryPutReturns
    EveryRecordLeaves
