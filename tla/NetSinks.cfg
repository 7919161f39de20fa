SPECIFICATION Spec
CONSTANTS
    Kinds = {"tcp", "udp", "stream", "dgram", "fifo", "http"}
    MaxEvents = 4
    MaxBatch = 3
    Need <- NeedDef
    BufferSize = 8
    Mtu = 4
    MaxBackoff = 3
CHECK_DEADLOCK FALSE
INVARIANTS
    AtMostOnceInOrder
    CutFrameEndsConnection
    NeverOverclaimed
    BodyFits
    SocketsBackOff
