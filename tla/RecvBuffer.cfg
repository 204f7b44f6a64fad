CONSTANTS
    Base = 2
    MaxLenBytes = 4
    MaxTopics = 3
    RecvSize = 13
    Packets <- PacketSet
    MaxPackets = 2
    MaxConn = 2
    MayClose = TRUE
    MayFail = TRUE
SPECIFICATION FairSpec
INVARIANTS
    InStep
    ErrorJustified
PROPERTIES
    Delivered
CHECK_DEADLOCK FALSE
