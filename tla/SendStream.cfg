CONSTANTS
    Base = 4
    MaxLenBytes = 4
    MaxTopics = 3
    SendSize = 36
    RecSize = 3
    SockSize = 3
    Connections <- ConnectionSet
    Requests <- RequestSet
    MaxRequests = 2
    MaxResends = 1
    MaxConn = 2
SPECIFICATION FairSpec
INVARIANTS
    TypeOK
    Understood
    DupMarked
PROPERTIES
    SyncReturns
CHECK_DEADLOCK FALSE
