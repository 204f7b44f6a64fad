CONSTANTS
    QueueCap = 2
    NPid = 8
    ResponseTimeout = 0
    KeepAlive = 1
    Plans <- SessionPlans
    MaxPushes = 2
    MaxRequests = 1
    MaxConn = 2
SPECIFICATION FairSpec
PROPERTIES
    Acknowledged
    LossNoticed
CHECK_DEADLOCK FALSE
