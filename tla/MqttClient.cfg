CONSTANTS
    QueueCap = 2
    NPid = 9
    ResponseTimeout = 0
    KeepAlive = 1
    Plans <- ClientPlans
    MaxPushes = 2
    MaxRequests = 1
    MaxConn = 1
SPECIFICATION Spec
INVARIANTS
    TypeOK
    ExactlyOnce
    OrderedPerQoS
    OneQos2AtATime
    NeverLost
    CalledAtMostOnce
CHECK_DEADLOCK FALSE
