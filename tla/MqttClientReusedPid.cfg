CONSTANTS
    QueueCap = 3
    NPid = 8
    ResponseTimeout = 0
    KeepAlive = 1
    Plans <- ReusedPidPlans
    MaxPushes = 2
    MaxRequests = 1
    MaxConn = 1
SPECIFICATION Spec
INVARIANTS
    AllPassed
CHECK_DEADLOCK FALSE
