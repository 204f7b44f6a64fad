SPECIFICATION FairSpec
CONSTANTS
    SynT = 1
    SmT = 3
    StartT = 2
    Budgets <- AgentBudgets
CHECK_DEADLOCK FALSE
INVARIANTS
    TypeOK
    SmAlive
    ConnServed
    StatusMeansSocket
    PublishOrder
    SafeOnceUp
    NoSelfDeadlock
PROPERTIES
    StopHonoured
    Reconnects
