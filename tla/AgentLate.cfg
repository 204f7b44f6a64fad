SPECIFICATION Spec
CONSTANTS
    SynT = 1
    SmT = 3
    StartT = 2
    Budgets <- LateBudgets
CHECK_DEADLOCK FALSE
INVARIANTS
    NoEloopAfterDestroy
