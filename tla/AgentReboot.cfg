SPECIFICATION Spec
CONSTANTS
    SynT = 1
    SmT = 3
    StartT = 2
    Budgets <- RebootBudgets
CHECK_DEADLOCK FALSE
PROPERTIES
    RebootHoldsCommands
