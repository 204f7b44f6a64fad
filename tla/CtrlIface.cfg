SPECIFICATION FairSpec
CONSTANTS
    Agents = {a1, a2}
    Pids = {p1}
    MaxStarts = 3
    MaxFaults = 1
    MaxSignals = 1
    MaxLaunches = 2
    MaxKills = 1
    MaxCtr = 2
CHECK_DEADLOCK FALSE
INVARIANTS PathOwned SecondStartWorks NothingLeft OwnAnswer
PROPERTIES Connects
