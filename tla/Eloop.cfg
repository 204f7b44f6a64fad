SPECIFICATION FairSpec
CONSTANTS
    s1 = s1
    s2 = s2
    int = int
    usr = usr
    Socks = {s1, s2}
    Handlers = {h1, h2}
    Delays = {0, 1}
    Sigs = {int, usr}
    TermSigs = {int}
    Starts <- LoopStarts
    MaxTimers = 1
    Changes = 2
    Arrivals = 2
CHECK_DEADLOCK FALSE
INVARIANTS ReadOnlyReady SignalSeen AlarmCovered
PROPERTIES DueRuns ReadyRead SignalHandled
