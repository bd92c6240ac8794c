SPECIFICATION FairSpec
CONSTANTS
    Timeouts = {t1, t2}
    Periods = {p1}
    Idles = {i1}
    Io = io
    None = none
    Millis = {1, 2}
    Coarse = 2
    Grain = 2
    Repeats = {0, 1}
    INFINITE = 2
    MaxEvents = 2
    MaxBlock = 3
    MaxLag = 1
    Flags = {"QUIT_WHEN_NO_ACTIVE_EVENTS"}
    Ops = {"add", "del", "reset", "idle", "io", "stop"}
    DelAfterReset = FALSE
INVARIANTS
    NoDanglingPending
    NothingLost
    CountersExact
PROPERTIES
    NeverEarly
    TimerRuns
    
CHECK_DEADLOCK FALSE
