SPECIFICATION Spec
CONSTANTS
    Timeouts = {t1, t2}
    Periods = {}
    Idles = {i1}
    Io = io
    None = none
    Millis = {1, 2}
    Coarse = 2
    Grain = 2
    Repeats = {0, 1, 2}
    INFINITE = 2
    MaxEvents = 3
    MaxBlock = 3
    MaxLag = 1
    Flags = {}
    Ops = {"add", "del", "reset", "idle", "io", "stop"}
    DelAfterReset = TRUE
INVARIANT NoDanglingPending
CHECK_DEADLOCK FALSE
