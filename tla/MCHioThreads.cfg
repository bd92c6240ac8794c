SPECIFICATION FairSpec
CONSTANTS
    NoElem = NoElem
    Loop = Loop
    Workers = {w1}
    Lens = {2}
    MaxCalls = 3
    MaxCloses = 1
    MaxConns = 2
    SndBuf = 1
    MaxWriteBufsize = 3
    QueueInit = 1
INVARIANTS
    BufExact
    FrontAlive
PROPERTIES
    StreamSpec
    Flushed
    CloseEnds
CHECK_DEADLOCK FALSE
