SPECIFICATION FairSpec
CONSTANTS
    MaxBytes = 6
    MaxConns = 2
    ReadBufSize = 3
    SndBuf = 2
    MaxWriteBufsize = 3
INVARIANTS
    EchoComplete
    RefusedThenSilent
    WriteWatched
    CloseHasCause
PROPERTIES
    HalfCloseEnds
    EchoProgress
