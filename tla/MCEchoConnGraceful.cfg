SPECIFICATION Spec
CONSTANTS
    MaxBytes = 5
    MaxConns = 2
    ReadBufSize = 3
    SndBuf = 2
    MaxWriteBufsize = 3
INVARIANT GracefulCloseDelivers
