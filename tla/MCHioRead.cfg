SPECIFICATION Spec
CONSTANTS
    ByteBase = 4
    VarintMax = 2
    LenMod = 8
    Values = {0, 3}
    MaxBytes = 6
    Lengths = {1, 3}
    Delims = {0}
    Settings <- MCSettings
    LoopBuf = 2
    MaxReadBuf = 4
    HighWater = 3
    MoveLimit = 1
    SmallMax = 1
INVARIANTS
    InOrderOnce
    AnswersRequest
    UnpackExact
    RecvInBuffer
    PendingNeedsMore
CHECK_DEADLOCK FALSE
