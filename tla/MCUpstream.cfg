SPECIFICATION Spec
CONSTANTS
    Fds = {1, 2, 3}
    MaxSessions = 2
    MaxBytes <- MCMaxBytes
    MaxFaults = 1
    SndBuf = 1
    ReadBuf = 2
    Reuses = {TRUE, FALSE}
INVARIANTS
    Conserved
    NoStall
    EndTogether
CHECK_DEADLOCK FALSE
