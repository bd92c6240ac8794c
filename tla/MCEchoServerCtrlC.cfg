SPECIFICATION ServerSpec
CONSTANTS
    Ports = {0, 1, 65535, 65536}
    MaxCalls = 3
    MaxSigs = 3
PROPERTY CtrlCStops
CHECK_DEADLOCK FALSE
