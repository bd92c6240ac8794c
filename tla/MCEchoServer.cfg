SPECIFICATION ServerSpec
CONSTANTS
    Ports = {0, 1, 65535, 65536}
    MaxCalls = 3
    MaxSigs = 3
INVARIANTS
    ReleasedAtPrompt
    EndsOnlyWhenAsked
PROPERTY AcceptedStopReturns
CHECK_DEADLOCK FALSE
