SPECIFICATION FairSpec
CONSTANTS
    Fds = {1, 2}
    Settings <- MCSettings
    Uses <- MCUses
    CountMod = 8
    Steady = 3
    MaxStarts = 2
    MaxCloses = 1
    MaxSends = 1
    MaxFaults = 2
INVARIANTS
    AttemptTimed
    BackoffExact
    StaysClosed
PROPERTIES
    NotCutShort
    Recovers
CHECK_DEADLOCK FALSE
