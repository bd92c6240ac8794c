SPECIFICATION FairSpec
CONSTANTS
    Posters = {p1}
    Stoppers = {s1}
    Pausers = {u1}
    Loop = L
    None = none
    MaxPosts = 1
INVARIANTS
    TokensMatch
    RunInOrder
PROPERTIES
    Delivered
    StopHonoured
CHECK_DEADLOCK FALSE
