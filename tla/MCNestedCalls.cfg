CONSTANTS
    c1 = c1
    c2 = c2
    c3 = c3
    c4 = c4
    None = None
    PoolSizes = {1, 2}
    MaxDepth = 3
    Calls <- FourCalls
    Starters <- BothSides
SPECIFICATION FairSpec
INVARIANTS
    CallsSound
    KnotsTakeTwoSides
PROPERTIES
    KnotsLast
    CallsEnd
CHECK_DEADLOCK FALSE
