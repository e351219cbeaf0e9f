CONSTANTS
    c1 = c1
    c2 = c2
    c3 = c3
    k1 = k1
    k2 = k2
    o1 = o1
    o2 = o2
    Root = Root
    None = None
    MayClose = TRUE
    Objects <- TwoObjects
    Calls <- ThreeCalls
    Connections <- TwoConnections
    MaxIds = 3
SPECIFICATION FairSpec
INVARIANTS
    RefsSound
    RetainsExact
    ProxyReachesItsObject
    StaleIdNeverMisleads
    SnapshotExact
PROPERTIES
    MissedOnlyWhenReleased
    DroppedIsReclaimed
CHECK_DEADLOCK FALSE
