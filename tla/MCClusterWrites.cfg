CONSTANTS
    w1 = w1
    w2 = w2
    m = m
    c1 = c1
    c2 = c2
    Workers = {w1, w2}
    Master = m
    Clients = {c1, c2}
    Home <- MCHome
    MaxVertices = 1
    MaxPerFile = 2
    MaxWrites = 2
    MaxTroubles = 2
SPECIFICATION FairSpec
INVARIANTS
    Converged
PROPERTIES
    ReadsAdvance
    OfflineStillServed
    CatchUp
CHECK_DEADLOCK FALSE
