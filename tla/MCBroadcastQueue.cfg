CONSTANTS
    Nodes = {w1, w2}
    Handlers = {h1, h2}
    MaxMessages = 2
    MaxPerFile = 2
    MaxCrashes = 1
    MaxFaults = 1
    ServeEarly = FALSE
    TornCrash = FALSE
    Gone = Gone
    Nobody = Nobody
SPECIFICATION FairSpec
INVARIANTS
    NothingLost
    InOrder
PROPERTY Drains
CHECK_DEADLOCK FALSE
