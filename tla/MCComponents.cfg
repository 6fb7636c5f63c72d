CONSTANTS
    ChunksPerBlock = 10
    Counts = {2, 3, 4}
    nA = nA
    nB = nB
    lA = lA
    lB = lB
    vA = vA
    None = None
    Threads = {t1, t2}
    tVertices = {1, 2, 3}
    tStrengths = {32, 64}
    tUnit = 64
    tMaxOps = 3
    tMaxDepth = 3
    tActivations <- MCActivations
    qNumPlaces = 5
    qMaxIds = 3
    qMaxOps = 2
    qMaxPasses = 1
    qMaxAtWork = 2
    qPayloads <- MCPayloads
    qRequests <- MCRequests
    qSaved <- MCSaved
    wWords = {"a", "ab"}
    wPayloads = {{"ab"}, {"a"}}
    wPrefixed <- MCPrefixed
    wNumPlaces = 6
    wMaxIds = 2
    wMaxOps = 3
    wMaxRefs = 2
    hValues = {nA, nB}
    hMaxTime = 6
    hMaxHistory = 2
    lNames = {1, 2}
    lGraph0 = 2
    lMetas = {m1}
    lNoMeta = m0
    lMaxOps = 3
    lMaxCrashes = 1
    sNames = {g0, g1}
    sGraph0 = g0
    sMetas = {m1}
    sNoMeta = m0
    sConfs = {c0, c1}
    sStandard = c0
    sClients = {nA, nB}
    sMaxChanges = 2
    sMaxReads = 1
    sMaxTroubles = 1
    kVertices = {11}
    kEdges = {21, 22}
    kEnds <- MCEnds
    kStripe <- MCStripe
    kMaxOps = 3
    dDocs = {d1, d2}
    dGraphs = {g0, g1}
    dPresent = d1
    dFound = {vA}
    dMaxRetries = 1
    dMaxOps = 3
    dMaxCrashes = 1
SPECIFICATION ComponentsSpec
INVARIANTS
    PartsTypeOK
    RunsDisjoint
    BitsAreRuns
    NeighboursWithinDepth
    ScoresAreBestWalks
    
    PeekAgrees
    TopIsTop
    SearchFinds
    HistoryFaithful
    OneHandle
    SettledListed
    LookedUpStays
    SavedWhenQuiet
    CleanedStays
PROPERTIES
    SyncConverges
    TasksEnd
CHECK_DEADLOCK FALSE
