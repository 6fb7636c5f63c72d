CONSTANTS
    ChunksPerBlock = 5
    Threads = {t1, t2}
    Sizes = {2, 3}
    MaxRecords = 3
    NumBlocks = 4
    PreAlloc = 2
    BlocksPerByte = 2
    MaxCrashes = 1
    Nobody = Nobody
    Zero = Zero
SPECIFICATION FairSpec
INVARIANTS
    RecordsDisjoint
    UnracedIntact
    NoChunkLeaks
    FullBitsTrue
PROPERTY AllocationEnds
CHECK_DEADLOCK FALSE
