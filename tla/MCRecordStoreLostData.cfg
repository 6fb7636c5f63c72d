CONSTANTS
    ChunksPerBlock = 5
    Threads = {t1, t2}
    Sizes = {2}
    MaxRecords = 2
    NumBlocks = 4
    PreAlloc = 2
    BlocksPerByte = 2
    MaxCrashes = 0
    Nobody = Nobody
    Zero = Zero
SPECIFICATION Spec
INVARIANTS
    RecordsIntact
CHECK_DEADLOCK FALSE
