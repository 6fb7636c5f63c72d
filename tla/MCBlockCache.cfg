CONSTANTS
    b0 = b0
    b1 = b1
    b2 = b2
    Blocks <- MCBlocks
    Values = {v0, v1}
    Zero = v0
    NotCached = NotCached
    NumShards = 2
    ShardOf <- MCShardOf
    Capacity = 2
    Flushers = {flush}
SPECIFICATION Spec
INVARIANTS
    CleanMatchesDisk
    FlushedBehind
PROPERTY ImplementsStore
