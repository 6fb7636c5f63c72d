---------------------------- MODULE ChunkBlock ----------------------------
(***************************************************************************)
(* One block under any sequence of allocations and frees: the header       *)
(* bitmap and cursor of the block next to the runs handed out so far.      *)
(***************************************************************************)
EXTENDS BlockAllocator

CONSTANT Counts     \* sizes of the records in chunks: a header and a payload

ASSUME ChunkBlockAssumption == Counts \subseteq DataChunks \ {1}

VARIABLES
    bits,       \* BlockHeader.bitmap
    cursor,     \* BlockHeader.offset
    runs,       \* history: runs handed out and not freed, as <<start, count>>
    refused     \* history: size of the allocation that was just refused, or 0

blockVars == <<bits, cursor, runs, refused>>

\* A block of zero bytes, as the file is extended with.
BlockInit == bits = {} /\ cursor = 0 /\ runs = {} /\ refused = 0

AllocChunks(count) ==
    /\ \E at \in DataChunks :
         /\ AllocatedAt(bits, cursor, count, at)
         /\ bits' = bits \cup Run(at, count)
         /\ runs' = runs \cup {<<at, count>>}
    /\ cursor' = CursorAfter(bits, cursor, count)
    /\ refused' = 0

RefuseChunks(count) ==
    /\ ~Allocatable(bits, cursor, count)
    /\ refused' = count
    /\ UNCHANGED <<bits, cursor, runs>>

\* Fault: one chunk too many is freed.
FreeOneMore(r) ==
    /\ bits' = bits \ Run(r[1], r[2] + 1)
    /\ runs' = runs \ {r}
    /\ refused' = 0
    /\ UNCHANGED cursor

\* free_chunks, called with a run that was handed out.
FreeChunks(r) ==
    /\ bits' = bits \ Run(r[1], r[2])
    /\ runs' = runs \ {r}
    /\ refused' = 0
    /\ UNCHANGED cursor

BlockNext ==
    \/ \E count \in Counts : AllocChunks(count) \/ RefuseChunks(count)
    \/ \E r \in runs : FreeChunks(r)

BlockSpec == BlockInit /\ [][BlockNext]_blockVars

(***************************************************************************)
(* Properties.                                                             *)
(***************************************************************************)

\* Types, and no bit outside the data chunks is ever set.
BlockTypeOK ==
    /\ bits \subseteq DataChunks
    /\ cursor \in 0..(ChunksPerBlock - 1)
    /\ runs \subseteq DataChunks \X Counts
    /\ refused \in Counts \cup {0}

ChunksOf(r) == Run(r[1], r[2])

\* Whatever was freed in between, no chunk belongs to two records, and every
\* record lies inside the block.
RunsDisjoint ==
    /\ \A r \in runs : ChunksOf(r) \subseteq DataChunks
    /\ \A r, s \in runs : r # s => ChunksOf(r) \cap ChunksOf(s) = {}

\* The bitmap is exactly the chunks of the records: nothing leaks and nothing
\* in use looks free.
BitsAreRuns == bits = UNION {ChunksOf(r) : r \in runs}

\* A block that is_block_full calls full has no room for any record; records
\* have at least two chunks.
FullMeansNoRoom ==
    IsBlockFull(bits) => \A count \in Counts : ~Allocatable(bits, cursor, count)

\* "All chunks at offset.. are implicitly free": the cursor stands at the
\* beginning of a tail that was never allocated.
CursorAtFreeTail == bits \cap (Start(cursor)..(ChunksPerBlock - 1)) = {}

\* "Returns None when there aren't enough contiguous free slots": a refusal
\* means that no run of that size is free.
RefusedOnlyWhenNoRoom ==
    refused # 0 =>
        \A at \in DataChunks :
            Run(at, refused) \subseteq DataChunks => Run(at, refused) \cap bits # {}
=============================================================================
