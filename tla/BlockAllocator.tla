-------------------------- MODULE BlockAllocator --------------------------
(***************************************************************************)
(* Allocation of runs of chunks inside one block                           *)
(* (storage/block_allocator.rs).  A bitmap is the set of allocated data    *)
(* chunks; the header chunk 0 is never a member.  The cursor is the byte   *)
(* offset of BlockHeader, which has exactly ChunksPerBlock values.         *)
(***************************************************************************)
EXTENDS Integers, FiniteSets

CONSTANT ChunksPerBlock     \* CHUNKS_PER_BLOCK, 256 in the program

ASSUME BlockAllocatorAssumption == ChunksPerBlock \in Nat /\ ChunksPerBlock > 2

DataChunks == 1..(ChunksPerBlock - 1)

Run(at, count) == at..(at + count - 1)

\* (*offset as usize).max(1)
Start(cursor) == IF cursor = 0 THEN 1 ELSE cursor

\* Fault: the run may reach one chunk past the end of the block.
SequentialTooFar(bits, cursor, count) ==
    /\ Start(cursor) + count <= ChunksPerBlock + 1
    /\ Run(Start(cursor), count) \cap bits = {}

\* Phase 1: the run that begins at the cursor.
Sequential(bits, cursor, count) ==
    /\ Start(cursor) + count <= ChunksPerBlock
    /\ Run(Start(cursor), count) \cap bits = {}

ScanEnd(cursor, count) ==
    IF Start(cursor) > count THEN Start(cursor) - count ELSE 1

\* Fault: the fallback scan looks at the first chunk of a run only.
FallbackUnchecked(bits, cursor, count) ==
    {at \in 1..ScanEnd(cursor, count) : at \notin bits}

\* Phase 2: the runs that begin in the scanned prefix.
Fallback(bits, cursor, count) ==
    {at \in 1..ScanEnd(cursor, count) : Run(at, count) \cap bits = {}}

\* alloc_chunks returns Some(at): the run at the cursor, else the first run
\* of the prefix.
AllocatedAt(bits, cursor, count, at) ==
    \/ Sequential(bits, cursor, count) /\ at = Start(cursor)
    \/ /\ ~Sequential(bits, cursor, count)
       /\ at \in Fallback(bits, cursor, count)
       /\ \A other \in Fallback(bits, cursor, count) : at <= other

Allocatable(bits, cursor, count) ==
    \E at \in DataChunks : AllocatedAt(bits, cursor, count, at)

\* (start + run) as u8: the cursor wraps to 0 at the end of the block.
CursorAfter(bits, cursor, count) ==
    IF Sequential(bits, cursor, count)
    THEN (Start(cursor) + count) % ChunksPerBlock ELSE cursor

\* is_block_full: no two consecutive free chunks.
IsBlockFull(bits) ==
    \A pos \in 1..(ChunksPerBlock - 2) : pos \in bits \/ pos + 1 \in bits
=============================================================================
