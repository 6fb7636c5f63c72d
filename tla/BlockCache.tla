---------------------------- MODULE BlockCache ----------------------------
(***************************************************************************)
(* The sharded LRU write-back block cache over the data file               *)
(* (storage/block_cache.rs, storage/data_file.rs).  Every access to a      *)
(* block runs under the write lock of its shard, loader and flusher        *)
(* included, so one access is one step.  flush_dirty takes the shards one  *)
(* after the other and lets accesses to the others in between.             *)
(* A crash is the death of the process: the data file is written without   *)
(* fsync, but what was written stays in the page cache of the system.      *)
(***************************************************************************)
EXTENDS Integers, FiniteSets, SequencesExt

CONSTANTS
    Blocks,     \* block indices in use
    Values,     \* contents of a block
    Zero,       \* the contents read beyond the end of the data file
    NotCached,  \* marks a block that no shard holds
    NumShards,  \* shard_count
    ShardOf,    \* the shard of each block: idx & (shard_count - 1)
    Capacity,   \* capacity of one shard, in blocks
    Flushers    \* callers of flush_dirty

ASSUME BlockCacheAssumption ==
    /\ IsFiniteSet(Blocks)
    /\ Blocks # {}
    /\ Zero \in Values
    /\ NotCached \notin Values
    /\ NumShards \in Nat \ {0}
    /\ ShardOf \in [Blocks -> 1..NumShards]
    /\ Capacity \in Nat \ {0}

VARIABLES
    disk,       \* disk[b]: block b in the data file
    cache,      \* cache[b]: data of the CachedBlock, or NotCached
    dirty,      \* blocks whose is_dirty flag is set
    lru,        \* lru[s]: the deque of shard s, most recently used first
    flushAt,    \* flushAt[f]: 0 idle, else the shard flush f visits next
    reply,      \* history: the block and contents last returned to a reader
    owed        \* history: owed[f][b], contents b has had since flush f began

vars == <<disk, cache, dirty, lru, flushAt, reply, owed>>

Init ==
    /\ disk = [b \in Blocks |-> Zero]
    /\ cache = [b \in Blocks |-> NotCached]
    /\ dirty = {}
    /\ lru = [s \in 1..NumShards |-> <<>>]
    /\ flushAt = [f \in Flushers |-> 0]
    /\ reply = <<>>
    /\ owed = [f \in Flushers |-> <<>>]

Cached == {b \in Blocks : cache[b] # NotCached}
InShard(s) == {b \in Cached : ShardOf[b] = s}
Full(s) == Cardinality(InShard(s)) >= Capacity

\* What block b contains for the program: the cached copy hides the file.
Logical(b) == IF b \in Cached THEN cache[b] ELSE disk[b]

(***************************************************************************)
(* LRU order.                                                              *)
(***************************************************************************)

\* lru.retain(|i| i != b); the deque never lists a block twice.
Without(q, b) ==
    IF b \in Range(q) THEN RemoveAt(q, CHOOSE i \in DOMAIN q : q[i] = b) ELSE q

Touch(q, b) == <<b>> \o Without(q, b)

Clean(s) == {i \in DOMAIN lru[s] : lru[s][i] \in Cached \ dirty}

\* evict_one: the clean block used longest ago; only when every block is
\* dirty, the block at the back of the deque.
VictimAt(s, i) ==
    \/ i \in Clean(s) /\ \A j \in Clean(s) : j <= i
    \/ Clean(s) = {} /\ i = Len(lru[s]) /\ i > 0 /\ lru[s][i] \in dirty

\* Fault: the flag is cleared without a write.
WrittenNever(S) == disk

Written(S) == [b \in Blocks |-> IF b \in S THEN cache[b] ELSE disk[b]]

(***************************************************************************)
(* One access: ensure_loaded, then the closure.  val is what the block     *)
(* contains afterwards, marked the blocks it leaves dirty.  Because an     *)
(* insertion never exceeds the capacity, the eviction loop runs at most    *)
(* once.                                                                   *)
(***************************************************************************)
Hit(b, val, marked) ==
    /\ b \in Cached
    /\ cache' = [cache EXCEPT ![b] = val]
    /\ dirty' = dirty \cup marked
    /\ lru' = [lru EXCEPT ![ShardOf[b]] = Touch(@, b)]
    /\ UNCHANGED disk

Load(b, val, marked) ==
    /\ b \notin Cached
    /\ ~Full(ShardOf[b])
    /\ cache' = [cache EXCEPT ![b] = val]
    /\ dirty' = dirty \cup marked
    /\ lru' = [lru EXCEPT ![ShardOf[b]] = <<b>> \o @]
    /\ UNCHANGED disk

EvictAndLoad(b, val, marked) ==
    /\ b \notin Cached
    /\ Full(ShardOf[b])
    /\ \E i \in DOMAIN lru[ShardOf[b]] :
         LET victim == lru[ShardOf[b]][i] IN
         /\ VictimAt(ShardOf[b], i)
         /\ disk' = Written({victim} \cap dirty)
         /\ cache' = [cache EXCEPT ![victim] = NotCached, ![b] = val]
         /\ dirty' = (dirty \ {victim}) \cup marked
         /\ lru' = [lru EXCEPT ![ShardOf[b]] = <<b>> \o Without(@, victim)]

Access(b, val, marked) ==
    Hit(b, val, marked) \/ Load(b, val, marked) \/ EvictAndLoad(b, val, marked)

\* read_block_data: copies the block out, the block stays clean.
Read(b) ==
    /\ Access(b, Logical(b), {})
    /\ reply' = <<b, Logical(b)>>
    /\ UNCHANGED <<flushAt, owed>>

\* Fault: a modified block is not marked.
UpdateUnmarked(b, v) ==
    /\ Access(b, v, {})
    /\ owed' = [f \in Flushers |->
                  IF flushAt[f] # 0 THEN [owed[f] EXCEPT ![b] = @ \cup {v}]
                                    ELSE owed[f]]
    /\ UNCHANGED <<flushAt, reply>>

\* with_block and write_block_data: the closure leaves v in the block, which
\* becomes dirty even when v is what it already held.
Update(b, v) ==
    /\ Access(b, v, {b})
    /\ owed' = [f \in Flushers |->
                  IF flushAt[f] # 0 THEN [owed[f] EXCEPT ![b] = @ \cup {v}]
                                    ELSE owed[f]]
    /\ UNCHANGED <<flushAt, reply>>

\* The loader fails after room was made: the victim is gone, b is not loaded.
\* (When the flusher fails instead, the victim stays and nothing changes.)
LoadError(b) ==
    /\ b \notin Cached
    /\ Full(ShardOf[b])
    /\ \E i \in DOMAIN lru[ShardOf[b]] :
         LET victim == lru[ShardOf[b]][i] IN
         /\ VictimAt(ShardOf[b], i)
         /\ disk' = Written({victim} \cap dirty)
         /\ cache' = [cache EXCEPT ![victim] = NotCached]
         /\ dirty' = dirty \ {victim}
         /\ lru' = [lru EXCEPT ![ShardOf[b]] = Without(@, victim)]
    /\ UNCHANGED <<flushAt, reply, owed>>

(***************************************************************************)
(* flush_dirty, one shard at a time.                                       *)
(***************************************************************************)
\* Fault: the flush numbers the shards from zero.
DirtyInShifted(s) == {b \in dirty : ShardOf[b] = s - 1}
DirtyIn(s) == {b \in dirty : ShardOf[b] = s}

FlushBegin(f) ==
    /\ flushAt[f] = 0
    /\ flushAt' = [flushAt EXCEPT ![f] = 1]
    /\ owed' = [owed EXCEPT ![f] = [b \in Blocks |-> {Logical(b)}]]
    /\ UNCHANGED <<disk, cache, dirty, lru, reply>>

FlushShard(f) ==
    /\ flushAt[f] \in 1..NumShards
    /\ disk' = Written(DirtyIn(flushAt[f]))
    /\ dirty' = dirty \ DirtyIn(flushAt[f])
    /\ flushAt' = [flushAt EXCEPT ![f] = @ + 1]
    /\ UNCHANGED <<cache, lru, reply, owed>>

FlushEnd(f) ==
    /\ flushAt[f] = NumShards + 1
    /\ flushAt' = [flushAt EXCEPT ![f] = 0]
    /\ owed' = [owed EXCEPT ![f] = <<>>]
    /\ UNCHANGED <<disk, cache, dirty, lru, reply>>

\* The flusher fails at some block of the shard: those written before it are
\* in the file, and every block of the shard keeps its flag.
FlushError(f) ==
    /\ flushAt[f] \in 1..NumShards
    /\ \E S \in SUBSET DirtyIn(flushAt[f]) :
         /\ S # DirtyIn(flushAt[f])
         /\ disk' = Written(S)
    /\ flushAt' = [flushAt EXCEPT ![f] = 0]
    /\ owed' = [owed EXCEPT ![f] = <<>>]
    /\ UNCHANGED <<cache, dirty, lru, reply>>

\* The process dies and opens the data file again with an empty cache.
Crash ==
    /\ cache' = [b \in Blocks |-> NotCached]
    /\ dirty' = {}
    /\ lru' = [s \in 1..NumShards |-> <<>>]
    /\ flushAt' = [f \in Flushers |-> 0]
    /\ reply' = <<>>
    /\ owed' = [f \in Flushers |-> <<>>]
    /\ UNCHANGED disk

Next ==
    \/ \E b \in Blocks : Read(b) \/ LoadError(b)
    \/ \E b \in Blocks, v \in Values : Update(b, v)
    \/ \E f \in Flushers : FlushBegin(f) \/ FlushShard(f) \/ FlushEnd(f) \/ FlushError(f)
    \/ Crash

Spec == Init /\ [][Next]_vars

(***************************************************************************)
(* Properties.                                                             *)
(***************************************************************************)

\* Types; only a cached block can be dirty, because the flag lives in the
\* CachedBlock that eviction drops.
TypeOK ==
    /\ disk \in [Blocks -> Values]
    /\ cache \in [Blocks -> Values \cup {NotCached}]
    /\ dirty \subseteq Cached
    /\ lru \in [1..NumShards -> Seq(Blocks)]
    /\ flushAt \in [Flushers -> 0..(NumShards + 1)]
    /\ owed \in [Flushers -> {<<>>} \cup [Blocks -> SUBSET Values]]
    /\ \A f \in Flushers : flushAt[f] = 0 <=> owed[f] = <<>>

\* A cached block that is not dirty equals the data file: dropping it, which
\* evict_one does without writing, loses nothing.
CleanMatchesDisk ==
    \A b \in Cached \ dirty : cache[b] = disk[b]

\* The map and the deque of a shard agree: the deque lists each cached block
\* of the shard once and nothing else.  If they drifted apart, evict_one would
\* find no victim and the cache would grow without bound.
DequeListsCached ==
    \A s \in 1..NumShards :
        /\ Range(lru[s]) = InShard(s)
        /\ \A i, j \in DOMAIN lru[s] : lru[s][i] = lru[s][j] => i = j

\* No shard ever holds more blocks than its capacity, whatever is dirty and
\* whichever loads fail.
WithinCapacity ==
    \A s \in 1..NumShards : Cardinality(InShard(s)) <= Capacity

\* Behind a running flush nothing is left that is older than the flush: every
\* block of a shard it has passed has on disk a value the block held since the
\* flush began.  WAL files are deleted on the strength of this.
FlushedBehind ==
    \A f \in Flushers, b \in Blocks :
        ShardOf[b] < flushAt[f] => disk[b] \in owed[f][b]

(***************************************************************************)
(* The cache is invisible: with the cached copy hiding the file, it is the *)
(* flat durable array of BlockStore.                                       *)
(***************************************************************************)
Store == INSTANCE BlockStore WITH
            mem <- [b \in Blocks |-> Logical(b)],
            durable <- disk

\* Every step of the cache, evictions and partly failed flushes included, is
\* a step of the flat array or changes nothing a caller can see.
ImplementsStore == Store!Spec
=============================================================================
