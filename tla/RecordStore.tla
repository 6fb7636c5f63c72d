---------------------------- MODULE RecordStore ----------------------------
(***************************************************************************)
(* Records in the data file: how threads allocate, fill and free them      *)
(* (allocate_chunks, write_data_chunks and free_data_chunks of             *)
(* graph/crud.rs over storage/bitmap_file.rs).  Allocation runs under the  *)
(* lock of the bitmap file, on a private copy of the block that it writes  *)
(* back as a whole; filling and freeing take neither that lock nor a block *)
(* lock and go straight to the cached block.                               *)
(***************************************************************************)
EXTENDS BlockAllocator, SequencesExt

CONSTANTS
    Threads,        \* threads that create and delete records
    Sizes,          \* sizes of records, in chunks
    MaxRecords,     \* bound: records created
    NumBlocks,      \* bound: blocks the data file may grow to
    PreAlloc,       \* pre_alloc_blocks
    BlocksPerByte,  \* blocks one byte of the bitmap file stands for, 8
    MaxCrashes,     \* bound: crashes
    Nobody,         \* the bitmap lock is free
    Zero            \* the contents of a chunk nothing was written to

Blocks == 0..(NumBlocks - 1)
Ids == 1..MaxRecords

ASSUME RecordStoreAssumption ==
    /\ Sizes \subseteq DataChunks \ {1}
    /\ MaxRecords \in Nat /\ MaxCrashes \in Nat
    /\ PreAlloc \in Nat \ {0} /\ BlocksPerByte \in Nat \ {0}
    /\ NumBlocks \in Nat \ {0} /\ NumBlocks % BlocksPerByte = 0
    /\ Nobody \notin Threads /\ Zero \notin Ids

VARIABLES
    block,      \* block[b]: header and chunks of block b, as the cache has it
    disk,       \* disk[b]: the same in the data file
    fileLen,    \* length of the data file, in blocks
    fullBits,   \* blocks whose bit is set in the bitmap file
    bitmapLen,  \* length of the bitmap file, in blocks
    freeList,   \* free_blocks
    scanPos,    \* last_scan_pos
    lock,       \* the thread that holds the bitmap lock
    pc,         \* where each thread is
    job,        \* job[t]: the record t is creating or freeing
    copy,       \* copy[t]: t's private copy of a block
    tried,      \* tried[t]: blocks tried without success
    made,       \* records begun so far
    crashes,    \* crashes so far
    live,       \* history: records written and not freed
    raced       \* history: blocks changed while another thread held a copy

bitmapVars == <<fullBits, bitmapLen, freeList, scanPos>>
diskVars == <<disk, fileLen>>
threadVars == <<pc, job, copy, tried, made>>
histVars == <<live, raced>>
vars == <<block, diskVars, bitmapVars, lock, threadVars, crashes, histVars>>

EmptyBlock == [bits |-> {}, cursor |-> 0, data |-> [c \in DataChunks |-> Zero]]
NoJob == [id |-> Zero, size |-> 0, block |-> 0, at |-> 0]

Init ==
    /\ block = [b \in Blocks |-> EmptyBlock] /\ disk = block /\ fileLen = 0
    /\ fullBits = {} /\ bitmapLen = BlocksPerByte /\ freeList = <<>> /\ scanPos = 0
    /\ lock = Nobody
    /\ pc = [t \in Threads |-> "idle"] /\ job = [t \in Threads |-> NoJob]
    /\ copy = [t \in Threads |-> EmptyBlock] /\ tried = [t \in Threads |-> 0]
    /\ made = 0
    /\ crashes = 0 /\ live = {} /\ raced = {}

Chunks(r) == Run(r.at, r.size)

(***************************************************************************)
(* The free list.  binary_search finds a block in a sorted list; on a list *)
(* that is not sorted it may miss it and answer any position.              *)
(***************************************************************************)
Sorted(q) == \A i, j \in DOMAIN q : i < j => q[i] <= q[j]

Insertions(q, b) ==
    {p \in 1..(Len(q) + 1) :
        Sorted(q) => /\ b \notin Range(q)
                     /\ \A i \in DOMAIN q : (i < p) = (q[i] < b)}

Ascending(S) == CHOOSE q \in SetToSeqs(S) : Sorted(q)

\* retain: the list without block b.
Consume(q, b) ==
    LET kept == Ascending({i \in DOMAIN q : q[i] # b})
    IN  [n \in DOMAIN kept |-> q[kept[n]]]

UpTo(q, n) == SubSeq(q, 1, IF Len(q) < n THEN Len(q) ELSE n)

\* The lists mark_partial and mark_free may leave.
Inserted(q, b) ==
    {UpTo(InsertAt(q, p, b), PreAlloc) : p \in Insertions(q, b)} \cup
    (IF b \in Range(q) THEN {UpTo(q, PreAlloc)} ELSE {})

\* scan_for_free_blocks: blocks from last_scan_pos on whose bit is clear, as
\* many as the list has room for.
Scanned(full, q) ==
    UpTo(Ascending({b \in scanPos..(bitmapLen - 1) : b \notin full}), PreAlloc - Len(q))

MarkFull(b) ==
    LET q == Consume(freeList, b)
        more == Scanned(fullBits \cup {b}, q)
    IN  /\ fullBits' = fullBits \cup {b}
        /\ freeList' = q \o more
        /\ scanPos' = IF more = <<>> THEN scanPos ELSE Last(more)
        /\ UNCHANGED bitmapLen

MarkPartial(b) ==
    /\ freeList' \in Inserted(freeList, b)
    /\ UNCHANGED <<fullBits, bitmapLen, scanPos>>

MarkFree(b) ==
    IF b \in fullBits
    THEN /\ fullBits' = fullBits \ {b}
         /\ freeList' \in Inserted(freeList, b)
         /\ UNCHANGED <<bitmapLen, scanPos>>
    ELSE UNCHANGED bitmapVars

(***************************************************************************)
(* write_data_record: allocate_chunks under the bitmap lock, then fill.    *)
(***************************************************************************)
Goto(t, l) == pc' = [pc EXCEPT ![t] = l]

Begin(t, size) ==
    /\ pc[t] = "idle" /\ lock = Nobody /\ made < MaxRecords
    /\ lock' = t
    /\ made' = made + 1
    /\ job' = [job EXCEPT ![t] = [NoJob EXCEPT !.id = made', !.size = size]]
    /\ tried' = [tried EXCEPT ![t] = 0]
    /\ Goto(t, "pick")
    /\ UNCHANGED <<block, diskVars, bitmapVars, copy, crashes, histVars>>

\* alloc_new_blocks: the data file grows by pre_alloc_blocks zero blocks.
Grow(t) ==
    /\ pc[t] = "pick" /\ freeList = <<>>
    /\ fileLen + PreAlloc <= NumBlocks
    /\ fileLen' = fileLen + PreAlloc
    /\ bitmapLen' = LET bytes == (fileLen' + BlocksPerByte - 1) \div BlocksPerByte
                    IN  IF bytes * BlocksPerByte > bitmapLen
                        THEN bytes * BlocksPerByte ELSE bitmapLen
    /\ freeList' = [i \in 1..PreAlloc |-> fileLen + i - 1]
    /\ scanPos' = fileLen'
    /\ UNCHANGED <<block, disk, fullBits, lock, threadVars, crashes, histVars>>

\* Take the first free block off the list and copy it.
Pick(t) ==
    /\ pc[t] = "pick" /\ freeList # <<>>
    /\ LET b == Head(freeList) IN
       /\ freeList' = Consume(freeList, b)
       /\ copy' = [copy EXCEPT ![t] = block[b]]
       /\ job' = [job EXCEPT ![t].block = b]
    /\ Goto(t, "alloc")
    /\ UNCHANGED <<block, diskVars, fullBits, bitmapLen, scanPos, lock, tried, made, crashes, histVars>>

\* Fault: the changed header is not encoded before the block goes back.
WriteBackUnmarked(t) ==
    /\ pc[t] = "alloc"
    /\ \E at \in DataChunks :
         /\ AllocatedAt(copy[t].bits, copy[t].cursor, job[t].size, at)
         /\ job' = [job EXCEPT ![t].at = at]
    /\ block' = [block EXCEPT ![job[t].block] = copy[t]]
    /\ Goto(t, "mark")
    /\ UNCHANGED <<diskVars, bitmapVars, lock, copy, tried, made, crashes, histVars>>

\* The copy with the new run marked goes back over the whole block.
WriteBack(t) ==
    /\ pc[t] = "alloc"
    /\ \E at \in DataChunks :
         LET c == copy[t]
             size == job[t].size
             new == [bits |-> c.bits \cup Run(at, size),
                     cursor |-> CursorAfter(c.bits, c.cursor, size), data |-> c.data]
         IN  /\ AllocatedAt(c.bits, c.cursor, size, at)
             /\ block' = [block EXCEPT ![job[t].block] = new]
             /\ copy' = [copy EXCEPT ![t] = new]
             /\ job' = [job EXCEPT ![t].at = at]
    /\ Goto(t, "mark")
    /\ UNCHANGED <<diskVars, bitmapVars, lock, tried, made, crashes, histVars>>

\* Fault: a block without room always goes back on the list.
SkipForever(t) ==
    /\ pc[t] = "alloc"
    /\ ~Allocatable(copy[t].bits, copy[t].cursor, job[t].size)
    /\ MarkPartial(job[t].block)
    /\ Goto(t, "pick")
    /\ UNCHANGED <<block, diskVars, lock, job, copy, tried, made, crashes, histVars>>

\* No room: the block goes back on the list, unless as many blocks have been
\* tried as the list holds.
Skip(t) ==
    /\ pc[t] = "alloc"
    /\ ~Allocatable(copy[t].bits, copy[t].cursor, job[t].size)
    /\ IF tried[t] + 1 > Len(freeList)
       THEN tried' = [tried EXCEPT ![t] = 0] /\ UNCHANGED bitmapVars
       ELSE tried' = [tried EXCEPT ![t] = @ + 1] /\ MarkPartial(job[t].block)
    /\ Goto(t, "pick")
    /\ UNCHANGED <<block, diskVars, lock, job, copy, made, crashes, histVars>>

Mark(t) ==
    /\ pc[t] = "mark"
    /\ IF IsBlockFull(copy[t].bits) THEN MarkFull(job[t].block) ELSE MarkPartial(job[t].block)
    /\ lock' = Nobody
    /\ copy' = [copy EXCEPT ![t] = EmptyBlock]
    /\ Goto(t, "fill")
    /\ UNCHANGED <<block, diskVars, job, tried, made, crashes, histVars>>

\* Another thread will write an older copy of block b back.
Copied(t, b) == \E u \in Threads \ {t} : pc[u] = "alloc" /\ job[u].block = b

\* Fault: one chunk too many is written.
FillOneMore(t) ==
    /\ pc[t] = "fill"
    /\ block' = [block EXCEPT ![job[t].block].data =
                    [c \in DataChunks |->
                        IF c \in Run(job[t].at, job[t].size + 1) THEN job[t].id ELSE @[c]]]
    /\ live' = live \cup {job[t]}
    /\ raced' = IF Copied(t, job[t].block) THEN raced \cup {job[t].block} ELSE raced
    /\ job' = [job EXCEPT ![t] = NoJob]
    /\ Goto(t, "idle")
    /\ UNCHANGED <<diskVars, bitmapVars, lock, copy, tried, made, crashes>>

\* write_data_chunks, by with_block on the cached block.
Fill(t) ==
    /\ pc[t] = "fill"
    /\ block' = [block EXCEPT ![job[t].block].data =
                    [c \in DataChunks |-> IF c \in Chunks(job[t]) THEN job[t].id ELSE @[c]]]
    /\ live' = live \cup {job[t]}
    /\ raced' = IF Copied(t, job[t].block) THEN raced \cup {job[t].block} ELSE raced
    /\ job' = [job EXCEPT ![t] = NoJob]
    /\ Goto(t, "idle")
    /\ UNCHANGED <<diskVars, bitmapVars, lock, copy, tried, made, crashes>>

(***************************************************************************)
(* free_data_chunks.                                                       *)
(***************************************************************************)
\* Fault: the bitmap file never learns that a full block has room again.
FreeForgetsBitmap(t, r) ==
    /\ pc[t] = "idle"
    /\ block' = [block EXCEPT ![r.block].bits = @ \ Chunks(r)]
    /\ live' = live \ {r}
    /\ raced' = IF Copied(t, r.block) THEN raced \cup {r.block} ELSE raced
    /\ UNCHANGED <<diskVars, bitmapVars, lock, threadVars, crashes>>

\* Fault: the last chunk of the record stays allocated.
FreeOneLess(t, r) ==
    /\ pc[t] = "idle"
    /\ block' = [block EXCEPT ![r.block].bits = @ \ Run(r.at, r.size - 1)]
    /\ live' = live \ {r}
    /\ raced' = IF Copied(t, r.block) THEN raced \cup {r.block} ELSE raced
    /\ UNCHANGED <<diskVars, bitmapVars, lock, threadVars, crashes>>

\* The chunks go back under the shard lock of the cache; when that makes room
\* in a full block the bitmap file is told in a second step.
Free(t, r) ==
    /\ pc[t] = "idle"
    /\ block' = [block EXCEPT ![r.block].bits = @ \ Chunks(r)]
    /\ live' = live \ {r}
    /\ raced' = IF Copied(t, r.block) THEN raced \cup {r.block} ELSE raced
    /\ IF IsBlockFull(block[r.block].bits) /\ ~IsBlockFull(block'[r.block].bits)
       THEN Goto(t, "unmark") /\ job' = [job EXCEPT ![t] = r]
       ELSE UNCHANGED <<pc, job>>
    /\ UNCHANGED <<diskVars, bitmapVars, lock, copy, tried, made, crashes>>

Unmark(t) ==
    /\ pc[t] = "unmark" /\ lock = Nobody
    /\ MarkFree(job[t].block)
    /\ job' = [job EXCEPT ![t] = NoJob]
    /\ Goto(t, "idle")
    /\ UNCHANGED <<block, diskVars, lock, copy, tried, made, crashes, histVars>>

(***************************************************************************)
(* The cache writes a block to the file, extending it when necessary.      *)
(* Writes that nobody will read are left out: the file is read again only  *)
(* after a crash.                                                          *)
(***************************************************************************)
Evict(b) ==
    /\ block[b] # disk[b]
    /\ crashes < MaxCrashes \/ b >= fileLen
    /\ disk' = [disk EXCEPT ![b] = block[b]]
    /\ fileLen' = IF b < fileLen THEN fileLen ELSE b + 1
    /\ UNCHANGED <<block, bitmapVars, lock, threadVars, crashes, histVars>>

\* The process dies and opens the files again; a record survives when its
\* block reached the file.
Crash ==
    /\ crashes < MaxCrashes
    /\ crashes' = crashes + 1
    /\ block' = disk
    /\ live' = {r \in live : \A c \in Chunks(r) :
                   c \in disk[r.block].bits /\ disk[r.block].data[c] = r.id}
    /\ freeList' = UpTo(Ascending({b \in 0..(fileLen - 1) : b \notin fullBits}), PreAlloc)
    /\ scanPos' = IF freeList' = <<>> THEN 0 ELSE Last(freeList')
    /\ lock' = Nobody
    /\ pc' = [t \in Threads |-> "idle"] /\ job' = [t \in Threads |-> NoJob]
    /\ copy' = [t \in Threads |-> EmptyBlock] /\ tried' = [t \in Threads |-> 0]
    /\ UNCHANGED <<diskVars, fullBits, bitmapLen, made, raced>>

Allocating(t) == Grow(t) \/ Pick(t) \/ WriteBack(t) \/ Skip(t) \/ Mark(t)

Next ==
    \/ \E t \in Threads :
          \/ \E size \in Sizes : Begin(t, size)
          \/ Allocating(t) \/ Fill(t) \/ Unmark(t)
          \/ \E r \in live : Free(t, r)
    \/ \E b \in Blocks : Evict(b)
    \/ Crash

Spec == Init /\ [][Next]_vars

\* A thread that holds the bitmap lock does not stop.
FairSpec == Spec /\ \A t \in Threads : WF_vars(Allocating(t))

(***************************************************************************)
(* Properties.                                                             *)
(***************************************************************************)

\* Types; the lock is held exactly during an allocation, and the free list
\* keeps to "free_blocks.len() <= pre_alloc_blocks".
TypeOK ==
    /\ \A b \in Blocks :
         /\ block[b].bits \subseteq DataChunks /\ block[b].cursor \in 0..(ChunksPerBlock - 1)
         /\ block[b].data \in [DataChunks -> Ids \cup {Zero}]
    /\ fileLen \in 0..NumBlocks /\ bitmapLen \in 0..NumBlocks
    /\ fullBits \subseteq Blocks /\ scanPos \in 0..NumBlocks
    /\ freeList \in Seq(Blocks) /\ Len(freeList) <= PreAlloc
    /\ pc \in [Threads -> {"idle", "pick", "alloc", "mark", "fill", "unmark"}]
    /\ \A t \in Threads : (lock = t) = (pc[t] \in {"pick", "alloc", "mark"})

\* Records written, and those whose chunks are allocated but not yet filled.
Held == live \cup {job[t] : t \in {u \in Threads : pc[u] = "fill"}}

\* Two records never share a chunk, and the chunks of a record stay marked in
\* the block header, although headers are written back from copies.
RecordsDisjoint ==
    /\ \A r, s \in Held : r # s /\ r.block = s.block => Chunks(r) \cap Chunks(s) = {}
    /\ \A r \in Held : Chunks(r) \subseteq block[r.block].bits

\* A record that was written reads back as it was written until it is freed,
\* whoever shares its block.
RecordsIntact ==
    \A r \in live : \A c \in Chunks(r) : block[r.block].data[c] = r.id

\* The same for a block that was never filled or freed in between the copy
\* and the write-back of an allocation: evictions, crashes and reallocation
\* of freed chunks do not harm a record.
UnracedIntact ==
    \A r \in live : r.block \notin raced =>
        \A c \in Chunks(r) : block[r.block].data[c] = r.id

\* With no operation in progress, and while nothing was lost in a crash, the
\* allocated chunks of such a block are those of its records.
NoChunkLeaks ==
    crashes = 0 /\ (\A t \in Threads : pc[t] = "idle") =>
        \A b \in Blocks \ raced :
            block[b].bits = UNION {Chunks(r) : r \in {s \in live : s.block = b}}

\* "1: block is full (no free chunks)", up to the first crash: a set bit takes
\* the block out of use, for good unless something in it is freed.
FullBitsTrue ==
    crashes = 0 /\ (\A t \in Threads : pc[t] \in {"idle", "fill"}) =>
        \A b \in fullBits : IsBlockFull(block[b].bits)

\* "free_blocks is always sorted ascending".
FreeListSorted == Sorted(freeList)

\* "Full circle with no success": a block is dropped from the free list only
\* when no block of the list has room for the record.
DropsOnlyWhenNoneFits ==
    [][\A t \in Threads :
        /\ pc[t] = "alloc" /\ pc'[t] = "pick" /\ tried'[t] = 0
        => \A b \in Range(freeList) :
             ~Allocatable(block[b].bits, block[b].cursor, job[t].size)]_vars

\* An allocation that has the lock ends, although a block without room goes
\* back to the front of the list it was taken from.
AllocationEnds == \A t \in Threads : lock = t ~> lock # t
=============================================================================
