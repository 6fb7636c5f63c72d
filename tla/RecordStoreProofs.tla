------------------------- MODULE RecordStoreProofs -------------------------
(***************************************************************************)
(* Proofs about the record store, for any number of threads, blocks and    *)
(* records, and any sizes: records never share chunks, those of blocks     *)
(* that no stale copy went over read as they were written and leak         *)
(* nothing, and until the first crash a set bit says that a block is full. *)
(***************************************************************************)
EXTENDS RecordStore, ChunkBlock, FiniteSetTheorems, SequenceTheorems, WellFoundedInduction, TLAPS

-----------------------------------------------------------------------------
(***************************************************************************)
(* A set of numbers has a least element, and a finite one can be listed in *)
(* order.                                                                  *)
(***************************************************************************)
LEMMA MinimalElement ==
    ASSUME NEW R, NEW S, NEW T, T \subseteq S, T # {}, IsWellFoundedOn(R, S)
    PROVE  \E n \in T : \A m \in T : ~(<<m, n>> \in R)
BY WFMin, Zenon

LEMMA LeastBy ==
    ASSUME NEW R, NEW T \in SUBSET Nat, T # {}, IsWellFoundedOn(R, Nat),
           \A m, n \in Nat : m < n => <<m, n>> \in R
    PROVE  \E n \in T : \A m \in T : n <= m
<1>1. T \subseteq Nat
  OBVIOUS
<1>2. PICK n \in T : \A m \in T : ~(<<m, n>> \in R)
  BY <1>1, MinimalElement, Zenon
<1>3. ASSUME NEW m \in T PROVE n <= m
  <2>1. m \in Nat /\ n \in Nat
    OBVIOUS
  <2>2. ~(m < n)
    BY <1>2, <2>1, Zenon
  <2>. QED  BY <2>1, <2>2
<1>. QED  BY <1>3

LEMMA LeastNumber ==
    ASSUME NEW T \in SUBSET Nat, T # {}
    PROVE  \E n \in T : \A m \in T : n <= m
<1>1. \A m, n \in Nat : m < n => <<m, n>> \in OpToRel(<, Nat)
  BY DEF OpToRel
<1>. QED  BY <1>1, NatLessThanWellFounded, LeastBy, Zenon

Listing(S, q) == q \in SetToSeqs(S) /\ Sorted(q)

\* The least element goes in front of a listing of the others.
LEMMA ListLeastFirst ==
    ASSUME NEW S \in SUBSET Nat, IsFiniteSet(S), NEW m \in S, \A k \in S : m <= k,
           NEW rest, Listing(S \ {m}, rest)
    PROVE  \E q : Listing(S, q)
<1>. DEFINE c == Cardinality(S)
            q == [i \in 1..c |-> IF i = 1 THEN m ELSE rest[i - 1]]
<1>1. c \in Nat /\ Cardinality(S \ {m}) = c - 1
  BY FS_CardinalityType, FS_RemoveElement
<1>2. /\ rest \in [1..(c - 1) -> S \ {m}]
      /\ \A i, j \in 1..(c - 1) : i # j => rest[i] # rest[j]
      /\ \A i, j \in 1..(c - 1) : i < j => rest[i] <= rest[j]
  BY <1>1 DEF Listing, SetToSeqs, Sorted
<1>. HIDE DEF c
<1>3. \A i \in 1..c : i # 1 => i - 1 \in 1..(c - 1)
  BY <1>1
<1>4. q \in [1..c -> S]
  BY <1>2, <1>3
<1>5. \A i, j \in 1..c : i # j => q[i] # q[j]
  BY <1>1, <1>2, <1>3
<1>6. ASSUME NEW i \in 1..c, NEW j \in 1..c, i < j PROVE q[i] <= q[j]
  <2>1. j # 1 /\ j - 1 \in 1..(c - 1) /\ rest[j - 1] \in S
    BY <1>1, <1>2, <1>6
  <2>2. CASE i = 1
    BY <2>1, <2>2
  <2>3. CASE i # 1
    <3>1. i - 1 \in 1..(c - 1) /\ i - 1 < j - 1
      BY <1>1, <1>6, <2>3
    <3>. QED  BY <1>2, <2>1, <2>3, <3>1
  <2>. QED  BY <2>2, <2>3
<1>7. Listing(S, q)
  BY <1>4, <1>5, <1>6 DEF Listing, SetToSeqs, Sorted, c
<1>. QED  BY <1>7

LEMMA ListingExists ==
    ASSUME NEW S \in SUBSET Nat, IsFiniteSet(S)
    PROVE  \E q : Listing(S, q)
<1>. DEFINE Unlisted(n) == \E T \in SUBSET Nat : /\ IsFiniteSet(T) /\ Cardinality(T) = n
                                                 /\ ~\E q : Listing(T, q)
            Bad == {n \in Nat : Unlisted(n)}
<1>1. ASSUME Bad # {} PROVE FALSE
  <2>1. PICK n \in Bad : \A k \in Bad : n <= k
    BY <1>1, LeastNumber
  <2>2. PICK T \in SUBSET Nat : IsFiniteSet(T) /\ Cardinality(T) = n /\ ~\E q : Listing(T, q)
    BY <2>1
  <2>3. CASE T = {}
    <3>1. Cardinality(T) = 0
      BY <2>3, FS_EmptySet
    <3>2. [i \in 1..0 |-> 0] \in SetToSeqs(T) /\ Sorted([i \in 1..0 |-> 0])
      BY <3>1 DEF SetToSeqs, Sorted
    <3>. QED  BY <2>2, <3>2 DEF Listing
  <2>4. CASE T # {}
    <3>1. PICK m \in T : \A k \in T : m <= k
      BY <2>4, LeastNumber
    <3>2. IsFiniteSet(T \ {m}) /\ Cardinality(T \ {m}) = n - 1 /\ n - 1 \in Nat
      <4>1. n # 0
        BY <2>2, <2>4, FS_EmptySet
      <4>. QED  BY <2>2, <4>1, FS_RemoveElement
    <3>3. n - 1 \notin Bad
      BY <2>1, <3>2
    <3>4. PICK rest : Listing(T \ {m}, rest)
      BY <3>2, <3>3
    <3>. QED  BY <2>2, <3>1, <3>4, ListLeastFirst
  <2>. QED  BY <2>3, <2>4
<1>2. Cardinality(S) \in Nat
  BY FS_CardinalityType
<1>. QED  BY <1>1, <1>2

LEMMA AscendingLists ==
    ASSUME NEW S \in SUBSET Nat, IsFiniteSet(S)
    PROVE  Ascending(S) \in [1..Cardinality(S) -> S] /\ Ascending(S) \in Seq(S)
<1>1. \E q \in SetToSeqs(S) : Sorted(q)
  BY ListingExists DEF Listing
<1>2. Ascending(S) \in SetToSeqs(S)
  BY <1>1 DEF Ascending
<1>3. Ascending(S) \in [1..Cardinality(S) -> S] /\ Cardinality(S) \in Nat
  BY <1>2, FS_CardinalityType DEF SetToSeqs
<1>. QED  BY <1>3
-----------------------------------------------------------------------------
(***************************************************************************)
(* The inductive invariant.                                                *)
(***************************************************************************)
BlockStates ==
    [bits : SUBSET DataChunks, cursor : 0..(ChunksPerBlock - 1), data : [DataChunks -> Ids \cup {Zero}]]

Jobs == [id : Ids \cup {Zero}, size : Sizes \cup {0}, block : Blocks, at : DataChunks \cup {0}]

Allocated(r) ==
    r.id \in Ids /\ r.size \in Sizes /\ r.at \in DataChunks /\ Chunks(r) \subseteq DataChunks

BlocksOK == block \in [Blocks -> BlockStates] /\ disk \in [Blocks -> BlockStates]

BitmapOK ==
    /\ fileLen \in 0..NumBlocks /\ bitmapLen \in 0..NumBlocks /\ scanPos \in 0..NumBlocks
    /\ fullBits \subseteq Blocks
    /\ freeList \in Seq(Blocks) /\ Len(freeList) <= PreAlloc

\* A thread has the lock exactly while it allocates, and what it works on is
\* the record its step is about.
ThreadsOK ==
    /\ pc \in [Threads -> {"idle", "pick", "alloc", "mark", "fill", "unmark"}]
    /\ job \in [Threads -> Jobs] /\ copy \in [Threads -> BlockStates]
    /\ tried \in [Threads -> Nat] /\ made \in 0..MaxRecords /\ crashes \in Nat
    /\ \A t \in Threads : (lock = t) = (pc[t] \in {"pick", "alloc", "mark"})
    /\ \A t \in Threads : pc[t] \in {"pick", "alloc"} => job[t].id \in Ids /\ job[t].size \in Sizes
    /\ \A t \in Threads : pc[t] \in {"mark", "fill", "unmark"} => Allocated(job[t])
    /\ live \subseteq {r \in Jobs : Allocated(r)}

Holding(t) == pc[t] \in {"mark", "fill"}

\* No two records share a chunk, neither among those that are written nor
\* among those that threads have allocated; all their chunks are marked.
HoldersDisjoint ==
    /\ \A r, s \in live : r # s /\ r.block = s.block => Chunks(r) \cap Chunks(s) = {}
    /\ \A t \in Threads, r \in live :
           Holding(t) /\ job[t].block = r.block => Chunks(job[t]) \cap Chunks(r) = {}
    /\ \A t, u \in Threads :
           t # u /\ Holding(t) /\ Holding(u) /\ job[t].block = job[u].block
               => Chunks(job[t]) \cap Chunks(job[u]) = {}
    /\ \A r \in live : Chunks(r) \subseteq block[r.block].bits
    /\ \A t \in Threads : Holding(t) => Chunks(job[t]) \subseteq block[job[t].block].bits

\* Since a copy was taken, the block has lost marks at most; and nothing has
\* changed in it unless the block is known as raced.
CopyCovers ==
    \A t \in Threads : pc[t] = "alloc" =>
        LET b == job[t].block
        IN  /\ block[b].bits \subseteq copy[t].bits
            /\ b \notin raced => block[b].bits = copy[t].bits /\ block[b].data = copy[t].data

Owned(b, c) ==
    \/ \E r \in live : r.block = b /\ c \in Chunks(r)
    \/ \E t \in Threads : Holding(t) /\ job[t].block = b /\ c \in Chunks(job[t])

MarksOwned ==
    crashes = 0 => \A b \in Blocks \ raced : \A c \in block[b].bits : Owned(b, c)

\* A block is full, or a thread that made room is about to say so.
FullOrTold(b) ==
    IsBlockFull(block[b].bits) \/ \E t \in Threads : pc[t] = "unmark" /\ job[t].block = b

FullBitsTold ==
    crashes = 0 =>
        /\ \A b \in fullBits : FullOrTold(b)
        /\ \A t \in Threads : pc[t] = "mark" /\ IsBlockFull(copy[t].bits) => FullOrTold(job[t].block)

TypesOK == BlocksOK /\ BitmapOK /\ ThreadsOK

IInv ==
    /\ TypesOK /\ HoldersDisjoint /\ CopyCovers /\ UnracedIntact
    /\ MarksOwned /\ FullBitsTold
-----------------------------------------------------------------------------

LEMMA Sizing ==
    /\ ChunksPerBlock \in Nat /\ ChunksPerBlock > 2 /\ NumBlocks \in Nat /\ 0 \in Blocks
    /\ Blocks \subseteq Nat /\ PreAlloc \in Nat /\ PreAlloc >= 1
    /\ DataChunks = 1..(ChunksPerBlock - 1) /\ Blocks = 0..(NumBlocks - 1)
    /\ \A n \in Sizes : n \in DataChunks /\ n >= 2
BY BlockAllocatorAssumption, RecordStoreAssumption DEF Blocks, DataChunks

-----------------------------------------------------------------------------
(***************************************************************************)
(* The free list holds blocks of the file, whatever is done to it.         *)
(***************************************************************************)
LEMMA ConsumeBlocks ==
    ASSUME NEW q \in Seq(Blocks), NEW b
    PROVE  Consume(q, b) \in Seq(Blocks) /\ Len(Consume(q, b)) <= Len(q)
<1>. DEFINE D == {i \in DOMAIN q : q[i] # b}
<1>1. D \subseteq 1..Len(q) /\ Len(q) \in Nat
  OBVIOUS
<1>2. IsFiniteSet(1..Len(q)) /\ Cardinality(1..Len(q)) = Len(q)
  <2>1. ASSUME NEW n \in Nat PROVE IsFiniteSet(1..n) /\ Cardinality(1..n) = n
    <3>1. IsFiniteSet(1..n) /\ Cardinality(1..n) = IF 1 > n THEN 0 ELSE n - 1 + 1
      BY FS_Interval
    <3>. QED  BY <3>1
  <2>. QED  BY <1>1, <2>1
<1>3. IsFiniteSet(D) /\ Cardinality(D) <= Len(q) /\ Cardinality(D) \in Nat
  BY <1>1, <1>2, FS_Subset, FS_CardinalityType
<1>4. Ascending(D) \in [1..Cardinality(D) -> D]
  <2>1. D \in SUBSET Nat
    BY <1>1
  <2>. QED  BY <2>1, <1>3, AscendingLists
<1>5. Consume(q, b) = [n \in 1..Cardinality(D) |-> q[Ascending(D)[n]]]
  BY <1>4 DEF Consume
<1>6. \A n \in 1..Cardinality(D) : q[Ascending(D)[n]] \in Blocks
  BY <1>1, <1>4
<1>. HIDE DEF D
<1>7. Consume(q, b) \in [1..Cardinality(D) -> Blocks]
  BY <1>5, <1>6
<1>. QED  BY <1>3, <1>7

LEMMA UpToShortens ==
    ASSUME NEW S, NEW q \in Seq(S), NEW n \in Nat
    PROVE  UpTo(q, n) \in Seq(S) /\ Len(UpTo(q, n)) <= n
BY DEF UpTo

LEMMA InsertedBlocks ==
    ASSUME NEW q \in Seq(Blocks), NEW b \in Blocks, NEW r \in Inserted(q, b)
    PROVE  r \in Seq(Blocks) /\ Len(r) <= PreAlloc
<1>1. CASE r = UpTo(q, PreAlloc)
  BY <1>1, UpToShortens, Sizing
<1>2. ASSUME NEW p \in Insertions(q, b), r = UpTo(InsertAt(q, p, b), PreAlloc)
      PROVE  r \in Seq(Blocks) /\ Len(r) <= PreAlloc
  <2>1. p \in 1..(Len(q) + 1)
    BY <1>2 DEF Insertions
  <2>2. SubSeq(q, 1, p - 1) \in Seq(Blocks) /\ SubSeq(q, p, Len(q)) \in Seq(Blocks)
    BY <2>1
  <2>3. InsertAt(q, p, b) \in Seq(Blocks)
    BY <2>2 DEF InsertAt
  <2>. QED  BY <1>2, <2>3, UpToShortens, Sizing
<1>. QED  BY <1>1, <1>2 DEF Inserted

LEMMA ScannedBlocks ==
    ASSUME BitmapOK, NEW full, NEW q \in Seq(Blocks), Len(q) <= PreAlloc
    PROVE  /\ Scanned(full, q) \in Seq(Blocks)
           /\ Len(q \o Scanned(full, q)) <= PreAlloc
<1>. DEFINE S == {b \in scanPos..(bitmapLen - 1) : b \notin full}
<1>1. scanPos \in Nat /\ bitmapLen \in Nat /\ bitmapLen <= NumBlocks /\ NumBlocks \in Nat
  BY Sizing DEF BitmapOK
<1>2. IsFiniteSet(scanPos..(bitmapLen - 1)) /\ S \subseteq Blocks /\ S \subseteq scanPos..(bitmapLen - 1)
  <2>1. scanPos \in Int /\ bitmapLen - 1 \in Int
    BY <1>1
  <2>2. scanPos..(bitmapLen - 1) \subseteq Blocks
    BY <1>1, Sizing
  <2>. QED  BY <2>1, <2>2, FS_Interval
<1>3. IsFiniteSet(S) /\ S \in SUBSET Nat
  BY <1>2, FS_Subset, Sizing
<1>4. Ascending(S) \in Seq(Blocks)
  <2>1. Ascending(S) \in Seq(S)
    BY <1>3, AscendingLists
  <2>. QED  BY <1>2, <2>1, SeqMonotonic
<1>5. PreAlloc - Len(q) \in Nat
  BY Sizing
<1>6. Scanned(full, q) = UpTo(Ascending(S), PreAlloc - Len(q))
  BY DEF Scanned
<1>. HIDE DEF S
<1>7. Scanned(full, q) \in Seq(Blocks) /\ Len(Scanned(full, q)) <= PreAlloc - Len(q)
  BY <1>4, <1>5, <1>6, UpToShortens
<1>. QED  BY <1>7, Sizing

LEMMA LastBlock ==
    ASSUME NEW q \in Seq(Blocks), q # <<>>
    PROVE  Last(q) \in Blocks
BY DEF Last

LEMMA MarkFullOK ==
    ASSUME BitmapOK, NEW b \in Blocks, MarkFull(b), UNCHANGED fileLen
    PROVE  BitmapOK' /\ fullBits' = fullBits \cup {b}
<1>. DEFINE q == Consume(freeList, b)
            more == Scanned(fullBits \cup {b}, q)
<1>1. q \in Seq(Blocks) /\ Len(q) <= PreAlloc
  BY ConsumeBlocks, Sizing DEF BitmapOK
<1>2. more \in Seq(Blocks) /\ Len(q \o more) <= PreAlloc
  BY <1>1, ScannedBlocks
<1>3. /\ fullBits' = fullBits \cup {b} /\ freeList' = q \o more /\ bitmapLen' = bitmapLen
      /\ scanPos' = IF more = <<>> THEN scanPos ELSE Last(more)
  BY DEF MarkFull
<1>. HIDE DEF q, more
<1>4. scanPos' \in 0..NumBlocks
  BY <1>2, <1>3, LastBlock, Sizing DEF BitmapOK
<1>5. freeList' \in Seq(Blocks) /\ Len(freeList') <= PreAlloc
  BY <1>1, <1>2, <1>3
<1>. QED  BY <1>3, <1>4, <1>5 DEF BitmapOK

LEMMA MarkPartialOK ==
    ASSUME BitmapOK, NEW b \in Blocks, MarkPartial(b), UNCHANGED fileLen
    PROVE  BitmapOK' /\ fullBits' = fullBits
BY InsertedBlocks DEF BitmapOK, MarkPartial

LEMMA MarkFreeOK ==
    ASSUME BitmapOK, NEW b \in Blocks, MarkFree(b), UNCHANGED fileLen
    PROVE  BitmapOK' /\ fullBits' = fullBits \ {b}
BY InsertedBlocks DEF BitmapOK, MarkFree, bitmapVars

LEMMA WholeBytes ==
    ASSUME NEW n \in 0..NumBlocks
    PROVE  LET bytes == (n + BlocksPerByte - 1) \div BlocksPerByte
           IN  bytes \in Nat /\ bytes * BlocksPerByte <= NumBlocks
<1>. DEFINE k == BlocksPerByte
            bytes == (n + k - 1) \div k
            whole == NumBlocks \div k
<1>1. k \in Nat /\ k >= 1 /\ n \in Nat /\ n <= NumBlocks /\ NumBlocks \in Nat /\ NumBlocks % k = 0
  BY RecordStoreAssumption
<1>. HIDE DEF k
<1>2. n + k - 1 \in Nat
  BY <1>1
<1>3. bytes \in Nat /\ k * bytes <= n + k - 1
  BY <1>1, <1>2
<1>4. whole \in Nat /\ NumBlocks = k * whole
  BY <1>1
<1>. HIDE DEF bytes, whole
<1>5. k * bytes < k * whole + k
  BY <1>1, <1>3, <1>4
<1>6. bytes < whole + 1
  <2>1. ASSUME bytes >= whole + 1 PROVE FALSE
    <3>1. k * bytes >= k * (whole + 1)
      BY <1>1, <1>3, <1>4, <2>1
    <3>2. k * (whole + 1) = k * whole + k
      BY <1>1, <1>4
    <3>. QED  BY <1>1, <1>3, <1>4, <1>5, <3>1, <3>2
  <2>. QED  BY <2>1, <1>3, <1>4
<1>7. bytes * k <= NumBlocks
  <2>1. bytes <= whole
    BY <1>3, <1>4, <1>6
  <2>2. bytes * k <= whole * k
    BY <1>1, <1>3, <1>4, <2>1
  <2>. QED  BY <1>1, <1>3, <1>4, <2>2
<1>. QED  BY <1>3, <1>7 DEF bytes, k

-----------------------------------------------------------------------------
(***************************************************************************)
(* Allocation in one block.                                                *)
(***************************************************************************)
\* Whatever phase finds it, an allocated run lies in the block and is free.
LEMMA AllocationSound ==
    ASSUME NEW free \in SUBSET DataChunks, NEW pos \in 0..(ChunksPerBlock - 1),
           NEW size \in Nat, size >= 2, size < ChunksPerBlock,
           NEW at \in DataChunks, AllocatedAt(free, pos, size, at)
    PROVE  Run(at, size) \subseteq DataChunks /\ Run(at, size) \cap free = {}
<1>1. ChunksPerBlock \in Nat
  BY BlockAllocatorAssumption
<1>2. CASE Sequential(free, pos, size) /\ at = Start(pos)
  BY <1>1, <1>2 DEF Sequential, Start, Run, DataChunks
<1>3. CASE at \in Fallback(free, pos, size)
  BY <1>1, <1>3 DEF Fallback, ScanEnd, Start, Run, DataChunks
<1>. QED  BY <1>2, <1>3 DEF AllocatedAt

\* A block stays a block when a run is marked or filled in it, or freed.
LEMMA MarkedBlock ==
    ASSUME NEW c \in BlockStates, NEW size \in Sizes, NEW run \in SUBSET DataChunks
    PROVE  [bits |-> c.bits \cup run, cursor |-> CursorAfter(c.bits, c.cursor, size),
            data |-> c.data] \in BlockStates
<1>1. ChunksPerBlock \in Nat \ {0} /\ size \in Nat /\ c.cursor \in 0..(ChunksPerBlock - 1)
  BY Sizing DEF BlockStates, DataChunks
<1>2. \A n \in Nat : n % ChunksPerBlock \in 0..(ChunksPerBlock - 1)
  BY <1>1
<1>3. Start(c.cursor) \in Nat
  BY <1>1 DEF Start
<1>4. CursorAfter(c.bits, c.cursor, size) \in 0..(ChunksPerBlock - 1)
  BY <1>1, <1>2, <1>3 DEF CursorAfter
<1>. QED  BY <1>4 DEF BlockStates

\* A block that is full stays full when more is marked in it.
LEMMA FullStaysFull ==
    ASSUME NEW less, NEW more, less \subseteq more, IsBlockFull(less)
    PROVE  IsBlockFull(more)
BY DEF IsBlockFull

LEMMA EmptyBlockOK == EmptyBlock \in BlockStates
BY Sizing, RecordStoreAssumption DEF EmptyBlock, BlockStates

LEMMA NoJobOK == NoJob \in Jobs
BY Sizing DEF NoJob, Jobs

-----------------------------------------------------------------------------
(***************************************************************************)
(* The invariant is inductive: one lemma per action.                       *)
(***************************************************************************)
LEMMA InitIInv == Init => IInv
<1>. SUFFICES ASSUME Init PROVE IInv
  OBVIOUS
<1>1. NumBlocks % BlocksPerByte = 0 /\ BlocksPerByte \in Nat \ {0} /\ NumBlocks \in Nat \ {0}
  BY RecordStoreAssumption
<1>2. bitmapLen \in 0..NumBlocks
  BY <1>1 DEF Init
<1>3. BlocksOK
  BY EmptyBlockOK DEF Init, BlocksOK
<1>4. BitmapOK
  BY <1>2, Sizing DEF Init, BitmapOK
<1>5. ThreadsOK
  <2>1. made \in 0..MaxRecords /\ \A t \in Threads : lock # t
    BY RecordStoreAssumption DEF Init
  <2>. QED  BY <2>1, EmptyBlockOK, NoJobOK DEF Init, ThreadsOK
<1>6. HoldersDisjoint /\ CopyCovers /\ UnracedIntact
  BY DEF Init, HoldersDisjoint, Holding, CopyCovers, UnracedIntact
<1>7. MarksOwned /\ FullBitsTold
  BY DEF Init, MarksOwned, EmptyBlock, FullBitsTold
<1>. QED  BY <1>3, <1>4, <1>5, <1>6, <1>7 DEF IInv, TypesOK

\* A step that leaves the blocks, the records and those who hold chunks alone.
LEMMA QuietStep ==
    ASSUME IInv, UNCHANGED <<block, live, raced, crashes>>,
           \A t \in Threads :
               /\ pc[t] \in {"mark", "fill"} => pc'[t] \in {"mark", "fill"} /\ job'[t] = job[t]
               /\ pc'[t] \in {"mark", "fill"} => pc[t] \in {"mark", "fill"}
    PROVE  HoldersDisjoint' /\ UnracedIntact' /\ MarksOwned'
<1>1. /\ block' = block /\ live' = live /\ raced' = raced /\ crashes' = crashes
      /\ \A t \in Threads :
            /\ pc[t] \in {"mark", "fill"} => pc'[t] \in {"mark", "fill"} /\ job'[t] = job[t]
            /\ pc'[t] \in {"mark", "fill"} => pc[t] \in {"mark", "fill"}
  OBVIOUS
<1>2. HoldersDisjoint'
  <2>1. HoldersDisjoint
    BY DEF IInv
  <2>. QED  BY <1>1, <2>1 DEF HoldersDisjoint, Chunks, Holding
<1>3. UnracedIntact'
  BY DEF IInv, UnracedIntact, Chunks
<1>4. ASSUME NEW b, NEW c, Owned(b, c) PROVE Owned(b, c)'
  <2>1. CASE \E r \in live : r.block = b /\ c \in Chunks(r)
    BY <2>1 DEF Owned, Chunks
  <2>2. CASE \E t \in Threads : Holding(t) /\ job[t].block = b /\ c \in Chunks(job[t])
    BY <1>1, <2>2 DEF Owned, Chunks, Holding
  <2>. QED  BY <1>4, <2>1, <2>2 DEF Owned
<1>5. MarksOwned'
  BY <1>4 DEF IInv, MarksOwned
<1>. QED  BY <1>2, <1>3, <1>5

LEMMA BeginStep ==
    ASSUME IInv, NEW t \in Threads, NEW size \in Sizes, Begin(t, size)
    PROVE  IInv'
<1>. USE DEF IInv
<1>1. /\ pc[t] = "idle" /\ lock = Nobody /\ lock' = t /\ made' = made + 1 /\ made < MaxRecords
      /\ job' = [job EXCEPT ![t] = [NoJob EXCEPT !.id = made', !.size = size]]
      /\ pc' = [pc EXCEPT ![t] = "pick"] /\ tried' = [tried EXCEPT ![t] = 0]
      /\ UNCHANGED <<block, diskVars, bitmapVars, copy, crashes, live, raced>>
  BY DEF Begin, Goto, histVars
<1>2. \A u \in Threads : u # Nobody /\ pc[u] \notin {"pick", "alloc", "mark"}
  BY <1>1, RecordStoreAssumption DEF TypesOK, ThreadsOK
<1>3. /\ pc' \in [Threads -> {"idle", "pick", "alloc", "mark", "fill", "unmark"}]
      /\ pc'[t] = "pick" /\ \A u \in Threads \ {t} : pc'[u] = pc[u] /\ job'[u] = job[u]
  BY <1>1 DEF TypesOK, ThreadsOK
<1>4. made' \in Ids /\ made' \in 0..MaxRecords
  BY <1>1, RecordStoreAssumption DEF TypesOK, ThreadsOK, Ids
<1>5. job'[t] \in Jobs /\ job'[t].id \in Ids /\ job'[t].size \in Sizes /\ job' \in [Threads -> Jobs]
  BY <1>1, <1>4, NoJobOK DEF TypesOK, ThreadsOK, Jobs, NoJob
<1>6. TypesOK'
  <2>1. BlocksOK' /\ BitmapOK'
    BY <1>1 DEF TypesOK, BlocksOK, BitmapOK, diskVars, bitmapVars
  <2>2. ThreadsOK'
    BY <1>1, <1>2, <1>3, <1>4, <1>5 DEF TypesOK, ThreadsOK, Allocated, Chunks
  <2>. QED  BY <2>1, <2>2 DEF TypesOK
<1>7. HoldersDisjoint' /\ UnracedIntact' /\ MarksOwned'
  BY <1>1, <1>3, QuietStep DEF Holding
<1>8. CopyCovers'
  BY <1>1, <1>3 DEF CopyCovers
<1>9. FullBitsTold'
  <2>1. \A b : FullOrTold(b) => FullOrTold(b)'
    BY <1>1, <1>3 DEF FullOrTold
  <2>. QED  BY <1>1, <1>3, <2>1 DEF FullBitsTold, bitmapVars
<1>. QED  BY <1>6, <1>7, <1>8, <1>9

\* A step that moves neither a thread nor its work, and no block.
LEMMA StillStep ==
    ASSUME IInv, BitmapOK', BlocksOK',
           UNCHANGED <<block, fullBits, lock, pc, job, copy, made, crashes, live, raced>>,
           tried' \in [Threads -> Nat]
    PROVE  IInv'
<1>. USE DEF IInv
<1>1. TypesOK'
  BY DEF TypesOK, ThreadsOK, Allocated, Chunks
<1>2. HoldersDisjoint' /\ UnracedIntact' /\ MarksOwned'
  BY QuietStep DEF Holding
<1>3. CopyCovers'
  BY DEF CopyCovers
<1>4. FullBitsTold'
  BY DEF FullBitsTold, FullOrTold
<1>. QED  BY <1>1, <1>2, <1>3, <1>4

LEMMA GrowStep ==
    ASSUME IInv, NEW t \in Threads, Grow(t)
    PROVE  IInv'
<1>. USE DEF IInv
<1>1. /\ fileLen' = fileLen + PreAlloc /\ fileLen + PreAlloc <= NumBlocks
      /\ freeList' = [i \in 1..PreAlloc |-> fileLen + i - 1] /\ scanPos' = fileLen'
      /\ UNCHANGED <<block, disk, fullBits, lock, pc, job, copy, tried, made, crashes, live, raced>>
  BY DEF Grow, threadVars, histVars
<1>2. fileLen \in Nat /\ NumBlocks \in Nat /\ PreAlloc \in Nat /\ fileLen' \in 0..NumBlocks
  BY <1>1, Sizing DEF TypesOK, BitmapOK
<1>3. bitmapLen' \in 0..NumBlocks
  <2>. DEFINE bytes == (fileLen' + BlocksPerByte - 1) \div BlocksPerByte
  <2>1. bytes \in Nat /\ bytes * BlocksPerByte <= NumBlocks
    BY <1>2, WholeBytes
  <2>2. bitmapLen' = IF bytes * BlocksPerByte > bitmapLen THEN bytes * BlocksPerByte ELSE bitmapLen
    BY DEF Grow
  <2>3. BlocksPerByte \in Nat
    BY RecordStoreAssumption
  <2>. HIDE DEF bytes
  <2>4. bytes * BlocksPerByte \in Nat
    BY <2>1, <2>3
  <2>. QED  BY <1>2, <2>1, <2>2, <2>4 DEF TypesOK, BitmapOK
<1>4. freeList' \in Seq(Blocks) /\ Len(freeList') <= PreAlloc
  <2>1. \A i \in 1..PreAlloc : fileLen + i - 1 \in Blocks
    BY <1>1, <1>2 DEF Blocks
  <2>2. freeList' \in [1..PreAlloc -> Blocks]
    BY <1>1, <2>1
  <2>. QED  BY <1>2, <2>2
<1>5. BitmapOK' /\ BlocksOK'
  BY <1>1, <1>2, <1>3, <1>4 DEF TypesOK, BitmapOK, BlocksOK
<1>6. tried' \in [Threads -> Nat]
  BY <1>1 DEF TypesOK, ThreadsOK
<1>. QED  BY <1>1, <1>5, <1>6, StillStep

LEMMA EvictStep ==
    ASSUME IInv, NEW b \in Blocks, Evict(b)
    PROVE  IInv'
<1>. USE DEF IInv
<1>1. /\ disk' = [disk EXCEPT ![b] = block[b]] /\ fileLen' = IF b < fileLen THEN fileLen ELSE b + 1
      /\ UNCHANGED <<block, fullBits, bitmapLen, freeList, scanPos, lock, pc, job, copy, tried, made,
                     crashes, live, raced>>
  BY DEF Evict, bitmapVars, threadVars, histVars
<1>2. BlocksOK'
  BY <1>1 DEF TypesOK, BlocksOK
<1>3. BitmapOK'
  BY <1>1, Sizing DEF TypesOK, BitmapOK
<1>4. tried' \in [Threads -> Nat]
  BY <1>1 DEF TypesOK, ThreadsOK
<1>. QED  BY <1>1, <1>2, <1>3, <1>4, StillStep

\* What is known of a thread that holds the bitmap lock: no other does.
LEMMA OneAllocates ==
    ASSUME IInv, NEW t \in Threads, pc[t] \in {"pick", "alloc", "mark"}
    PROVE  /\ lock = t
           /\ \A u \in Threads \ {t} : pc[u] \notin {"pick", "alloc", "mark"}
BY DEF IInv, TypesOK, ThreadsOK

\* A step of thread t: what stays to be shown about the threads' state.
LEMMA ThreadMoves ==
    ASSUME ThreadsOK, NEW t \in Threads,
           pc' \in [Threads -> {"idle", "pick", "alloc", "mark", "fill", "unmark"}],
           job' \in [Threads -> Jobs], copy' \in [Threads -> BlockStates],
           tried' \in [Threads -> Nat], made' \in 0..MaxRecords, crashes' = crashes,
           \A u \in Threads \ {t} : pc'[u] = pc[u] /\ job'[u] = job[u],
           live' \subseteq {r \in Jobs : Allocated(r)},
           pc'[t] \in {"pick", "alloc"} => job'[t].id \in Ids /\ job'[t].size \in Sizes,
           pc'[t] \in {"mark", "fill", "unmark"} => Allocated(job'[t]),
           \A u \in Threads : (lock' = u) = (pc'[u] \in {"pick", "alloc", "mark"})
    PROVE  ThreadsOK'
<1>1. ASSUME NEW u \in Threads
      PROVE  /\ pc'[u] \in {"pick", "alloc"} => job'[u].id \in Ids /\ job'[u].size \in Sizes
             /\ pc'[u] \in {"mark", "fill", "unmark"} => Allocated(job'[u])
  BY DEF ThreadsOK
<1>. QED  BY <1>1 DEF ThreadsOK, Allocated, Chunks

LEMMA PickStep ==
    ASSUME IInv, NEW t \in Threads, Pick(t)
    PROVE  IInv'
<1>. USE DEF IInv
<1>. DEFINE b == Head(freeList)
<1>1. /\ pc[t] = "pick" /\ freeList # <<>> /\ freeList' = Consume(freeList, b)
      /\ copy' = [copy EXCEPT ![t] = block[b]] /\ job' = [job EXCEPT ![t].block = b]
      /\ pc' = [pc EXCEPT ![t] = "alloc"]
      /\ UNCHANGED <<block, disk, fileLen, fullBits, bitmapLen, scanPos, lock, tried, made, crashes,
                     live, raced>>
  BY DEF Pick, Goto, diskVars, histVars
<1>2. b \in Blocks /\ freeList' \in Seq(Blocks) /\ Len(freeList') <= PreAlloc
  <2>1. freeList \in Seq(Blocks) /\ Len(freeList) <= PreAlloc /\ PreAlloc \in Nat
    BY Sizing DEF TypesOK, BitmapOK
  <2>2. b \in Blocks
    BY <1>1, <2>1
  <2>3. Consume(freeList, b) \in Seq(Blocks) /\ Len(Consume(freeList, b)) <= Len(freeList)
    BY <2>1, ConsumeBlocks
  <2>. QED  BY <1>1, <2>1, <2>2, <2>3
<1>. HIDE DEF b
<1>3. lock = t /\ \A u \in Threads \ {t} : pc[u] \notin {"pick", "alloc", "mark"}
  BY <1>1, OneAllocates
<1>4. /\ pc'[t] = "alloc" /\ job'[t] = [job[t] EXCEPT !.block = b] /\ copy'[t] = block[b]
      /\ \A u \in Threads \ {t} : pc'[u] = pc[u] /\ job'[u] = job[u] /\ copy'[u] = copy[u]
  BY <1>1 DEF TypesOK, ThreadsOK
<1>5. /\ job'[t] \in Jobs /\ job'[t].block = b /\ job'[t].id \in Ids /\ job'[t].size \in Sizes
      /\ copy'[t] \in BlockStates
  <2>1. block[b] \in BlockStates /\ job[t] \in Jobs /\ job[t].id \in Ids /\ job[t].size \in Sizes
    BY <1>1, <1>2 DEF TypesOK, ThreadsOK, BlocksOK
  <2>. QED  BY <1>2, <1>4, <2>1 DEF Jobs
<1>6. TypesOK'
  <2>1. BlocksOK'
    BY <1>1 DEF TypesOK, BlocksOK
  <2>2. BitmapOK'
    BY <1>1, <1>2 DEF TypesOK, BitmapOK
  <2>3. ThreadsOK'
    <3>1. \A u \in Threads : (lock' = u) = (pc'[u] \in {"pick", "alloc", "mark"})
      BY <1>1, <1>3, <1>4
    <3>2. /\ pc' \in [Threads -> {"idle", "pick", "alloc", "mark", "fill", "unmark"}]
          /\ job' \in [Threads -> Jobs] /\ copy' \in [Threads -> BlockStates] /\ tried' \in [Threads -> Nat]
      BY <1>1, <1>4, <1>5 DEF TypesOK, ThreadsOK
    <3>3. live' \subseteq {r \in Jobs : Allocated(r)} /\ made' \in 0..MaxRecords
      BY <1>1 DEF TypesOK, ThreadsOK
    <3>. QED  BY <1>1, <1>4, <1>5, <3>1, <3>2, <3>3, ThreadMoves DEF TypesOK
  <2>. QED  BY <2>1, <2>2, <2>3 DEF TypesOK
<1>7. HoldersDisjoint' /\ UnracedIntact' /\ MarksOwned'
  BY <1>1, <1>4, QuietStep
<1>8. CopyCovers'
  BY <1>1, <1>3, <1>4, <1>5 DEF CopyCovers
<1>9. FullBitsTold'
  <2>1. ASSUME NEW a, FullOrTold(a) PROVE FullOrTold(a)'
    BY <1>1, <1>4, <2>1 DEF FullOrTold
  <2>. QED  BY <1>1, <1>4, <2>1 DEF FullBitsTold
<1>. QED  BY <1>6, <1>7, <1>8, <1>9

LEMMA SkipStep ==
    ASSUME IInv, NEW t \in Threads, Skip(t)
    PROVE  IInv'
<1>. USE DEF IInv
<1>1. /\ pc[t] = "alloc" /\ pc' = [pc EXCEPT ![t] = "pick"]
      /\ UNCHANGED <<block, disk, fileLen, lock, job, copy, made, crashes, live, raced>>
  BY DEF Skip, Goto, diskVars, histVars
<1>2. lock = t /\ \A u \in Threads \ {t} : pc[u] \notin {"pick", "alloc", "mark"}
  BY <1>1, OneAllocates
<1>3. pc'[t] = "pick" /\ \A u \in Threads \ {t} : pc'[u] = pc[u]
  BY <1>1 DEF TypesOK, ThreadsOK
<1>4. job[t] \in Jobs /\ job[t].id \in Ids /\ job[t].size \in Sizes /\ job[t].block \in Blocks
  BY <1>1 DEF TypesOK, ThreadsOK, Jobs
<1>5. BitmapOK' /\ fullBits' = fullBits
  <2>1. CASE UNCHANGED bitmapVars
    BY <1>1, <2>1 DEF TypesOK, BitmapOK, bitmapVars
  <2>2. CASE MarkPartial(job[t].block)
    BY <1>1, <1>4, <2>2, MarkPartialOK DEF TypesOK
  <2>. QED  BY <2>1, <2>2 DEF Skip
<1>6. tried' \in [Threads -> Nat]
  <2>1. tried \in [Threads -> Nat] /\ tried[t] + 1 \in Nat /\ 0 \in Nat
    BY DEF TypesOK, ThreadsOK
  <2>2. tried' = [tried EXCEPT ![t] = 0] \/ tried' = [tried EXCEPT ![t] = tried[t] + 1]
    BY DEF Skip
  <2>. QED  BY <2>1, <2>2
<1>7. ThreadsOK'
  <2>1. \A u \in Threads : (lock' = u) = (pc'[u] \in {"pick", "alloc", "mark"})
    BY <1>1, <1>2, <1>3
  <2>2. /\ pc' \in [Threads -> {"idle", "pick", "alloc", "mark", "fill", "unmark"}]
        /\ job' \in [Threads -> Jobs] /\ copy' \in [Threads -> BlockStates] /\ made' \in 0..MaxRecords
    BY <1>1 DEF TypesOK, ThreadsOK
  <2>3. live' \subseteq {r \in Jobs : Allocated(r)}
    BY <1>1 DEF TypesOK, ThreadsOK
  <2>. QED  BY <1>1, <1>3, <1>4, <1>6, <2>1, <2>2, <2>3, ThreadMoves DEF TypesOK
<1>8. TypesOK'
  BY <1>1, <1>5, <1>7 DEF TypesOK, BlocksOK
<1>9. HoldersDisjoint' /\ UnracedIntact' /\ MarksOwned'
  BY <1>1, <1>3, QuietStep
<1>10. CopyCovers'
  BY <1>1, <1>2, <1>3 DEF CopyCovers
<1>11. FullBitsTold'
  <2>1. ASSUME NEW a, FullOrTold(a) PROVE FullOrTold(a)'
    BY <1>1, <1>3, <2>1 DEF FullOrTold
  <2>. QED  BY <1>1, <1>3, <1>5, <2>1 DEF FullBitsTold
<1>. QED  BY <1>8, <1>9, <1>10, <1>11

LEMMA MarkStep ==
    ASSUME IInv, NEW t \in Threads, Mark(t)
    PROVE  IInv'
<1>. USE DEF IInv
<1>1. /\ pc[t] = "mark" /\ pc' = [pc EXCEPT ![t] = "fill"] /\ lock' = Nobody
      /\ copy' = [copy EXCEPT ![t] = EmptyBlock]
      /\ UNCHANGED <<block, disk, fileLen, job, tried, made, crashes, live, raced>>
  BY DEF Mark, Goto, diskVars, histVars
<1>2. lock = t /\ \A u \in Threads \ {t} : pc[u] \notin {"pick", "alloc", "mark"}
  BY <1>1, OneAllocates
<1>3. pc'[t] = "fill" /\ \A u \in Threads \ {t} : pc'[u] = pc[u] /\ copy'[u] = copy[u]
  BY <1>1 DEF TypesOK, ThreadsOK
<1>4. job[t] \in Jobs /\ Allocated(job[t]) /\ job[t].block \in Blocks
  BY <1>1 DEF TypesOK, ThreadsOK, Jobs
<1>5. /\ BitmapOK'
      /\ \/ fullBits' = fullBits
         \/ fullBits' = fullBits \cup {job[t].block} /\ IsBlockFull(copy[t].bits)
  <2>1. CASE IsBlockFull(copy[t].bits) /\ MarkFull(job[t].block)
    BY <1>1, <1>4, <2>1, MarkFullOK DEF TypesOK
  <2>2. CASE MarkPartial(job[t].block)
    BY <1>1, <1>4, <2>2, MarkPartialOK DEF TypesOK
  <2>. QED  BY <2>1, <2>2 DEF Mark
<1>6. ThreadsOK'
  <2>1. \A u \in Threads : (lock' = u) = (pc'[u] \in {"pick", "alloc", "mark"})
    BY <1>1, <1>2, <1>3, RecordStoreAssumption
  <2>2. /\ pc' \in [Threads -> {"idle", "pick", "alloc", "mark", "fill", "unmark"}]
        /\ job' \in [Threads -> Jobs] /\ copy' \in [Threads -> BlockStates] /\ tried' \in [Threads -> Nat]
    BY <1>1, EmptyBlockOK DEF TypesOK, ThreadsOK
  <2>3. live' \subseteq {r \in Jobs : Allocated(r)} /\ made' \in 0..MaxRecords
    BY <1>1 DEF TypesOK, ThreadsOK
  <2>. QED  BY <1>1, <1>3, <1>4, <2>1, <2>2, <2>3, ThreadMoves DEF TypesOK
<1>7. TypesOK'
  BY <1>1, <1>5, <1>6 DEF TypesOK, BlocksOK
<1>8. HoldersDisjoint' /\ UnracedIntact' /\ MarksOwned'
  BY <1>1, <1>3, QuietStep
<1>9. CopyCovers'
  BY <1>1, <1>2, <1>3 DEF CopyCovers
<1>10. FullBitsTold'
  <2>1. ASSUME NEW a, FullOrTold(a) PROVE FullOrTold(a)'
    BY <1>1, <1>3, <2>1 DEF FullOrTold
  <2>2. crashes = 0 /\ IsBlockFull(copy[t].bits) => FullOrTold(job[t].block)
    BY <1>1 DEF FullBitsTold
  <2>3. \A u \in Threads : pc'[u] # "mark"
    BY <1>2, <1>3
  <2>. QED  BY <1>1, <1>5, <2>1, <2>2, <2>3 DEF FullBitsTold
<1>. QED  BY <1>7, <1>8, <1>9, <1>10

\* The run is free in the copy, and the copy has all marks of the block: no
\* record of the block is hit, and none loses a mark.
LEMMA WriteBackStep ==
    ASSUME IInv, NEW t \in Threads, WriteBack(t)
    PROVE  IInv'
<1>. USE DEF IInv
<1>. DEFINE b == job[t].block
            c == copy[t]
            size == job[t].size
            New(at) == [bits |-> c.bits \cup Run(at, size),
                        cursor |-> CursorAfter(c.bits, c.cursor, size), data |-> c.data]
<1>1. PICK at \in DataChunks :
        /\ AllocatedAt(c.bits, c.cursor, size, at)
        /\ block' = [block EXCEPT ![b] = New(at)]
        /\ copy' = [copy EXCEPT ![t] = New(at)]
        /\ job' = [job EXCEPT ![t].at = at]
  BY DEF WriteBack
<1>2. /\ pc[t] = "alloc" /\ pc' = [pc EXCEPT ![t] = "mark"]
      /\ UNCHANGED <<disk, fileLen, fullBits, bitmapLen, freeList, scanPos, lock, tried, made, crashes,
                     live, raced>>
  BY DEF WriteBack, Goto, diskVars, bitmapVars, histVars
<1>3. lock = t /\ \A u \in Threads \ {t} : pc[u] \notin {"pick", "alloc", "mark"}
  BY <1>2, OneAllocates
<1>4. job[t] \in Jobs /\ job[t].id \in Ids /\ size \in Sizes /\ b \in Blocks /\ c \in BlockStates
  BY <1>2 DEF TypesOK, ThreadsOK, Jobs
<1>5. Run(at, size) \subseteq DataChunks /\ Run(at, size) \cap c.bits = {}
  <2>1. c.bits \in SUBSET DataChunks /\ c.cursor \in 0..(ChunksPerBlock - 1)
    BY <1>4 DEF BlockStates
  <2>2. size \in Nat /\ size >= 2 /\ size < ChunksPerBlock
    BY <1>4, Sizing
  <2>. QED  BY <1>1, <2>1, <2>2, AllocationSound
<1>6. /\ New(at) \in BlockStates /\ New(at).bits = c.bits \cup Run(at, size)
      /\ New(at).data = c.data
  BY <1>4, <1>5, MarkedBlock
<1>7. /\ pc'[t] = "mark" /\ job'[t] = [job[t] EXCEPT !.at = at] /\ copy'[t] = New(at)
      /\ \A u \in Threads \ {t} : pc'[u] = pc[u] /\ job'[u] = job[u]
  BY <1>1, <1>2 DEF TypesOK, ThreadsOK
<1>8. /\ job'[t] \in Jobs /\ job'[t].block = b /\ Chunks(job'[t]) = Run(at, size)
      /\ Allocated(job'[t])
  BY <1>4, <1>5, <1>7 DEF Jobs, Chunks, Allocated
<1>9. block'[b] = New(at) /\ \A a \in Blocks \ {b} : block'[a] = block[a]
  BY <1>1, <1>4 DEF TypesOK, BlocksOK
<1>10. block[b].bits \subseteq c.bits /\ (b \notin raced => block[b].bits = c.bits /\ block[b].data = c.data)
  BY <1>2 DEF CopyCovers
<1>. HIDE DEF New
<1>11. \A a \in Blocks : block[a].bits \subseteq block'[a].bits
  BY <1>6, <1>9, <1>10
<1>12. TypesOK'
  <2>1. BlocksOK'
    BY <1>1, <1>2, <1>4, <1>6 DEF TypesOK, BlocksOK
  <2>2. BitmapOK'
    BY <1>2 DEF TypesOK, BitmapOK
  <2>3. \A u \in Threads : (lock' = u) = (pc'[u] \in {"pick", "alloc", "mark"})
    BY <1>2, <1>3, <1>7
  <2>4. /\ pc' \in [Threads -> {"idle", "pick", "alloc", "mark", "fill", "unmark"}]
        /\ copy' \in [Threads -> BlockStates] /\ tried' \in [Threads -> Nat]
    BY <1>1, <1>2, <1>6 DEF TypesOK, ThreadsOK
  <2>5. job' \in [Threads -> Jobs]
    BY <1>1, <1>7, <1>8 DEF TypesOK, ThreadsOK
  <2>6. live' \subseteq {r \in Jobs : Allocated(r)} /\ made' \in 0..MaxRecords
    BY <1>2 DEF TypesOK, ThreadsOK
  <2>7. ThreadsOK'
    BY <1>2, <1>7, <1>8, <2>3, <2>4, <2>5, <2>6, ThreadMoves DEF TypesOK
  <2>. QED  BY <2>1, <2>2, <2>7 DEF TypesOK
<1>13. \A r \in live : r.block \in Blocks /\ Chunks(r) \subseteq block[r.block].bits
  BY DEF TypesOK, ThreadsOK, HoldersDisjoint, Jobs
<1>14. \A u \in Threads \ {t} : Holding(u) => /\ pc[u] = "fill" /\ job[u].block \in Blocks
                                              /\ Chunks(job[u]) \subseteq block[job[u].block].bits
  BY <1>3 DEF TypesOK, ThreadsOK, HoldersDisjoint, Holding, Jobs
<1>15. HoldersDisjoint'
  <2>1. \A r \in live : r.block = b => Run(at, size) \cap Chunks(r) = {}
    BY <1>5, <1>10, <1>13
  <2>2. \A u \in Threads \ {t} : Holding(u) /\ job[u].block = b => Run(at, size) \cap Chunks(job[u]) = {}
    BY <1>5, <1>10, <1>14
  <2>3. ASSUME NEW u \in Threads \ {t}, Holding(u)'
        PROVE  /\ Holding(u) /\ job'[u] = job[u] /\ Chunks(job'[u]) = Chunks(job[u])
               /\ Chunks(job'[u]) \subseteq block'[job'[u].block].bits
    <3>1. Holding(u) /\ job'[u] = job[u]
      BY <1>7, <2>3 DEF Holding
    <3>. QED  BY <1>11, <1>14, <3>1
  <2>4. \A r, s \in live' : r # s /\ r.block = s.block => Chunks(r)' \cap Chunks(s)' = {}
    BY <1>2 DEF HoldersDisjoint, Chunks
  <2>5. ASSUME NEW u \in Threads, NEW r \in live', Holding(u)', job'[u].block = r.block
        PROVE  Chunks(job'[u]) \cap Chunks(r) = {}
    <3>1. CASE u = t
      BY <1>2, <1>8, <2>1, <2>5, <3>1
    <3>2. CASE u # t
      BY <1>2, <2>3, <2>5, <3>2 DEF HoldersDisjoint
    <3>. QED  BY <3>1, <3>2
  <2>6. ASSUME NEW u \in Threads, NEW w \in Threads, u # w, Holding(u)', Holding(w)',
               job'[u].block = job'[w].block
        PROVE  Chunks(job'[u]) \cap Chunks(job'[w]) = {}
    <3>1. CASE u = t
      BY <1>8, <2>2, <2>3, <2>6, <3>1
    <3>2. CASE w = t
      BY <1>8, <2>2, <2>3, <2>6, <3>2
    <3>3. CASE u # t /\ w # t
      BY <2>3, <2>6, <3>3 DEF HoldersDisjoint
    <3>. QED  BY <3>1, <3>2, <3>3
  <2>7. \A r \in live' : Chunks(r) \subseteq block'[r.block].bits
    BY <1>2, <1>11, <1>13
  <2>8. ASSUME NEW u \in Threads, Holding(u)'
        PROVE  Chunks(job'[u]) \subseteq block'[job'[u].block].bits
    <3>1. CASE u = t
      BY <1>6, <1>8, <1>9, <3>1
    <3>. QED  BY <2>3, <2>8, <3>1
  <2>. QED  BY <2>4, <2>5, <2>6, <2>7, <2>8 DEF HoldersDisjoint, Chunks
<1>16. CopyCovers'
  BY <1>3, <1>7 DEF CopyCovers
<1>17. UnracedIntact'
  <2>1. ASSUME NEW r \in live, r.block \notin raced PROVE block'[r.block].data = block[r.block].data
    BY <1>6, <1>9, <1>10, <1>13, <2>1
  <2>. QED  BY <1>2, <2>1 DEF UnracedIntact, Chunks
<1>18. MarksOwned'
  <2>1. SUFFICES ASSUME crashes = 0, NEW a \in Blocks \ raced, NEW k \in block'[a].bits
                 PROVE  Owned(a, k)'
    BY <1>2 DEF MarksOwned
  <2>2. ASSUME Owned(a, k) PROVE Owned(a, k)'
    <3>1. CASE \E r \in live : r.block = a /\ k \in Chunks(r)
      BY <1>2, <3>1 DEF Owned, Chunks
    <3>2. CASE \E u \in Threads : Holding(u) /\ job[u].block = a /\ k \in Chunks(job[u])
      <4>1. PICK u \in Threads : Holding(u) /\ job[u].block = a /\ k \in Chunks(job[u])
        BY <3>2
      <4>2. u # t
        BY <1>2, <4>1 DEF Holding
      <4>3. pc'[u] \in {"mark", "fill"} /\ job'[u] = job[u]
        BY <1>7, <4>1, <4>2 DEF Holding
      <4>. QED  BY <4>1, <4>3 DEF Owned, Chunks, Holding
    <3>. QED  BY <2>2, <3>1, <3>2 DEF Owned
  <2>3. CASE k \in block[a].bits
    BY <2>1, <2>2, <2>3 DEF MarksOwned
  <2>4. CASE k \notin block[a].bits
    <3>1. a = b /\ k \in Run(at, size)
      BY <1>6, <1>9, <1>10, <2>1, <2>4
    <3>2. pc'[t] \in {"mark", "fill"} /\ job'[t].block = a /\ k \in Chunks(job'[t])
      BY <1>7, <1>8, <3>1
    <3>. QED  BY <3>2 DEF Owned, Chunks, Holding
  <2>. QED  BY <2>3, <2>4
<1>19. FullBitsTold'
  <2>1. ASSUME NEW a \in Blocks, FullOrTold(a) PROVE FullOrTold(a)'
    <3>1. CASE IsBlockFull(block[a].bits)
      BY <1>11, <3>1, FullStaysFull DEF FullOrTold
    <3>2. CASE \E u \in Threads : pc[u] = "unmark" /\ job[u].block = a
      BY <1>2, <1>7, <3>2 DEF FullOrTold
    <3>. QED  BY <2>1, <3>1, <3>2 DEF FullOrTold
  <2>2. fullBits \subseteq Blocks
    BY DEF TypesOK, BitmapOK
  <2>3. IsBlockFull(copy'[t].bits) => FullOrTold(job[t].block)'
    BY <1>7, <1>8, <1>9 DEF FullOrTold
  <2>4. \A u \in Threads : pc'[u] = "mark" => u = t
    BY <1>3, <1>7
  <2>. QED  BY <1>2, <2>1, <2>2, <2>3, <2>4 DEF FullBitsTold
<1>. QED  BY <1>12, <1>15, <1>16, <1>17, <1>18, <1>19

\* What a thread holds becomes a record; its chunks were nobody else's.
LEMMA FillStep ==
    ASSUME IInv, NEW t \in Threads, Fill(t)
    PROVE  IInv'
<1>. USE DEF IInv
<1>. DEFINE j == job[t]
            b == j.block
            filled == [k \in DataChunks |-> IF k \in Chunks(j) THEN j.id ELSE block[b].data[k]]
<1>1. /\ pc[t] = "fill" /\ block' = [block EXCEPT ![b].data = filled]
      /\ live' = live \cup {j} /\ raced' = IF Copied(t, b) THEN raced \cup {b} ELSE raced
      /\ job' = [job EXCEPT ![t] = NoJob] /\ pc' = [pc EXCEPT ![t] = "idle"]
      /\ UNCHANGED <<disk, fileLen, fullBits, bitmapLen, freeList, scanPos, lock, copy, tried, made, crashes>>
  BY DEF Fill, Goto, diskVars, bitmapVars, TypesOK, BlocksOK
<1>2. j \in Jobs /\ Allocated(j) /\ b \in Blocks /\ Holding(t)
  BY <1>1 DEF TypesOK, ThreadsOK, Jobs, Holding
<1>3. filled \in [DataChunks -> Ids \cup {Zero}] /\ \A k \in Chunks(j) : filled[k] = j.id
  BY <1>2 DEF TypesOK, BlocksOK, BlockStates, Allocated
<1>4. \A k \in DataChunks \ Chunks(j) : filled[k] = block[b].data[k]
  OBVIOUS
<1>. HIDE DEF filled
<1>5. /\ block' \in [Blocks -> BlockStates] /\ block'[b].data = filled
      /\ \A a \in Blocks : block'[a].bits = block[a].bits
      /\ \A a \in Blocks \ {b} : block'[a] = block[a]
  <2>1. block \in [Blocks -> BlockStates] /\ block[b] \in BlockStates
    BY <1>2 DEF TypesOK, BlocksOK
  <2>2. [block[b] EXCEPT !.data = filled] \in BlockStates
    BY <1>3, <2>1 DEF BlockStates
  <2>3. block' = [block EXCEPT ![b] = [block[b] EXCEPT !.data = filled]]
    BY <1>1
  <2>4. block' \in [Blocks -> BlockStates] /\ \A a \in Blocks \ {b} : block'[a] = block[a]
    BY <2>1, <2>2, <2>3
  <2>5. block'[b].data = filled /\ block'[b].bits = block[b].bits
    BY <1>2, <2>1, <2>3 DEF BlockStates
  <2>. QED  BY <2>4, <2>5
<1>6. /\ pc'[t] = "idle" /\ job'[t] = NoJob
      /\ \A u \in Threads \ {t} : pc'[u] = pc[u] /\ job'[u] = job[u]
  BY <1>1 DEF TypesOK, ThreadsOK
<1>7. \A r \in live : r \in Jobs /\ Allocated(r) /\ r.block \in Blocks
  BY DEF TypesOK, ThreadsOK, Jobs
<1>8. TypesOK'
  <2>1. BlocksOK'
    BY <1>1, <1>5 DEF TypesOK, BlocksOK
  <2>2. BitmapOK'
    BY <1>1 DEF TypesOK, BitmapOK
  <2>3. \A u \in Threads : (lock' = u) = (pc'[u] \in {"pick", "alloc", "mark"})
    BY <1>1, <1>6 DEF TypesOK, ThreadsOK
  <2>4. /\ pc' \in [Threads -> {"idle", "pick", "alloc", "mark", "fill", "unmark"}]
        /\ copy' \in [Threads -> BlockStates] /\ tried' \in [Threads -> Nat] /\ made' \in 0..MaxRecords
        /\ job' \in [Threads -> Jobs]
    BY <1>1, NoJobOK DEF TypesOK, ThreadsOK
  <2>5. live' \subseteq {r \in Jobs : Allocated(r)}
    BY <1>1, <1>2, <1>7
  <2>6. ThreadsOK'
    BY <1>1, <1>6, <2>3, <2>4, <2>5, ThreadMoves DEF TypesOK
  <2>. QED  BY <2>1, <2>2, <2>6 DEF TypesOK
<1>9. \A r \in live : r.block = b => Chunks(j) \cap Chunks(r) = {}
  BY <1>2 DEF HoldersDisjoint
<1>10. HoldersDisjoint'
  <2>1. ASSUME NEW u \in Threads, Holding(u)'
        PROVE  u # t /\ Holding(u) /\ job'[u] = job[u] /\ job[u].block \in Blocks
    <3>1. u # t
      BY <1>6, <2>1 DEF Holding
    <3>. QED  BY <1>6, <2>1, <3>1 DEF Holding, TypesOK, ThreadsOK, Jobs
  <2>2. ASSUME NEW r \in live', NEW s \in live', r # s, r.block = s.block
        PROVE  Chunks(r) \cap Chunks(s) = {}
    <3>1. CASE r = j
      BY <1>1, <1>9, <2>2, <3>1
    <3>2. CASE s = j
      BY <1>1, <1>9, <2>2, <3>2
    <3>3. CASE r \in live /\ s \in live
      BY <2>2, <3>3 DEF HoldersDisjoint
    <3>. QED  BY <1>1, <3>1, <3>2, <3>3
  <2>3. ASSUME NEW u \in Threads, NEW r \in live', Holding(u)', job'[u].block = r.block
        PROVE  Chunks(job'[u]) \cap Chunks(r) = {}
    <3>1. CASE r = j
      BY <1>2, <2>1, <2>3, <3>1 DEF HoldersDisjoint
    <3>2. CASE r \in live
      BY <2>1, <2>3, <3>2 DEF HoldersDisjoint
    <3>. QED  BY <1>1, <3>1, <3>2
  <2>4. ASSUME NEW u \in Threads, NEW w \in Threads, u # w, Holding(u)', Holding(w)',
               job'[u].block = job'[w].block
        PROVE  Chunks(job'[u]) \cap Chunks(job'[w]) = {}
    BY <2>1, <2>4 DEF HoldersDisjoint
  <2>5. ASSUME NEW r \in live' PROVE Chunks(r) \subseteq block'[r.block].bits
    <3>1. CASE r = j
      BY <1>2, <1>5, <3>1 DEF HoldersDisjoint
    <3>2. CASE r \in live
      BY <1>5, <1>7, <3>2 DEF HoldersDisjoint
    <3>. QED  BY <1>1, <3>1, <3>2
  <2>6. ASSUME NEW u \in Threads, Holding(u)'
        PROVE  Chunks(job'[u]) \subseteq block'[job'[u].block].bits
    BY <1>5, <2>1, <2>6 DEF HoldersDisjoint
  <2>. QED  BY <2>2, <2>3, <2>4, <2>5, <2>6 DEF HoldersDisjoint, Chunks
<1>11. CopyCovers'
  <2>1. SUFFICES ASSUME NEW u \in Threads, pc'[u] = "alloc"
                 PROVE  /\ block'[job'[u].block].bits \subseteq copy'[u].bits
                        /\ job'[u].block \notin raced' =>
                              /\ block'[job'[u].block].bits = copy'[u].bits
                              /\ block'[job'[u].block].data = copy'[u].data
    BY DEF CopyCovers
  <2>2. u # t /\ pc[u] = "alloc" /\ job'[u] = job[u] /\ job[u].block \in Blocks /\ copy'[u] = copy[u]
    BY <1>1, <1>6, <2>1 DEF TypesOK, ThreadsOK, Jobs
  <2>3. /\ block[job[u].block].bits \subseteq copy[u].bits
        /\ job[u].block \notin raced => /\ block[job[u].block].bits = copy[u].bits
                                      /\ block[job[u].block].data = copy[u].data
    BY <2>2 DEF CopyCovers
  <2>4. CASE job[u].block = b
    <3>1. Copied(t, b)
      BY <2>2, <2>4 DEF Copied
    <3>. QED  BY <1>1, <1>5, <2>2, <2>3, <2>4, <3>1
  <2>5. CASE job[u].block # b
    BY <1>1, <1>5, <2>2, <2>3, <2>5
  <2>. QED  BY <2>4, <2>5
<1>12. UnracedIntact'
  <2>1. SUFFICES ASSUME NEW r \in live', r.block \notin raced', NEW k \in Chunks(r)
                 PROVE  block'[r.block].data[k] = r.id
    BY DEF UnracedIntact, Chunks
  <2>2. CASE r = j
    BY <1>3, <1>5, <2>1, <2>2
  <2>3. CASE r \in live
    <3>1. r.block \notin raced /\ r.block \in Blocks /\ k \in DataChunks
      BY <1>1, <1>7, <2>1, <2>3 DEF Allocated
    <3>2. block[r.block].data[k] = r.id
      BY <2>1, <2>3, <3>1 DEF UnracedIntact
    <3>3. CASE r.block = b
      BY <1>4, <1>5, <1>9, <2>1, <2>3, <3>1, <3>2, <3>3
    <3>4. CASE r.block # b
      BY <1>5, <3>1, <3>2, <3>4
    <3>. QED  BY <3>3, <3>4
  <2>. QED  BY <1>1, <2>2, <2>3
<1>13. MarksOwned'
  <2>1. SUFFICES ASSUME crashes = 0, NEW a \in Blocks \ raced', NEW k \in block'[a].bits
                 PROVE  Owned(a, k)'
    BY <1>1 DEF MarksOwned
  <2>2. Owned(a, k)
    BY <1>1, <1>5, <2>1 DEF MarksOwned
  <2>3. CASE \E r \in live : r.block = a /\ k \in Chunks(r)
    BY <1>1, <2>3 DEF Owned, Chunks
  <2>4. CASE \E u \in Threads : Holding(u) /\ job[u].block = a /\ k \in Chunks(job[u])
    <3>1. PICK u \in Threads : Holding(u) /\ job[u].block = a /\ k \in Chunks(job[u])
      BY <2>4
    <3>2. CASE u = t
      <4>1. j \in live' /\ j.block = a /\ k \in Chunks(j)
        BY <1>1, <3>1, <3>2
      <4>. QED  BY <4>1 DEF Owned, Chunks
    <3>3. CASE u # t
      <4>1. pc'[u] \in {"mark", "fill"} /\ job'[u] = job[u]
        BY <1>6, <3>1, <3>3 DEF Holding
      <4>. QED  BY <3>1, <4>1 DEF Owned, Chunks, Holding
    <3>. QED  BY <3>2, <3>3
  <2>. QED  BY <2>2, <2>3, <2>4 DEF Owned
<1>14. FullBitsTold'
  <2>1. ASSUME NEW a \in Blocks, FullOrTold(a) PROVE FullOrTold(a)'
    <3>1. CASE IsBlockFull(block[a].bits)
      BY <1>5, <3>1 DEF FullOrTold
    <3>2. CASE \E u \in Threads : pc[u] = "unmark" /\ job[u].block = a
      BY <1>1, <1>6, <3>2 DEF FullOrTold
    <3>. QED  BY <2>1, <3>1, <3>2 DEF FullOrTold
  <2>2. fullBits \subseteq Blocks
    BY DEF TypesOK, BitmapOK
  <2>3. \A u \in Threads : pc'[u] = "mark" =>
          pc[u] = "mark" /\ job'[u] = job[u] /\ copy'[u] = copy[u] /\ job[u].block \in Blocks
    BY <1>1, <1>6 DEF TypesOK, ThreadsOK, Jobs
  <2>. QED  BY <1>1, <2>1, <2>2, <2>3 DEF FullBitsTold
<1>. QED  BY <1>8, <1>10, <1>11, <1>12, <1>13, <1>14

\* Freeing takes marks away that no other record has; a full block that is
\* full no more is one the thread is about to report.
LEMMA FreeStep ==
    ASSUME IInv, NEW t \in Threads, NEW r \in live, Free(t, r)
    PROVE  IInv'
<1>. USE DEF IInv
<1>. DEFINE b == r.block
            left == block[b].bits \ Chunks(r)
<1>1. /\ pc[t] = "idle" /\ block' = [block EXCEPT ![b].bits = left]
      /\ live' = live \ {r} /\ raced' = IF Copied(t, b) THEN raced \cup {b} ELSE raced
      /\ UNCHANGED <<disk, fileLen, fullBits, bitmapLen, freeList, scanPos, lock, copy, tried, made, crashes>>
  BY DEF Free, diskVars, bitmapVars, TypesOK, BlocksOK
<1>2. \A s \in live : s \in Jobs /\ Allocated(s) /\ s.block \in Blocks
  BY DEF TypesOK, ThreadsOK, Jobs
<1>3. /\ block' \in [Blocks -> BlockStates] /\ block'[b].bits = left
      /\ \A a \in Blocks : block'[a].data = block[a].data /\ block'[a].bits \subseteq block[a].bits
      /\ \A a \in Blocks \ {b} : block'[a] = block[a]
  <2>1. block \in [Blocks -> BlockStates] /\ block[b] \in BlockStates /\ b \in Blocks
    BY <1>2 DEF TypesOK, BlocksOK
  <2>2. [block[b] EXCEPT !.bits = left] \in BlockStates
    BY <2>1 DEF BlockStates
  <2>3. block' = [block EXCEPT ![b] = [block[b] EXCEPT !.bits = left]]
    BY <1>1
  <2>4. block' \in [Blocks -> BlockStates] /\ \A a \in Blocks \ {b} : block'[a] = block[a]
    BY <2>1, <2>2, <2>3
  <2>5. block'[b].bits = left /\ block'[b].data = block[b].data
    BY <2>1, <2>3 DEF BlockStates
  <2>. QED  BY <2>4, <2>5
<1>4. \/ /\ IsBlockFull(block[b].bits) /\ ~IsBlockFull(block'[b].bits)
         /\ pc' = [pc EXCEPT ![t] = "unmark"] /\ job' = [job EXCEPT ![t] = r]
      \/ /\ ~(IsBlockFull(block[b].bits) /\ ~IsBlockFull(block'[b].bits))
         /\ pc' = pc /\ job' = job
  BY DEF Free, Goto
<1>5. /\ pc'[t] \in {"idle", "unmark"} /\ (pc'[t] = "unmark" => job'[t] = r)
      /\ \A u \in Threads \ {t} : pc'[u] = pc[u] /\ job'[u] = job[u]
      /\ pc' \in [Threads -> {"idle", "pick", "alloc", "mark", "fill", "unmark"}]
      /\ job' \in [Threads -> Jobs]
  BY <1>1, <1>2, <1>4 DEF TypesOK, ThreadsOK
<1>6. TypesOK'
  <2>1. BlocksOK'
    BY <1>1, <1>3 DEF TypesOK, BlocksOK
  <2>2. BitmapOK'
    BY <1>1 DEF TypesOK, BitmapOK
  <2>3. \A u \in Threads : (lock' = u) = (pc'[u] \in {"pick", "alloc", "mark"})
    BY <1>1, <1>5 DEF TypesOK, ThreadsOK
  <2>4. /\ copy' \in [Threads -> BlockStates] /\ tried' \in [Threads -> Nat] /\ made' \in 0..MaxRecords
        /\ live' \subseteq {s \in Jobs : Allocated(s)}
    BY <1>1 DEF TypesOK, ThreadsOK
  <2>5. ThreadsOK'
    BY <1>1, <1>2, <1>5, <2>3, <2>4, ThreadMoves DEF TypesOK
  <2>. QED  BY <2>1, <2>2, <2>5 DEF TypesOK
<1>7. ASSUME NEW u \in Threads, Holding(u)'
      PROVE  /\ u # t /\ Holding(u) /\ job'[u] = job[u] /\ job[u].block \in Blocks
             /\ job[u].block = b => Chunks(job[u]) \cap Chunks(r) = {}
  <2>1. u # t
    BY <1>5, <1>7 DEF Holding
  <2>2. Holding(u) /\ job'[u] = job[u] /\ job[u].block \in Blocks
    BY <1>5, <1>7, <2>1 DEF Holding, TypesOK, ThreadsOK, Jobs
  <2>. QED  BY <2>1, <2>2 DEF HoldersDisjoint
<1>8. HoldersDisjoint'
  <2>1. ASSUME NEW s \in live' PROVE Chunks(s) \subseteq block'[s.block].bits
    <3>1. s \in live /\ s # r /\ s.block \in Blocks /\ Chunks(s) \subseteq block[s.block].bits
      BY <1>1, <1>2 DEF HoldersDisjoint
    <3>2. CASE s.block = b
      <4>1. Chunks(s) \cap Chunks(r) = {}
        BY <3>1, <3>2 DEF HoldersDisjoint
      <4>. QED  BY <1>3, <3>1, <3>2, <4>1
    <3>3. CASE s.block # b
      BY <1>3, <3>1, <3>3
    <3>. QED  BY <3>2, <3>3
  <2>2. ASSUME NEW u \in Threads, Holding(u)'
        PROVE  Chunks(job'[u]) \subseteq block'[job'[u].block].bits
    <3>1. Chunks(job[u]) \subseteq block[job[u].block].bits
      BY <1>7, <2>2 DEF HoldersDisjoint
    <3>2. CASE job[u].block = b
      BY <1>3, <1>7, <2>2, <3>1, <3>2
    <3>3. CASE job[u].block # b
      BY <1>3, <1>7, <2>2, <3>1, <3>3
    <3>. QED  BY <3>2, <3>3
  <2>3. \A s, q \in live' : s # q /\ s.block = q.block => Chunks(s) \cap Chunks(q) = {}
    BY <1>1 DEF HoldersDisjoint
  <2>4. ASSUME NEW u \in Threads, NEW s \in live', Holding(u)', job'[u].block = s.block
        PROVE  Chunks(job'[u]) \cap Chunks(s) = {}
    BY <1>1, <1>7, <2>4 DEF HoldersDisjoint
  <2>5. ASSUME NEW u \in Threads, NEW w \in Threads, u # w, Holding(u)', Holding(w)',
               job'[u].block = job'[w].block
        PROVE  Chunks(job'[u]) \cap Chunks(job'[w]) = {}
    BY <1>7, <2>5 DEF HoldersDisjoint
  <2>. QED  BY <2>1, <2>2, <2>3, <2>4, <2>5 DEF HoldersDisjoint, Chunks
<1>9. CopyCovers'
  <2>1. SUFFICES ASSUME NEW u \in Threads, pc'[u] = "alloc"
                 PROVE  /\ block'[job'[u].block].bits \subseteq copy'[u].bits
                        /\ job'[u].block \notin raced' =>
                              /\ block'[job'[u].block].bits = copy'[u].bits
                              /\ block'[job'[u].block].data = copy'[u].data
    BY DEF CopyCovers
  <2>2. u # t /\ pc[u] = "alloc" /\ job'[u] = job[u] /\ job[u].block \in Blocks /\ copy'[u] = copy[u]
    BY <1>1, <1>5, <2>1 DEF TypesOK, ThreadsOK, Jobs
  <2>3. /\ block[job[u].block].bits \subseteq copy[u].bits
        /\ job[u].block \notin raced => /\ block[job[u].block].bits = copy[u].bits
                                      /\ block[job[u].block].data = copy[u].data
    BY <2>2 DEF CopyCovers
  <2>4. CASE job[u].block = b
    <3>1. Copied(t, b)
      BY <2>2, <2>4 DEF Copied
    <3>. QED  BY <1>1, <1>3, <2>2, <2>3, <2>4, <3>1
  <2>5. CASE job[u].block # b
    BY <1>1, <1>3, <2>2, <2>3, <2>5
  <2>. QED  BY <2>4, <2>5
<1>10. UnracedIntact'
  <2>1. SUFFICES ASSUME NEW s \in live', s.block \notin raced', NEW k \in Chunks(s)
                 PROVE  block'[s.block].data[k] = s.id
    BY DEF UnracedIntact, Chunks
  <2>2. s \in live /\ s.block \notin raced /\ s.block \in Blocks
    BY <1>1, <1>2, <2>1
  <2>. QED  BY <1>3, <2>1, <2>2 DEF UnracedIntact
<1>11. MarksOwned'
  <2>1. SUFFICES ASSUME crashes = 0, NEW a \in Blocks \ raced', NEW k \in block'[a].bits
                 PROVE  Owned(a, k)'
    BY <1>1 DEF MarksOwned
  <2>2. Owned(a, k)
    BY <1>1, <1>3, <2>1 DEF MarksOwned
  <2>3. CASE \E s \in live : s.block = a /\ k \in Chunks(s)
    <3>1. PICK s \in live : s.block = a /\ k \in Chunks(s)
      BY <2>3
    <3>2. s # r
      BY <1>3, <2>1, <3>1
    <3>3. s \in live'
      BY <1>1, <3>2
    <3>. QED  BY <3>1, <3>3 DEF Owned, Chunks
  <2>4. CASE \E u \in Threads : Holding(u) /\ job[u].block = a /\ k \in Chunks(job[u])
    <3>1. PICK u \in Threads : Holding(u) /\ job[u].block = a /\ k \in Chunks(job[u])
      BY <2>4
    <3>2. u # t
      BY <1>1, <3>1 DEF Holding
    <3>3. pc'[u] \in {"mark", "fill"} /\ job'[u] = job[u]
      BY <1>5, <3>1, <3>2 DEF Holding
    <3>. QED  BY <3>1, <3>3 DEF Owned, Chunks, Holding
  <2>. QED  BY <2>2, <2>3, <2>4 DEF Owned
<1>12. FullBitsTold'
  <2>1. ASSUME NEW a \in Blocks, FullOrTold(a) PROVE FullOrTold(a)'
    <3>1. CASE IsBlockFull(block[a].bits)
      <4>1. CASE IsBlockFull(block'[a].bits)
        BY <4>1 DEF FullOrTold
      <4>2. CASE ~IsBlockFull(block'[a].bits)
        <5>1. a = b
          BY <1>3, <3>1, <4>2
        <5>2. pc'[t] = "unmark" /\ job'[t].block = a
          BY <1>4, <3>1, <4>2, <5>1 DEF TypesOK, ThreadsOK
        <5>. QED  BY <5>2 DEF FullOrTold
      <4>. QED  BY <4>1, <4>2
    <3>2. CASE \E u \in Threads : pc[u] = "unmark" /\ job[u].block = a
      BY <1>1, <1>5, <3>2 DEF FullOrTold
    <3>. QED  BY <2>1, <3>1, <3>2 DEF FullOrTold
  <2>2. fullBits \subseteq Blocks
    BY DEF TypesOK, BitmapOK
  <2>3. \A u \in Threads : pc'[u] = "mark" =>
          pc[u] = "mark" /\ job'[u] = job[u] /\ copy'[u] = copy[u] /\ job[u].block \in Blocks
    BY <1>1, <1>5 DEF TypesOK, ThreadsOK, Jobs
  <2>. QED  BY <1>1, <2>1, <2>2, <2>3 DEF FullBitsTold
<1>. QED  BY <1>6, <1>8, <1>9, <1>10, <1>11, <1>12

\* The bit of the block goes, under the lock: nobody is between a copy of the
\* block and its mark.
LEMMA UnmarkStep ==
    ASSUME IInv, NEW t \in Threads, Unmark(t)
    PROVE  IInv'
<1>. USE DEF IInv
<1>1. /\ pc[t] = "unmark" /\ lock = Nobody /\ MarkFree(job[t].block)
      /\ job' = [job EXCEPT ![t] = NoJob] /\ pc' = [pc EXCEPT ![t] = "idle"]
      /\ UNCHANGED <<block, disk, fileLen, lock, copy, tried, made, crashes, live, raced>>
  BY DEF Unmark, Goto, diskVars, histVars
<1>2. \A u \in Threads : u # Nobody /\ pc[u] \notin {"pick", "alloc", "mark"}
  BY <1>1, RecordStoreAssumption DEF TypesOK, ThreadsOK
<1>3. /\ pc'[t] = "idle" /\ \A u \in Threads \ {t} : pc'[u] = pc[u] /\ job'[u] = job[u]
      /\ pc' \in [Threads -> {"idle", "pick", "alloc", "mark", "fill", "unmark"}]
      /\ job' \in [Threads -> Jobs]
  BY <1>1, NoJobOK DEF TypesOK, ThreadsOK
<1>4. job[t].block \in Blocks
  BY DEF TypesOK, ThreadsOK, Jobs
<1>5. BitmapOK' /\ fullBits' = fullBits \ {job[t].block}
  BY <1>1, <1>4, MarkFreeOK DEF TypesOK
<1>6. TypesOK'
  <2>1. \A u \in Threads : (lock' = u) = (pc'[u] \in {"pick", "alloc", "mark"})
    BY <1>1, <1>2, <1>3
  <2>2. /\ copy' \in [Threads -> BlockStates] /\ tried' \in [Threads -> Nat] /\ made' \in 0..MaxRecords
        /\ live' \subseteq {s \in Jobs : Allocated(s)}
    BY <1>1 DEF TypesOK, ThreadsOK
  <2>3. ThreadsOK'
    BY <1>1, <1>3, <2>1, <2>2, ThreadMoves DEF TypesOK
  <2>. QED  BY <1>1, <1>5, <2>3 DEF TypesOK, BlocksOK
<1>7. HoldersDisjoint' /\ UnracedIntact' /\ MarksOwned'
  BY <1>1, <1>3, QuietStep
<1>8. CopyCovers'
  BY <1>1, <1>2, <1>3 DEF CopyCovers
<1>9. FullBitsTold'
  <2>1. ASSUME NEW a, a # job[t].block, FullOrTold(a) PROVE FullOrTold(a)'
    BY <1>1, <1>3, <2>1 DEF FullOrTold
  <2>2. \A u \in Threads : pc'[u] # "mark"
    BY <1>2, <1>3
  <2>. QED  BY <1>1, <1>5, <2>1, <2>2 DEF FullBitsTold
<1>. QED  BY <1>6, <1>7, <1>8, <1>9

\* After a crash the file's blocks count, and the records whose chunks are all
\* there, marked and filled.
LEMMA CrashStep ==
    ASSUME IInv, Crash
    PROVE  IInv'
<1>. USE DEF IInv
<1>. DEFINE clear == {b \in 0..(fileLen - 1) : b \notin fullBits}
<1>1. /\ crashes' = crashes + 1 /\ block' = disk
      /\ live' = {r \in live : \A c \in Chunks(r) :
                    c \in disk[r.block].bits /\ disk[r.block].data[c] = r.id}
      /\ freeList' = UpTo(Ascending(clear), PreAlloc)
      /\ scanPos' = IF freeList' = <<>> THEN 0 ELSE Last(freeList')
      /\ lock' = Nobody
      /\ pc' = [t \in Threads |-> "idle"] /\ job' = [t \in Threads |-> NoJob]
      /\ copy' = [t \in Threads |-> EmptyBlock] /\ tried' = [t \in Threads |-> 0]
      /\ UNCHANGED <<disk, fileLen, fullBits, bitmapLen, made, raced>>
  BY DEF Crash, diskVars
<1>2. crashes' \in Nat /\ crashes' # 0
  BY <1>1 DEF TypesOK, ThreadsOK
<1>3. freeList' \in Seq(Blocks) /\ Len(freeList') <= PreAlloc
  <2>1. fileLen \in Nat /\ fileLen <= NumBlocks /\ fileLen - 1 \in Int
    BY Sizing DEF TypesOK, BitmapOK
  <2>2. 0..(fileLen - 1) \subseteq Blocks /\ IsFiniteSet(0..(fileLen - 1))
    <3>1. 0..(fileLen - 1) \subseteq Blocks
      BY <2>1, Sizing
    <3>2. IsFiniteSet(0..(fileLen - 1))
      BY <2>1, FS_Interval
    <3>. QED  BY <3>1, <3>2
  <2>3. clear \subseteq Blocks /\ IsFiniteSet(clear) /\ clear \in SUBSET Nat
    BY <2>2, FS_Subset, Sizing
  <2>. HIDE DEF clear
  <2>4. Ascending(clear) \in Seq(clear)
    BY <2>3, AscendingLists
  <2>5. Ascending(clear) \in Seq(Blocks)
    BY <2>3, <2>4, SeqMonotonic
  <2>. QED  BY <1>1, <2>5, UpToShortens, Sizing
<1>4. scanPos' \in 0..NumBlocks
  BY <1>1, <1>3, LastBlock, Sizing
<1>5. TypesOK'
  <2>1. BlocksOK'
    BY <1>1 DEF TypesOK, BlocksOK
  <2>2. BitmapOK'
    BY <1>1, <1>3, <1>4 DEF TypesOK, BitmapOK
  <2>3. ThreadsOK'
    BY <1>1, <1>2, NoJobOK, EmptyBlockOK, RecordStoreAssumption DEF TypesOK, ThreadsOK, Allocated, Chunks
  <2>. QED  BY <2>1, <2>2, <2>3 DEF TypesOK
<1>6. \A t \in Threads : ~Holding(t)' /\ pc'[t] # "alloc"
  BY <1>1 DEF Holding
<1>7. HoldersDisjoint'
  <2>1. \A r, s \in live' : r # s /\ r.block = s.block => Chunks(r) \cap Chunks(s) = {}
    BY <1>1 DEF HoldersDisjoint
  <2>2. \A r \in live' : Chunks(r) \subseteq block'[r.block].bits
    BY <1>1
  <2>. QED  BY <1>6, <2>1, <2>2 DEF HoldersDisjoint, Chunks
<1>8. CopyCovers'
  BY <1>6 DEF CopyCovers
<1>9. UnracedIntact'
  BY <1>1 DEF UnracedIntact, Chunks
<1>10. MarksOwned' /\ FullBitsTold'
  BY <1>2 DEF MarksOwned, FullBitsTold
<1>. QED  BY <1>5, <1>7, <1>8, <1>9, <1>10

LEMMA NextIInv == IInv /\ [Next]_vars => IInv'
<1>. SUFFICES ASSUME IInv, [Next]_vars PROVE IInv'
  OBVIOUS
<1>1. ASSUME NEW t \in Threads, NEW size \in Sizes, Begin(t, size) PROVE IInv'
  BY <1>1, BeginStep
<1>2. ASSUME NEW t \in Threads, Allocating(t) PROVE IInv'
  BY <1>2, GrowStep, PickStep, WriteBackStep, SkipStep, MarkStep DEF Allocating
<1>3. ASSUME NEW t \in Threads, Fill(t) PROVE IInv'
  BY <1>3, FillStep
<1>4. ASSUME NEW t \in Threads, Unmark(t) PROVE IInv'
  BY <1>4, UnmarkStep
<1>5. ASSUME NEW t \in Threads, NEW r \in live, Free(t, r) PROVE IInv'
  BY <1>5, FreeStep
<1>6. ASSUME NEW b \in Blocks, Evict(b) PROVE IInv'
  BY <1>6, EvictStep
<1>7. CASE Crash
  BY <1>7, CrashStep
<1>8. CASE UNCHANGED vars
  <2>1. UNCHANGED <<block, disk, fileLen, fullBits, bitmapLen, freeList, scanPos, lock, pc, job, copy,
                    tried, made, crashes, live, raced>>
    BY <1>8 DEF vars, diskVars, bitmapVars, threadVars, histVars
  <2>2. BitmapOK' /\ BlocksOK' /\ tried' \in [Threads -> Nat]
    BY <2>1 DEF IInv, TypesOK, BitmapOK, BlocksOK, ThreadsOK
  <2>. QED  BY <2>1, <2>2, StillStep
<1>. QED  BY <1>1, <1>2, <1>3, <1>4, <1>5, <1>6, <1>7, <1>8 DEF Next

LEMMA AlwaysIInv == Spec => []IInv
BY InitIInv, NextIInv, PTL DEF Spec

-----------------------------------------------------------------------------
(***************************************************************************)
(* What the runs check, for every value of the constants.                  *)
(***************************************************************************)
\* The lock of the bitmap file is held exactly during an allocation, and the
\* free list names blocks of the file, never more than pre_alloc_blocks.
THEOREM StoreTypes == Spec => []TypeOK
<1>1. IInv => TypeOK
  BY DEF IInv, TypesOK, BlocksOK, BitmapOK, ThreadsOK, BlockStates, TypeOK
<1>. QED  BY <1>1, AlwaysIInv, PTL

\* No two records share a chunk and no header that is written back from a copy
\* loses a record's marks, however threads, evictions and crashes interleave.
THEOREM RecordsStayDisjoint == Spec => []RecordsDisjoint
<1>1. ASSUME IInv PROVE RecordsDisjoint
  <2>1. ASSUME NEW r \in Held
        PROVE  \/ r \in live
               \/ \E t \in Threads : Holding(t) /\ r = job[t]
    BY DEF Held, Holding
  <2>2. ASSUME NEW r \in Held, NEW s \in Held, r # s, r.block = s.block
        PROVE  Chunks(r) \cap Chunks(s) = {}
    <3>1. CASE r \in live /\ s \in live
      BY <1>1, <2>2, <3>1 DEF IInv, HoldersDisjoint
    <3>2. CASE r \in live /\ \E t \in Threads : Holding(t) /\ s = job[t]
      BY <1>1, <2>2, <3>2 DEF IInv, HoldersDisjoint
    <3>3. CASE s \in live /\ \E t \in Threads : Holding(t) /\ r = job[t]
      BY <1>1, <2>2, <3>3 DEF IInv, HoldersDisjoint
    <3>4. CASE \E t, u \in Threads : Holding(t) /\ r = job[t] /\ Holding(u) /\ s = job[u]
      BY <1>1, <2>2, <3>4 DEF IInv, HoldersDisjoint
    <3>. QED  BY <2>1, <3>1, <3>2, <3>3, <3>4
  <2>3. \A r \in Held : Chunks(r) \subseteq block[r.block].bits
    BY <1>1, <2>1 DEF IInv, HoldersDisjoint
  <2>. QED  BY <2>2, <2>3 DEF RecordsDisjoint
<1>. QED  BY <1>1, AlwaysIInv, PTL

\* A record reads back as it was written as long as nobody fills or frees in
\* its block while an allocation holds a copy of it.
THEOREM UnracedRecordsIntact == Spec => []UnracedIntact
<1>1. IInv => UnracedIntact
  BY DEF IInv
<1>. QED  BY <1>1, AlwaysIInv, PTL

\* When every operation is over, and before any crash, such a block has the
\* chunks of its records allocated and no other.
THEOREM NothingLeaks == Spec => []NoChunkLeaks
<1>1. ASSUME IInv PROVE NoChunkLeaks
  <2>1. SUFFICES ASSUME crashes = 0, \A t \in Threads : pc[t] = "idle", NEW b \in Blocks \ raced
                 PROVE  block[b].bits = UNION {Chunks(r) : r \in {s \in live : s.block = b}}
    BY DEF NoChunkLeaks
  <2>2. ASSUME NEW c \in block[b].bits
        PROVE  c \in UNION {Chunks(r) : r \in {s \in live : s.block = b}}
    <3>1. Owned(b, c)
      BY <1>1, <2>1 DEF IInv, MarksOwned
    <3>2. \E r \in live : r.block = b /\ c \in Chunks(r)
      BY <2>1, <3>1 DEF Owned, Holding
    <3>. QED  BY <3>2
  <2>3. ASSUME NEW r \in live, r.block = b PROVE Chunks(r) \subseteq block[b].bits
    BY <1>1, <2>3 DEF IInv, HoldersDisjoint
  <2>. QED  BY <2>2, <2>3
<1>. QED  BY <1>1, AlwaysIInv, PTL

\* Until the first crash a set bit of the bitmap file takes only blocks out of
\* use that have no room.
THEOREM FullBitsHold == Spec => []FullBitsTrue
<1>1. IInv => FullBitsTrue
  BY DEF IInv, FullBitsTold, FullOrTold, FullBitsTrue
<1>. QED  BY <1>1, AlwaysIInv, PTL

-----------------------------------------------------------------------------
(***************************************************************************)
(* One block under any sequence of allocations and frees (ChunkBlock), for *)
(* every block size and every set of record sizes.  The bitmap is the      *)
(* union of the runs that are held, which makes the runs disjoint.         *)
(***************************************************************************)
Counters == 0..(ChunksPerBlock - 1)

\* The sizes of the records of a block.
LEMMA Counting ==
    /\ ChunksPerBlock \in Nat \ {0}
    /\ \A count \in Counts : count \in Nat /\ count >= 2 /\ count < ChunksPerBlock
BY ChunkBlockAssumption, BlockAllocatorAssumption DEF DataChunks

\* The cursor stays a byte.
LEMMA CursorIsByte ==
    ASSUME NEW free \in SUBSET DataChunks, NEW pos \in Counters, NEW count \in Counts
    PROVE  CursorAfter(free, pos, count) \in Counters
<1>1. ChunksPerBlock \in Nat \ {0} /\ count \in Nat
  BY Counting
<1>2. \A n \in Nat : n % ChunksPerBlock \in Counters
  BY <1>1 DEF Counters
<1>3. Start(pos) \in Nat
  BY <1>1 DEF Start, Counters
<1>. QED  BY <1>1, <1>2, <1>3 DEF CursorAfter

\* A full block has no two free neighbours, so no run of two fits.
LEMMA FullBlockRefuses ==
    ASSUME NEW free \in SUBSET DataChunks, NEW at \in DataChunks,
           NEW pos \in Counters, NEW count \in Counts,
           AllocatedAt(free, pos, count, at)
    PROVE  ~IsBlockFull(free)
<1>1. count \in Nat /\ count >= 2 /\ count < ChunksPerBlock /\ ChunksPerBlock \in Nat
  BY Counting
<1>2. Run(at, count) \subseteq DataChunks /\ Run(at, count) \cap free = {}
  BY <1>1, AllocationSound DEF Counters
<1>3. at \in Run(at, count) /\ at + 1 \in Run(at, count)
  BY <1>1 DEF Run, DataChunks
<1>4. at \in 1..(ChunksPerBlock - 2) /\ at \notin free /\ at + 1 \notin free
  BY <1>1, <1>2, <1>3 DEF DataChunks
<1>. QED  BY <1>4 DEF IsBlockFull

RunsInv == BlockTypeOK /\ RunsDisjoint /\ BitsAreRuns

LEMMA InitRunsInv == BlockInit => RunsInv
<1> SUFFICES ASSUME BlockInit PROVE RunsInv
  OBVIOUS
<1>1. 0 \in Counters
  BY Counting DEF Counters
<1>. QED  BY <1>1 DEF BlockInit, RunsInv, BlockTypeOK, RunsDisjoint, BitsAreRuns, ChunksOf, Counters

\* A new run is disjoint from the old ones because the bitmap is their union.
LEMMA AllocChunksStep ==
    ASSUME RunsInv, NEW count \in Counts, AllocChunks(count)
    PROVE  RunsInv'
<1> USE DEF RunsInv
<1>1. PICK at \in DataChunks : /\ AllocatedAt(bits, cursor, count, at)
                               /\ bits' = bits \cup Run(at, count)
                               /\ runs' = runs \cup {<<at, count>>}
  BY DEF AllocChunks
<1>2. Run(at, count) \subseteq DataChunks /\ Run(at, count) \cap bits = {}
  BY <1>1, Counting, AllocationSound DEF BlockTypeOK
<1>3. cursor' \in Counters /\ refused' = 0
  BY CursorIsByte DEF AllocChunks, BlockTypeOK, Counters
<1>4. ChunksOf(<<at, count>>) = Run(at, count)
  BY DEF ChunksOf
<1>5. \A r \in runs : ChunksOf(r) \subseteq bits
  BY DEF BitsAreRuns
<1>6. BlockTypeOK'
  BY <1>1, <1>2, <1>3 DEF BlockTypeOK, Counters
<1>7. RunsDisjoint'
  BY <1>1, <1>2, <1>4, <1>5 DEF RunsDisjoint, ChunksOf
<1>8. BitsAreRuns'
  <2>1. UNION {ChunksOf(r) : r \in runs'} = (UNION {ChunksOf(r) : r \in runs}) \cup ChunksOf(<<at, count>>)
    BY <1>1
  <2>. QED  BY <1>1, <1>4, <2>1 DEF BitsAreRuns, ChunksOf
<1>. QED  BY <1>6, <1>7, <1>8

\* Freeing a run touches no other, because runs are disjoint.
LEMMA FreeChunksStep ==
    ASSUME RunsInv, NEW r \in runs, FreeChunks(r)
    PROVE  RunsInv'
<1> USE DEF RunsInv
<1>1. bits' = bits \ ChunksOf(r) /\ runs' = runs \ {r} /\ cursor' = cursor /\ refused' = 0
  BY DEF FreeChunks, ChunksOf
<1>2. BlockTypeOK'
  BY <1>1 DEF BlockTypeOK
<1>3. RunsDisjoint'
  BY <1>1 DEF RunsDisjoint, ChunksOf
<1>4. BitsAreRuns'
  <2>1. \A s \in runs \ {r} : ChunksOf(s) \cap ChunksOf(r) = {}
    BY DEF RunsDisjoint
  <2>2. (UNION {ChunksOf(s) : s \in runs}) \ ChunksOf(r) = UNION {ChunksOf(s) : s \in runs \ {r}}
    BY <2>1
  <2>. QED  BY <1>1, <2>2 DEF BitsAreRuns, ChunksOf
<1>. QED  BY <1>2, <1>3, <1>4

LEMMA NextRunsInv == RunsInv /\ [BlockNext]_blockVars => RunsInv'
<1> SUFFICES ASSUME RunsInv, [BlockNext]_blockVars PROVE RunsInv'
  OBVIOUS
<1>1. CASE \E count \in Counts : AllocChunks(count)
  BY <1>1, AllocChunksStep
<1>2. CASE \E count \in Counts : RefuseChunks(count)
  BY <1>2 DEF RefuseChunks, RunsInv, BlockTypeOK, RunsDisjoint, BitsAreRuns, ChunksOf
<1>3. CASE \E r \in runs : FreeChunks(r)
  BY <1>3, FreeChunksStep
<1>4. CASE UNCHANGED blockVars
  BY <1>4 DEF blockVars, RunsInv, BlockTypeOK, RunsDisjoint, BitsAreRuns, ChunksOf
<1>. QED  BY <1>1, <1>2, <1>3, <1>4 DEF BlockNext

\* No two records of a block share a chunk and none leaves the block.
THEOREM RunsStayDisjoint == BlockSpec => []RunsDisjoint
<1>1. RunsInv => RunsDisjoint
  BY DEF RunsInv
<1>. QED  BY <1>1, InitRunsInv, NextRunsInv, PTL DEF BlockSpec

\* The bitmap of a block is exactly the chunks of its records.
THEOREM BitmapExact == BlockSpec => []BitsAreRuns
<1>1. RunsInv => BitsAreRuns
  BY DEF RunsInv
<1>. QED  BY <1>1, InitRunsInv, NextRunsInv, PTL DEF BlockSpec

\* A block taken off the free list as full could not have served any record.
THEOREM FullIsFull == BlockSpec => []FullMeansNoRoom
<1>1. RunsInv => FullMeansNoRoom
  BY FullBlockRefuses DEF RunsInv, BlockTypeOK, FullMeansNoRoom, Allocatable, Counters
<1>. QED  BY <1>1, InitRunsInv, NextRunsInv, PTL DEF BlockSpec
=============================================================================
