------------------------- MODULE BlockCacheProofs -------------------------
(***************************************************************************)
(* Proofs about the block cache, for every set of blocks, number of        *)
(* shards, capacity and number of concurrent flushes.                      *)
(***************************************************************************)
EXTENDS BlockCache, SequenceTheorems, FiniteSetTheorems, TLAPS

(***************************************************************************)
(* The deque operations.                                                   *)
(***************************************************************************)
Injective(q) == \A i, j \in DOMAIN q : q[i] = q[j] => i = j

\* A sequence without its i-th element, position by position.
LEMMA RemoveAtElements ==
    ASSUME NEW S, NEW q \in Seq(S), NEW i \in 1..Len(q)
    PROVE  /\ RemoveAt(q, i) \in Seq(S)
           /\ Len(RemoveAt(q, i)) = Len(q) - 1
           /\ \A k \in 1..(Len(q) - 1) :
                RemoveAt(q, i)[k] = IF k < i THEN q[k] ELSE q[k + 1]
<1> DEFINE l == SubSeq(q, 1, i - 1)
           r == SubSeq(q, i + 1, Len(q))
<1>1. Len(q) \in Nat /\ \A k \in 1..Len(q) : q[k] \in S
  BY LenProperties, ElementOfSeq
<1>2. /\ l \in Seq(S)
      /\ Len(l) = i - 1
      /\ \A k \in 1..(i - 1) : l[k] = q[k]
  <2>1. \A k \in 1..(i - 1) : q[k] \in S
    BY <1>1
  <2>2. i - 1 \in Int /\ 1 \in Int
    OBVIOUS
  <2>3. /\ l \in Seq(S)
        /\ Len(l) = IF 1 <= i - 1 THEN i - 1 - 1 + 1 ELSE 0
        /\ \A k \in 1..(i - 1 - 1 + 1) : l[k] = q[1 + k - 1]
    BY <2>1, <2>2, SubSeqProperties
  <2> QED
    BY <2>3
<1>3. /\ r \in Seq(S)
      /\ Len(r) = Len(q) - i
      /\ \A k \in 1..(Len(q) - i) : r[k] = q[i + k]
  <2>1. \A k \in (i + 1)..Len(q) : q[k] \in S
    BY <1>1
  <2>2. i + 1 \in Int /\ Len(q) \in Int
    BY <1>1
  <2>3. /\ r \in Seq(S)
        /\ Len(r) = IF i + 1 <= Len(q) THEN Len(q) - (i + 1) + 1 ELSE 0
        /\ \A k \in 1..(Len(q) - (i + 1) + 1) : r[k] = q[i + 1 + k - 1]
    BY <2>1, <2>2, SubSeqProperties
  <2> QED
    BY <2>3, <1>1
<1> HIDE DEF l, r
<1>4. /\ l \o r \in Seq(S)
      /\ Len(l \o r) = Len(l) + Len(r)
      /\ \A k \in 1..(Len(l) + Len(r)) :
           (l \o r)[k] = IF k <= Len(l) THEN l[k] ELSE r[k - Len(l)]
  BY <1>2, <1>3, ConcatProperties
<1>5. Len(l) + Len(r) = Len(q) - 1
  BY <1>1, <1>2, <1>3
<1>6. ASSUME NEW k \in 1..(Len(q) - 1)
      PROVE  (l \o r)[k] = IF k < i THEN q[k] ELSE q[k + 1]
  <2>1. CASE k < i
    BY <2>1, <1>2, <1>4, <1>5
  <2>2. CASE ~(k < i)
    <3>1. /\ k - Len(l) \in 1..(Len(q) - i)
          /\ i + (k - Len(l)) = k + 1
          /\ ~(k <= Len(l))
      BY <2>2, <1>1, <1>2
    <3> QED
      BY <2>2, <3>1, <1>3, <1>4, <1>5
  <2> QED
    BY <2>1, <2>2
<1> QED
  BY <1>4, <1>5, <1>6 DEF RemoveAt, l, r

\* Removing a block leaves a deque of the same blocks.
LEMMA WithoutType ==
    ASSUME NEW S, NEW q \in Seq(S), NEW b
    PROVE  Without(q, b) \in Seq(S)
<1>1. ASSUME b \in Range(q)
      PROVE  (CHOOSE k \in DOMAIN q : q[k] = b) \in 1..Len(q)
  BY <1>1, LenProperties DEF Range
<1> QED
  BY <1>1, RemoveAtElements DEF Without

\* Removing a block that a deque lists once removes it and nothing else.
LEMMA WithoutRange ==
    ASSUME NEW S, NEW q \in Seq(S), NEW b, Injective(q)
    PROVE  /\ Range(Without(q, b)) = Range(q) \ {b}
           /\ Injective(Without(q, b))
<1>1. CASE b \notin Range(q)
  BY <1>1 DEF Without
<1>2. CASE b \in Range(q)
  <2> DEFINE i == CHOOSE k \in DOMAIN q : q[k] = b
             w == RemoveAt(q, i)
             n == Len(q)
  <2>1. /\ n \in Nat
        /\ DOMAIN q = 1..n
    BY LenProperties
  <2>2. i \in 1..n /\ q[i] = b
    BY <1>2, <2>1 DEF Range
  <2> HIDE DEF i
  <2>3. /\ w \in Seq(S)
        /\ Len(w) = n - 1
        /\ \A k \in 1..(n - 1) : w[k] = IF k < i THEN q[k] ELSE q[k + 1]
    BY <2>2, RemoveAtElements
  <2>4. DOMAIN w = 1..(n - 1)
    BY <2>3, LenProperties
  <2> HIDE DEF w, n
  <2>5. \A j, k \in 1..n : q[j] = q[k] => j = k
    BY <2>1 DEF Injective
  <2>6. Injective(w)
    BY <2>1, <2>2, <2>3, <2>4, <2>5 DEF Injective
  <2>7. ASSUME NEW k \in 1..(n - 1)
        PROVE  w[k] \in Range(q) \ {b}
    <3>1. CASE k < i
      BY <3>1, <2>1, <2>2, <2>3, <2>5 DEF Range
    <3>2. CASE ~(k < i)
      BY <3>2, <2>1, <2>2, <2>3, <2>5 DEF Range
    <3> QED
      BY <3>1, <3>2
  <2>8. ASSUME NEW k \in 1..n, q[k] # b
        PROVE  q[k] \in Range(w)
    <3>1. CASE k < i
      BY <3>1, <2>1, <2>2, <2>3, <2>4 DEF Range
    <3>2. CASE k > i
      <4>1. k - 1 \in 1..(n - 1) /\ ~(k - 1 < i) /\ (k - 1) + 1 = k
        BY <3>2, <2>1, <2>2
      <4>2. w[k - 1] = q[k]
        BY <4>1, <2>3
      <4> QED
        BY <4>1, <4>2, <2>4 DEF Range
    <3> QED
      BY <2>1, <2>2, <2>8, <3>1, <3>2
  <2>9. Without(q, b) = w
    BY <1>2 DEF Without, w, i
  <2> QED
    BY <2>1, <2>4, <2>6, <2>7, <2>8, <2>9 DEF Range
<1> QED
  BY <1>1, <1>2

\* Pushing a new block at the front.
LEMMA PushFront ==
    ASSUME NEW S, NEW q \in Seq(S), NEW b \in S
    PROVE  /\ <<b>> \o q \in Seq(S)
           /\ Range(<<b>> \o q) = Range(q) \cup {b}
           /\ (Injective(q) /\ b \notin Range(q)) => Injective(<<b>> \o q)
<1> DEFINE p == <<b>> \o q
<1>1. Len(q) \in Nat /\ DOMAIN q = 1..Len(q)
  BY LenProperties
<1>2. <<b>> \in Seq(S) /\ Len(<<b>>) = 1 /\ <<b>>[1] = b
  OBVIOUS
<1>3. /\ p \in Seq(S)
      /\ Len(p) = 1 + Len(q)
      /\ \A k \in 1..(1 + Len(q)) : p[k] = IF k <= 1 THEN <<b>>[k] ELSE q[k - 1]
  BY <1>2, ConcatProperties
<1>4. DOMAIN p = 1..(1 + Len(q))
  BY <1>3, LenProperties
<1> HIDE DEF p
<1>5. \A k \in 1..(1 + Len(q)) : p[k] = IF k = 1 THEN b ELSE q[k - 1]
  BY <1>1, <1>2, <1>3
<1>6. Range(p) = Range(q) \cup {b}
  <2>1. Range(p) \subseteq Range(q) \cup {b}
    BY <1>1, <1>4, <1>5 DEF Range
  <2>2. ASSUME NEW k \in 1..Len(q)
        PROVE  q[k] \in Range(p)
    <3>1. k + 1 \in 1..(1 + Len(q)) /\ k + 1 # 1 /\ (k + 1) - 1 = k
      BY <1>1
    <3> QED
      BY <3>1, <1>4, <1>5 DEF Range
  <2>3. b \in Range(p)
    BY <1>1, <1>4, <1>5 DEF Range
  <2> QED
    BY <2>1, <2>2, <2>3, <1>1 DEF Range
<1>7. ASSUME Injective(q), b \notin Range(q)
      PROVE  Injective(p)
  BY <1>1, <1>4, <1>5, <1>7 DEF Injective, Range
<1> QED
  BY <1>3, <1>6, <1>7 DEF p

(***************************************************************************)
(* The inductive invariant.  CleanMatchesDisk makes an eviction invisible; *)
(* the deque and the capacity need each other's bookkeeping; FlushedBehind *)
(* needs that what a flush would write now is among what it owes.          *)
(***************************************************************************)
OwedCurrent ==
    \A f \in Flushers, b \in Blocks : flushAt[f] # 0 => Logical(b) \in owed[f][b]

CacheOK == CleanMatchesDisk /\ DequeListsCached /\ WithinCapacity

CacheTypeOK ==
    /\ disk \in [Blocks -> Values]
    /\ cache \in [Blocks -> Values \cup {NotCached}]
    /\ dirty \subseteq Cached
    /\ lru \in [1..NumShards -> Seq(Blocks)]

FlushTypeOK ==
    /\ flushAt \in [Flushers -> 0..(NumShards + 1)]
    /\ owed \in [Flushers -> {<<>>} \cup [Blocks -> SUBSET Values]]
    /\ \A f \in Flushers : flushAt[f] = 0 <=> owed[f] = <<>>

IInv == TypeOK /\ CacheOK /\ FlushedBehind /\ OwedCurrent

LEMMA TypeSplit == TypeOK <=> CacheTypeOK /\ FlushTypeOK
BY DEF TypeOK, CacheTypeOK, FlushTypeOK

\* An idle flush owes nothing; a running one owes something for every block.
LEMMA NothingOwed ==
    ASSUME NEW o \in [Blocks -> SUBSET Values]
    PROVE  o # <<>>
<1>1. DOMAIN o # {}
  BY BlockCacheAssumption
<1>2. DOMAIN <<>> = {}
  OBVIOUS
<1> QED
  BY <1>1, <1>2

\* The set of blocks a shard holds is finite, so its size is a number.
LEMMA ShardFinite ==
    ASSUME NEW s
    PROVE  /\ IsFiniteSet(InShard(s))
           /\ Cardinality(InShard(s)) \in Nat
<1>1. InShard(s) \subseteq Blocks
  BY DEF InShard, Cached
<1> QED
  BY <1>1, BlockCacheAssumption, FS_Subset, FS_CardinalityType

\* A victim is a cached block of its shard, and a block that is cached after
\* the eviction was not the victim.
LEMMA VictimCached ==
    ASSUME CacheTypeOK, CacheOK, NEW s \in 1..NumShards,
           NEW i \in DOMAIN lru[s]
    PROVE  /\ lru[s][i] \in Cached
           /\ lru[s][i] \in Blocks
           /\ ShardOf[lru[s][i]] = s
<1>1. lru[s][i] \in Range(lru[s])
  BY DEF Range
<1> QED
  BY <1>1 DEF CacheOK, DequeListsCached, InShard, Cached

(***************************************************************************)
(* What one access does.                                                   *)
(***************************************************************************)
WrittenBack(S) == disk' = [c \in Blocks |-> IF c \in S THEN Logical(c) ELSE disk[c]]

Effect(b, val) ==
    /\ CacheTypeOK' /\ CacheOK'
    /\ \A c \in Blocks : Logical(c)' = IF c = b THEN val ELSE Logical(c)
    /\ \E S \in SUBSET Blocks : WrittenBack(S)

AccessArgs(b, val, marked) ==
    /\ b \in Blocks
    /\ val \in Values
    /\ marked \in SUBSET {b}
    /\ marked = {b} \/ val = Logical(b)

\* An access to a cached block changes that block at most.
LEMMA HitEffect ==
    ASSUME CacheTypeOK, CacheOK, NEW b, NEW val, NEW marked,
           AccessArgs(b, val, marked), Hit(b, val, marked)
    PROVE  Effect(b, val)
<1> USE BlockCacheAssumption
<1>1. /\ b \in Cached /\ b \in Blocks /\ val \in Values /\ val # NotCached
      /\ ShardOf[b] \in 1..NumShards
  BY DEF Hit, AccessArgs
<1>2. Cached' = Cached /\ disk' = disk /\ dirty' = dirty \cup marked
  BY <1>1 DEF Hit, Cached, CacheTypeOK
<1>3. \A s : InShard(s)' = InShard(s)
  BY <1>2 DEF InShard
<1>4. ASSUME NEW s \in 1..NumShards
      PROVE  /\ lru'[s] \in Seq(Blocks)
             /\ Range(lru'[s]) = InShard(s)
             /\ Injective(lru'[s])
  <2>1. lru[s] \in Seq(Blocks) /\ Injective(lru[s]) /\ Range(lru[s]) = InShard(s)
    BY DEF CacheTypeOK, CacheOK, DequeListsCached, Injective
  <2>2. CASE s = ShardOf[b]
    <3>1. lru'[s] = <<b>> \o Without(lru[s], b)
      BY <2>2 DEF Hit, Touch, CacheTypeOK
    <3>2. /\ Without(lru[s], b) \in Seq(Blocks)
          /\ Range(Without(lru[s], b)) = InShard(s) \ {b}
          /\ Injective(Without(lru[s], b))
      BY <2>1, WithoutType, WithoutRange
    <3>3. b \in InShard(s) /\ b \notin Range(Without(lru[s], b))
      BY <1>1, <2>2, <3>2 DEF InShard
    <3>4. /\ <<b>> \o Without(lru[s], b) \in Seq(Blocks)
          /\ Range(<<b>> \o Without(lru[s], b)) = Range(Without(lru[s], b)) \cup {b}
          /\ Injective(<<b>> \o Without(lru[s], b))
      BY <1>1, <3>2, <3>3, PushFront
    <3> QED
      BY <3>1, <3>2, <3>3, <3>4
  <2>3. CASE s # ShardOf[b]
    <3>1. lru'[s] = lru[s]
      BY <2>3 DEF Hit, CacheTypeOK
    <3> QED
      BY <2>1, <3>1
  <2> QED
    BY <2>2, <2>3
<1>5. CacheTypeOK'
  <2>1. lru' \in [1..NumShards -> Seq(Blocks)]
    <3>1. lru' = [lru EXCEPT ![ShardOf[b]] = Touch(lru[ShardOf[b]], b)]
      BY DEF Hit
    <3>2. DOMAIN lru' = 1..NumShards /\ lru' = [s \in 1..NumShards |-> lru'[s]]
      BY <3>1 DEF CacheTypeOK
    <3> QED
      BY <3>2, <1>4
  <2>2. cache' \in [Blocks -> Values \cup {NotCached}]
    BY <1>1 DEF Hit, CacheTypeOK
  <2> QED
    BY <1>1, <1>2, <2>1, <2>2 DEF CacheTypeOK, AccessArgs
<1>6. DequeListsCached'
  BY <1>3, <1>4 DEF DequeListsCached, Injective
<1>7. WithinCapacity'
  BY <1>3 DEF WithinCapacity, CacheOK
<1>8. \A c \in Blocks : cache'[c] = IF c = b THEN val ELSE cache[c]
  BY <1>1 DEF Hit, CacheTypeOK
<1>9. CleanMatchesDisk'
  BY <1>1, <1>2, <1>8 DEF CleanMatchesDisk, CacheOK, AccessArgs, Logical, Cached
<1>10. \A c \in Blocks : Logical(c)' = IF c = b THEN val ELSE Logical(c)
  BY <1>1, <1>2, <1>8 DEF Logical
<1>11. WrittenBack({})
  BY <1>2 DEF WrittenBack, CacheTypeOK
<1> QED
  BY <1>5, <1>6, <1>7, <1>9, <1>10, <1>11 DEF Effect, CacheOK

\* A block loaded where there is room.
LEMMA LoadEffect ==
    ASSUME CacheTypeOK, CacheOK, NEW b, NEW val, NEW marked,
           AccessArgs(b, val, marked), Load(b, val, marked)
    PROVE  Effect(b, val)
<1> USE BlockCacheAssumption
<1>1. /\ b \notin Cached /\ b \in Blocks /\ val \in Values /\ val # NotCached
      /\ ShardOf[b] \in 1..NumShards
  BY DEF Load, AccessArgs
<1>2. \A c \in Blocks : cache'[c] = IF c = b THEN val ELSE cache[c]
  BY <1>1 DEF Load, CacheTypeOK
<1>3. Cached' = Cached \cup {b} /\ disk' = disk /\ dirty' = dirty \cup marked
  BY <1>1, <1>2 DEF Load, Cached
<1>4. \A s : InShard(s)' = IF s = ShardOf[b] THEN InShard(s) \cup {b} ELSE InShard(s)
  BY <1>1, <1>3 DEF InShard
<1>5. ASSUME NEW s \in 1..NumShards
      PROVE  /\ lru'[s] \in Seq(Blocks)
             /\ Range(lru'[s]) = InShard(s)'
             /\ Injective(lru'[s])
  <2>1. lru[s] \in Seq(Blocks) /\ Injective(lru[s]) /\ Range(lru[s]) = InShard(s)
    BY DEF CacheTypeOK, CacheOK, DequeListsCached, Injective
  <2>2. CASE s = ShardOf[b]
    <3>1. lru'[s] = <<b>> \o lru[s]
      BY <2>2 DEF Load, CacheTypeOK
    <3>2. b \notin Range(lru[s])
      BY <1>1, <2>1 DEF InShard
    <3>3. InShard(s)' = InShard(s) \cup {b}
      BY <1>4, <2>2
    <3>4. /\ <<b>> \o lru[s] \in Seq(Blocks)
          /\ Range(<<b>> \o lru[s]) = Range(lru[s]) \cup {b}
          /\ Injective(<<b>> \o lru[s])
      BY <1>1, <2>1, <3>2, PushFront
    <3> QED
      BY <2>1, <3>1, <3>3, <3>4
  <2>3. CASE s # ShardOf[b]
    <3>1. lru'[s] = lru[s]
      BY <2>3 DEF Load, CacheTypeOK
    <3> QED
      BY <1>4, <2>1, <2>3, <3>1
  <2> QED
    BY <2>2, <2>3
<1>6. CacheTypeOK'
  <2>1. lru' \in [1..NumShards -> Seq(Blocks)]
    <3>1. lru' = [lru EXCEPT ![ShardOf[b]] = <<b>> \o lru[ShardOf[b]]]
      BY DEF Load
    <3>2. lru' = [s \in 1..NumShards |-> lru'[s]]
      BY <3>1 DEF CacheTypeOK
    <3> QED
      BY <3>2, <1>5
  <2>2. cache' \in [Blocks -> Values \cup {NotCached}]
    BY <1>1 DEF Load, CacheTypeOK
  <2> QED
    BY <1>1, <1>3, <2>1, <2>2 DEF CacheTypeOK, AccessArgs
<1>7. DequeListsCached'
  BY <1>5 DEF DequeListsCached, Injective
<1>8. WithinCapacity'
  <2> SUFFICES ASSUME NEW s \in 1..NumShards
               PROVE  Cardinality(InShard(s)') <= Capacity
    BY DEF WithinCapacity
  <2>1. CASE s = ShardOf[b]
    <3>1. b \notin InShard(s)
      BY <1>1 DEF InShard
    <3>2. IsFiniteSet(InShard(s)) /\ Cardinality(InShard(s)) \in Nat
      BY ShardFinite
    <3>3. Cardinality(InShard(s) \cup {b}) = Cardinality(InShard(s)) + 1
      BY <3>1, <3>2, FS_AddElement
    <3>4. ~(Cardinality(InShard(s)) >= Capacity)
      BY <2>1 DEF Load, Full
    <3>5. InShard(s)' = InShard(s) \cup {b}
      BY <1>4, <2>1
    <3> QED
      BY <3>2, <3>3, <3>4, <3>5
  <2>2. CASE s # ShardOf[b]
    BY <1>4, <2>2 DEF WithinCapacity, CacheOK
  <2> QED
    BY <2>1, <2>2
<1>9. CleanMatchesDisk'
  BY <1>1, <1>2, <1>3 DEF CleanMatchesDisk, CacheOK, AccessArgs, Logical, Cached
<1>10. \A c \in Blocks : Logical(c)' = IF c = b THEN val ELSE Logical(c)
  BY <1>1, <1>2, <1>3 DEF Logical
<1>11. WrittenBack({})
  BY <1>3 DEF WrittenBack, CacheTypeOK
<1> QED
  BY <1>6, <1>7, <1>8, <1>9, <1>10, <1>11 DEF Effect, CacheOK

\* The victim of a full shard: what the eviction leaves behind, before the
\* block that was asked for is loaded.
LEMMA EvictionLeaves ==
    ASSUME CacheTypeOK, CacheOK, NEW s \in 1..NumShards,
           NEW i \in DOMAIN lru[s], VictimAt(s, i)
    PROVE  LET v == lru[s][i] IN
           /\ v \in Cached /\ v \in Blocks /\ v \in InShard(s)
           /\ Without(lru[s], v) \in Seq(Blocks)
           /\ Range(Without(lru[s], v)) = InShard(s) \ {v}
           /\ Injective(Without(lru[s], v))
           /\ Cardinality(InShard(s) \ {v}) = Cardinality(InShard(s)) - 1
           /\ cache[v] = Logical(v)
           /\ Written({v} \cap dirty)[v] = Logical(v)
           /\ \A c \in Blocks : c # v => Written({v} \cap dirty)[c] = disk[c]
<1> DEFINE v == lru[s][i]
<1>1. v \in Cached /\ v \in Blocks /\ v \in InShard(s)
  BY VictimCached DEF InShard
<1>2. lru[s] \in Seq(Blocks) /\ Injective(lru[s]) /\ Range(lru[s]) = InShard(s)
  BY DEF CacheTypeOK, CacheOK, DequeListsCached, Injective
<1> HIDE DEF v
<1>3. /\ Without(lru[s], v) \in Seq(Blocks)
      /\ Range(Without(lru[s], v)) = InShard(s) \ {v}
      /\ Injective(Without(lru[s], v))
  BY <1>2, WithoutType, WithoutRange
<1>4. Cardinality(InShard(s) \ {v}) = Cardinality(InShard(s)) - 1
  <2>1. IsFiniteSet(InShard(s))
    BY ShardFinite
  <2> QED
    BY <1>1, <2>1, FS_RemoveElement
<1>5. cache[v] = Logical(v)
  BY <1>1 DEF Logical
<1>6. Written({v} \cap dirty)[v] = Logical(v)
  BY <1>1, <1>5 DEF Written, CacheOK, CleanMatchesDisk
<1>7. \A c \in Blocks : c # v => Written({v} \cap dirty)[c] = disk[c]
  BY DEF Written
<1> QED
  BY <1>1, <1>3, <1>4, <1>5, <1>6, <1>7 DEF v

\* A block loaded in the place of a victim.
LEMMA EvictEffect ==
    ASSUME CacheTypeOK, CacheOK, NEW b, NEW val, NEW marked,
           AccessArgs(b, val, marked), EvictAndLoad(b, val, marked)
    PROVE  Effect(b, val)
<1> USE BlockCacheAssumption
<1> DEFINE t == ShardOf[b]
<1>1. /\ b \notin Cached /\ b \in Blocks /\ val \in Values /\ val # NotCached
      /\ t \in 1..NumShards /\ marked \in SUBSET {b}
  BY DEF EvictAndLoad, AccessArgs
<1>2. PICK i \in DOMAIN lru[t] :
        /\ VictimAt(t, i)
        /\ disk' = Written({lru[t][i]} \cap dirty)
        /\ cache' = [cache EXCEPT ![lru[t][i]] = NotCached, ![b] = val]
        /\ dirty' = (dirty \ {lru[t][i]}) \cup marked
        /\ lru' = [lru EXCEPT ![t] = <<b>> \o Without(lru[t], lru[t][i])]
  BY DEF EvictAndLoad
<1> DEFINE v == lru[t][i]
           q == Without(lru[t], v)
<1>3. /\ v \in Cached /\ v \in Blocks /\ v \in InShard(t)
      /\ q \in Seq(Blocks)
      /\ Range(q) = InShard(t) \ {v}
      /\ Injective(q)
      /\ Cardinality(InShard(t) \ {v}) = Cardinality(InShard(t)) - 1
      /\ cache[v] = Logical(v)
      /\ Written({v} \cap dirty)[v] = Logical(v)
      /\ \A c \in Blocks : c # v => Written({v} \cap dirty)[c] = disk[c]
  BY <1>1, <1>2, EvictionLeaves
<1>4. /\ disk' = Written({v} \cap dirty)
      /\ cache' = [cache EXCEPT ![v] = NotCached, ![b] = val]
      /\ dirty' = (dirty \ {v}) \cup marked
      /\ lru' = [lru EXCEPT ![t] = <<b>> \o q]
  BY <1>2
<1> HIDE DEF v, q, t
<1>5. \A c \in Blocks : cache'[c] = IF c = b THEN val
                                    ELSE IF c = v THEN NotCached ELSE cache[c]
  BY <1>1, <1>3, <1>4 DEF CacheTypeOK
<1>6. v # b
  BY <1>1, <1>3
<1>7. Cached' = (Cached \ {v}) \cup {b}
  BY <1>1, <1>3, <1>5, <1>6 DEF Cached
<1>8. /\ InShard(t)' = (InShard(t) \ {v}) \cup {b}
      /\ \A s : s # t => InShard(s)' = InShard(s)
  BY <1>1, <1>3, <1>7 DEF InShard, t
<1>9. b \notin InShard(t) \ {v}
  BY <1>1 DEF InShard
<1>10. ASSUME NEW s \in 1..NumShards
       PROVE  /\ lru'[s] \in Seq(Blocks)
              /\ Range(lru'[s]) = InShard(s)'
              /\ Injective(lru'[s])
  <2>1. CASE s = t
    <3>1. lru'[s] = <<b>> \o q
      BY <2>1, <1>4 DEF CacheTypeOK
    <3>2. /\ <<b>> \o q \in Seq(Blocks)
          /\ Range(<<b>> \o q) = Range(q) \cup {b}
          /\ Injective(<<b>> \o q)
      BY <1>1, <1>3, <1>9, PushFront
    <3> QED
      BY <1>3, <1>8, <2>1, <3>1, <3>2
  <2>2. CASE s # t
    <3>1. lru'[s] = lru[s]
      BY <2>2, <1>4 DEF CacheTypeOK
    <3>2. lru[s] \in Seq(Blocks) /\ Injective(lru[s]) /\ Range(lru[s]) = InShard(s)
      BY DEF CacheTypeOK, CacheOK, DequeListsCached, Injective
    <3> QED
      BY <1>8, <2>2, <3>1, <3>2
  <2> QED
    BY <2>1, <2>2
<1>11. CacheTypeOK'
  <2>1. lru' \in [1..NumShards -> Seq(Blocks)]
    <3>1. lru' = [s \in 1..NumShards |-> lru'[s]]
      BY <1>4 DEF CacheTypeOK
    <3> QED
      BY <3>1, <1>10
  <2>2. cache' \in [Blocks -> Values \cup {NotCached}]
    BY <1>1, <1>4 DEF CacheTypeOK
  <2>3. dirty' \subseteq Cached'
    BY <1>1, <1>4, <1>7 DEF CacheTypeOK
  <2>4. disk' \in [Blocks -> Values]
    BY <1>4 DEF Written, CacheTypeOK, Cached
  <2> QED
    BY <2>1, <2>2, <2>3, <2>4 DEF CacheTypeOK
<1>12. DequeListsCached'
  BY <1>10 DEF DequeListsCached, Injective
<1>13. WithinCapacity'
  <2> SUFFICES ASSUME NEW s \in 1..NumShards
               PROVE  Cardinality(InShard(s)') <= Capacity
    BY DEF WithinCapacity
  <2>1. CASE s = t
    <3>1. IsFiniteSet(InShard(t)) /\ Cardinality(InShard(t)) \in Nat
      BY ShardFinite
    <3>2. IsFiniteSet(InShard(t) \ {v})
      BY <3>1, FS_RemoveElement
    <3>3. Cardinality((InShard(t) \ {v}) \cup {b}) = Cardinality(InShard(t) \ {v}) + 1
      BY <1>9, <3>2, FS_AddElement
    <3>4. Cardinality(InShard(t)) <= Capacity
      BY <1>1 DEF WithinCapacity, CacheOK
    <3>5. InShard(s)' = (InShard(t) \ {v}) \cup {b}
      BY <1>8, <2>1
    <3> QED
      BY <1>3, <3>1, <3>3, <3>4, <3>5
  <2>2. CASE s # t
    <3>1. InShard(s)' = InShard(s)
      BY <1>8, <2>2
    <3> QED
      BY <3>1 DEF WithinCapacity, CacheOK
  <2> QED
    BY <2>1, <2>2
<1>14. /\ disk'[v] = Logical(v)
       /\ \A c \in Blocks : c # v => disk'[c] = disk[c]
  BY <1>3, <1>4
<1>15. CleanMatchesDisk'
  <2> SUFFICES ASSUME NEW c \in Cached', c \notin dirty'
               PROVE  cache'[c] = disk'[c]
    BY DEF CleanMatchesDisk
  <2>1. CASE c = b
    <3>1. val = Logical(b)
      BY <1>4, <2>1 DEF AccessArgs
    <3> QED
      BY <1>1, <1>5, <1>6, <1>14, <2>1, <3>1 DEF Logical
  <2>2. CASE c # b
    <3>1. c \in Cached /\ c # v /\ c \notin dirty /\ c \in Blocks
      BY <1>4, <1>7, <2>2 DEF Cached
    <3> QED
      BY <1>5, <1>14, <2>2, <3>1 DEF CleanMatchesDisk, CacheOK
  <2> QED
    BY <2>1, <2>2
<1>16. ASSUME NEW c \in Blocks
       PROVE  Logical(c)' = IF c = b THEN val ELSE Logical(c)
  <2>1. CASE c = b
    BY <1>5, <1>7, <2>1 DEF Logical
  <2>2. CASE c = v
    <3>1. c \notin Cached'
      BY <1>6, <1>7, <2>2
    <3> QED
      BY <1>6, <1>14, <2>2, <3>1 DEF Logical
  <2>3. CASE c # b /\ c # v
    BY <1>5, <1>7, <1>14, <2>3 DEF Logical
  <2> QED
    BY <2>1, <2>2, <2>3
<1>17. WrittenBack({v})
  BY <1>3, <1>4, <1>14 DEF WrittenBack, Written
<1>18. {v} \in SUBSET Blocks
  BY <1>3
<1> QED
  BY <1>11, <1>12, <1>13, <1>15, <1>16, <1>17, <1>18 DEF Effect, CacheOK

\* An access of any kind.
LEMMA AccessEffect ==
    ASSUME CacheTypeOK, CacheOK, NEW b, NEW val, NEW marked,
           AccessArgs(b, val, marked), Access(b, val, marked)
    PROVE  Effect(b, val)
BY HitEffect, LoadEffect, EvictEffect DEF Access

\* A load that fails after the eviction changes no block.
LEMMA LoadErrorEffect ==
    ASSUME CacheTypeOK, CacheOK, NEW b \in Blocks, LoadError(b)
    PROVE  /\ CacheTypeOK' /\ CacheOK'
           /\ \A c \in Blocks : Logical(c)' = Logical(c)
           /\ \E S \in SUBSET Blocks : WrittenBack(S)
<1> USE BlockCacheAssumption
<1> DEFINE t == ShardOf[b]
<1>1. t \in 1..NumShards
  OBVIOUS
<1>2. PICK i \in DOMAIN lru[t] :
        /\ VictimAt(t, i)
        /\ disk' = Written({lru[t][i]} \cap dirty)
        /\ cache' = [cache EXCEPT ![lru[t][i]] = NotCached]
        /\ dirty' = dirty \ {lru[t][i]}
        /\ lru' = [lru EXCEPT ![t] = Without(lru[t], lru[t][i])]
  BY DEF LoadError
<1> DEFINE v == lru[t][i]
           q == Without(lru[t], v)
<1>3. /\ v \in Cached /\ v \in Blocks /\ v \in InShard(t)
      /\ q \in Seq(Blocks)
      /\ Range(q) = InShard(t) \ {v}
      /\ Injective(q)
      /\ Cardinality(InShard(t) \ {v}) = Cardinality(InShard(t)) - 1
      /\ cache[v] = Logical(v)
      /\ Written({v} \cap dirty)[v] = Logical(v)
      /\ \A c \in Blocks : c # v => Written({v} \cap dirty)[c] = disk[c]
  BY <1>1, <1>2, EvictionLeaves
<1>4. /\ disk' = Written({v} \cap dirty)
      /\ cache' = [cache EXCEPT ![v] = NotCached]
      /\ dirty' = dirty \ {v}
      /\ lru' = [lru EXCEPT ![t] = q]
  BY <1>2
<1> HIDE DEF v, q, t
<1>5. \A c \in Blocks : cache'[c] = IF c = v THEN NotCached ELSE cache[c]
  BY <1>3, <1>4 DEF CacheTypeOK
<1>6. Cached' = Cached \ {v}
  BY <1>3, <1>5 DEF Cached
<1>7. /\ InShard(t)' = InShard(t) \ {v}
      /\ \A s : s # t => InShard(s)' = InShard(s)
  BY <1>3, <1>6 DEF InShard
<1>8. ASSUME NEW s \in 1..NumShards
      PROVE  /\ lru'[s] \in Seq(Blocks)
             /\ Range(lru'[s]) = InShard(s)'
             /\ Injective(lru'[s])
  <2>1. CASE s = t
    <3>1. lru'[s] = q
      BY <2>1, <1>4 DEF CacheTypeOK
    <3> QED
      BY <1>3, <1>7, <2>1, <3>1
  <2>2. CASE s # t
    <3>1. lru'[s] = lru[s]
      BY <2>2, <1>4 DEF CacheTypeOK
    <3>2. lru[s] \in Seq(Blocks) /\ Injective(lru[s]) /\ Range(lru[s]) = InShard(s)
      BY DEF CacheTypeOK, CacheOK, DequeListsCached, Injective
    <3> QED
      BY <1>7, <2>2, <3>1, <3>2
  <2> QED
    BY <2>1, <2>2
<1>9. CacheTypeOK'
  <2>1. lru' \in [1..NumShards -> Seq(Blocks)]
    <3>1. lru' = [s \in 1..NumShards |-> lru'[s]]
      BY <1>4 DEF CacheTypeOK
    <3> QED
      BY <3>1, <1>8
  <2>2. cache' \in [Blocks -> Values \cup {NotCached}]
    BY <1>4 DEF CacheTypeOK
  <2>3. dirty' \subseteq Cached'
    BY <1>4, <1>6 DEF CacheTypeOK
  <2>4. disk' \in [Blocks -> Values]
    BY <1>4 DEF Written, CacheTypeOK, Cached
  <2> QED
    BY <2>1, <2>2, <2>3, <2>4 DEF CacheTypeOK
<1>10. DequeListsCached'
  BY <1>8 DEF DequeListsCached, Injective
<1>11. WithinCapacity'
  <2> SUFFICES ASSUME NEW s \in 1..NumShards
               PROVE  Cardinality(InShard(s)') <= Capacity
    BY DEF WithinCapacity
  <2>1. Cardinality(InShard(s)) <= Capacity /\ Cardinality(InShard(s)) \in Nat
    BY ShardFinite DEF WithinCapacity, CacheOK
  <2>2. Cardinality(InShard(s)') = IF s = t THEN Cardinality(InShard(s)) - 1
                                            ELSE Cardinality(InShard(s))
    BY <1>3, <1>7
  <2> QED
    BY <2>1, <2>2
<1>12. /\ disk'[v] = Logical(v)
       /\ \A c \in Blocks : c # v => disk'[c] = disk[c]
  BY <1>3, <1>4
<1>13. CleanMatchesDisk'
  BY <1>4, <1>5, <1>6, <1>12 DEF CleanMatchesDisk, CacheOK, Cached
<1>14. \A c \in Blocks : Logical(c)' = Logical(c)
  BY <1>5, <1>6, <1>12 DEF Logical
<1>15. WrittenBack({v})
  BY <1>3, <1>4, <1>12 DEF WrittenBack, Written
<1>16. {v} \in SUBSET Blocks
  BY <1>3
<1> QED
  BY <1>9, <1>10, <1>11, <1>13, <1>14, <1>15, <1>16 DEF CacheOK

(***************************************************************************)
(* The invariant is inductive.                                             *)
(***************************************************************************)

\* What a step that touches no flush keeps of the flush bookkeeping: the file
\* only receives logical contents, and no block changes its logical contents.
LEMMA QuietStep ==
    ASSUME IInv, CacheTypeOK', CacheOK',
           UNCHANGED <<flushAt, owed>>,
           \A c \in Blocks : Logical(c)' = Logical(c),
           \E S \in SUBSET Blocks : WrittenBack(S)
    PROVE  IInv'
<1>1. FlushTypeOK'
  BY TypeSplit DEF IInv, FlushTypeOK
<1>2. FlushedBehind'
  <2> SUFFICES ASSUME NEW f \in Flushers, NEW b \in Blocks, ShardOf[b] < flushAt[f]
               PROVE  disk'[b] \in owed[f][b]
    BY DEF FlushedBehind
  <2>1. disk[b] \in owed[f][b]
    BY DEF IInv, FlushedBehind
  <2>2. flushAt[f] # 0
    BY BlockCacheAssumption DEF IInv, TypeOK
  <2>3. Logical(b) \in owed[f][b]
    BY <2>2 DEF IInv, OwedCurrent
  <2> QED
    BY <2>1, <2>3 DEF WrittenBack
<1>3. OwedCurrent'
  BY DEF IInv, OwedCurrent
<1>4. TypeOK'
  BY <1>1 DEF TypeOK, CacheTypeOK, FlushTypeOK
<1> QED
  BY <1>2, <1>3, <1>4 DEF IInv

LEMMA ReadStep ==
    ASSUME IInv, NEW b \in Blocks, Read(b)
    PROVE  IInv' /\ Effect(b, Logical(b))
<1>1. CacheTypeOK /\ CacheOK
  BY TypeSplit DEF IInv
<1>2. AccessArgs(b, Logical(b), {})
  BY <1>1 DEF AccessArgs, Logical, CacheTypeOK, Cached
<1>3. Effect(b, Logical(b))
  BY <1>1, <1>2, AccessEffect DEF Read
<1> QED
  BY <1>3, QuietStep DEF Effect, Read

LEMMA UpdateStep ==
    ASSUME IInv, NEW b \in Blocks, NEW v \in Values, Update(b, v)
    PROVE  IInv' /\ Effect(b, v)
<1>1. CacheTypeOK /\ CacheOK /\ FlushTypeOK
  BY TypeSplit DEF IInv
<1>2. Effect(b, v)
  BY <1>1, AccessEffect DEF Update, AccessArgs
<1>3. ASSUME NEW f \in Flushers
      PROVE  owed'[f] = IF flushAt[f] # 0 THEN [owed[f] EXCEPT ![b] = @ \cup {v}]
                                          ELSE owed[f]
  BY DEF Update
<1>4. flushAt' = flushAt
  BY DEF Update
<1>5. FlushTypeOK'
  <2>1. ASSUME NEW f \in Flushers
        PROVE  /\ owed'[f] \in {<<>>} \cup [Blocks -> SUBSET Values]
               /\ flushAt[f] = 0 <=> owed'[f] = <<>>
    <3>1. CASE flushAt[f] = 0
      BY <1>1, <1>3, <3>1 DEF FlushTypeOK
    <3>2. CASE flushAt[f] # 0
      <4>1. owed[f] \in [Blocks -> SUBSET Values]
        BY <1>1, <3>2 DEF FlushTypeOK
      <4>2. owed'[f] \in [Blocks -> SUBSET Values]
        BY <1>3, <3>2, <4>1
      <4> QED
        BY <3>2, <4>2, NothingOwed
    <3> QED
      BY <3>1, <3>2
  <2>2. owed' = [f \in Flushers |-> owed'[f]]
    BY DEF Update
  <2> QED
    BY <1>1, <1>4, <2>1, <2>2 DEF FlushTypeOK
<1>6. OwedCurrent'
  <2> SUFFICES ASSUME NEW f \in Flushers, NEW c \in Blocks, flushAt[f] # 0
               PROVE  Logical(c)' \in owed'[f][c]
    BY <1>4 DEF OwedCurrent
  <2>1. owed[f] \in [Blocks -> SUBSET Values] /\ Logical(c) \in owed[f][c]
    BY <1>1 DEF FlushTypeOK, IInv, OwedCurrent
  <2> QED
    BY <1>2, <1>3, <2>1 DEF Effect
<1>7. FlushedBehind'
  <2> SUFFICES ASSUME NEW f \in Flushers, NEW c \in Blocks, ShardOf[c] < flushAt[f]
               PROVE  disk'[c] \in owed'[f][c]
    BY <1>4 DEF FlushedBehind
  <2>1. flushAt[f] # 0
    BY BlockCacheAssumption, <1>1 DEF FlushTypeOK
  <2>2. /\ owed[f] \in [Blocks -> SUBSET Values]
        /\ Logical(c) \in owed[f][c]
        /\ disk[c] \in owed[f][c]
    BY <1>1, <2>1 DEF FlushTypeOK, IInv, OwedCurrent, FlushedBehind
  <2>3. disk'[c] \in {Logical(c), disk[c]}
    BY <1>2 DEF Effect, WrittenBack
  <2> QED
    BY <1>3, <2>1, <2>2, <2>3
<1>8. CacheTypeOK' /\ CacheOK'
  BY <1>2 DEF Effect
<1>9. TypeOK'
  BY <1>5, <1>8 DEF TypeOK, CacheTypeOK, FlushTypeOK
<1> QED
  BY <1>2, <1>6, <1>7, <1>8, <1>9 DEF IInv

\* A flush writes dirty blocks, whose cached data is their logical contents.
LEMMA WrittenIsLogical ==
    ASSUME CacheTypeOK, NEW S \in SUBSET dirty
    PROVE  /\ S \in SUBSET Blocks
           /\ Written(S) = [c \in Blocks |-> IF c \in S THEN Logical(c) ELSE disk[c]]
           /\ Written(S) \in [Blocks -> Values]
BY DEF CacheTypeOK, Written, Logical, Cached

LEMMA FlushShardStep ==
    ASSUME IInv, NEW f \in Flushers, FlushShard(f)
    PROVE  /\ IInv'
           /\ \A c \in Blocks : Logical(c)' = Logical(c)
           /\ \E S \in SUBSET Blocks : WrittenBack(S)
<1> USE BlockCacheAssumption
<1> DEFINE D == DirtyIn(flushAt[f])
<1>1. CacheTypeOK /\ CacheOK /\ FlushTypeOK
  BY TypeSplit DEF IInv
<1>2. D \in SUBSET dirty
  BY DEF DirtyIn
<1>3. D \in SUBSET Blocks /\ WrittenBack(D) /\ disk' \in [Blocks -> Values]
  BY <1>1, <1>2, WrittenIsLogical DEF FlushShard, WrittenBack
<1>4. /\ cache' = cache /\ lru' = lru /\ Cached' = Cached
      /\ dirty' = dirty \ D
      /\ owed' = owed
  BY DEF FlushShard, Cached
<1>5. \A c \in Blocks : Logical(c)' = Logical(c)
  BY <1>3, <1>4 DEF Logical, WrittenBack
<1>6. \A s : InShard(s)' = InShard(s)
  BY <1>4 DEF InShard
<1>7. CleanMatchesDisk'
  <2> SUFFICES ASSUME NEW c \in Cached, c \notin dirty \ D
               PROVE  cache[c] = disk'[c]
    BY <1>4 DEF CleanMatchesDisk
  <2>1. c \in Blocks /\ Logical(c) = cache[c]
    BY DEF Cached, Logical
  <2>2. c \notin D => cache[c] = disk[c]
    BY <1>1 DEF CacheOK, CleanMatchesDisk
  <2> QED
    BY <1>3, <2>1, <2>2 DEF WrittenBack
<1>8. DequeListsCached' /\ WithinCapacity'
  <2>1. DequeListsCached'
    BY <1>1, <1>4, <1>6 DEF CacheOK, DequeListsCached
  <2>2. WithinCapacity'
    BY <1>1, <1>6 DEF CacheOK, WithinCapacity
  <2> QED
    BY <2>1, <2>2
<1>9. CacheTypeOK'
  BY <1>1, <1>3, <1>4 DEF CacheTypeOK
<1>10. flushAt' = [flushAt EXCEPT ![f] = @ + 1] /\ flushAt[f] \in 1..NumShards
  BY DEF FlushShard
<1>11. \A g \in Flushers : flushAt'[g] = IF g = f THEN flushAt[f] + 1 ELSE flushAt[g]
  BY <1>1, <1>10 DEF FlushTypeOK
<1>12. FlushTypeOK'
  <2>1. flushAt' \in [Flushers -> 0..(NumShards + 1)]
    BY <1>1, <1>10 DEF FlushTypeOK
  <2>2. \A g \in Flushers : flushAt'[g] = 0 <=> flushAt[g] = 0
    BY <1>1, <1>10, <1>11 DEF FlushTypeOK
  <2> QED
    BY <1>1, <1>4, <2>1, <2>2 DEF FlushTypeOK
<1>13. OwedCurrent'
  BY <1>4, <1>5, <1>10, <1>11 DEF IInv, OwedCurrent
<1>14. FlushedBehind'
  <2> SUFFICES ASSUME NEW g \in Flushers, NEW c \in Blocks, ShardOf[c] < flushAt'[g]
               PROVE  disk'[c] \in owed[g][c]
    BY <1>4 DEF FlushedBehind
  <2>1. ShardOf[c] \in 1..NumShards /\ flushAt[g] \in 0..(NumShards + 1)
    BY <1>1 DEF FlushTypeOK
  <2>2. flushAt[g] # 0
    BY <1>10, <1>11, <2>1
  <2>3. Logical(c) \in owed[g][c]
    BY <2>2 DEF IInv, OwedCurrent
  <2>4. disk'[c] = IF c \in D THEN Logical(c) ELSE disk[c]
    BY <1>3 DEF WrittenBack
  <2>5. CASE ShardOf[c] < flushAt[g]
    BY <2>3, <2>4, <2>5 DEF IInv, FlushedBehind
  <2>6. CASE ~(ShardOf[c] < flushAt[g])
    <3>1. g = f /\ ShardOf[c] = flushAt[f]
      BY <1>10, <1>11, <2>1, <2>6
    <3>2. c \notin D => disk[c] = Logical(c)
      BY <1>1, <3>1 DEF DirtyIn, Logical, CacheOK, CleanMatchesDisk
    <3> QED
      BY <2>3, <2>4, <3>2
  <2> QED
    BY <2>5, <2>6
<1> HIDE DEF D
<1>15. TypeOK'
  BY <1>9, <1>12 DEF TypeOK, CacheTypeOK, FlushTypeOK
<1> QED
  BY <1>3, <1>5, <1>7, <1>8, <1>13, <1>14, <1>15 DEF IInv, CacheOK

LEMMA FlushErrorStep ==
    ASSUME IInv, NEW f \in Flushers, FlushError(f)
    PROVE  /\ IInv'
           /\ \A c \in Blocks : Logical(c)' = Logical(c)
           /\ \E S \in SUBSET Blocks : WrittenBack(S)
<1> USE BlockCacheAssumption
<1>1. CacheTypeOK /\ CacheOK /\ FlushTypeOK
  BY TypeSplit DEF IInv
<1>2. PICK S \in SUBSET DirtyIn(flushAt[f]) : disk' = Written(S)
  BY DEF FlushError
<1>3. S \in SUBSET dirty
  BY DEF DirtyIn
<1>4. S \in SUBSET Blocks /\ WrittenBack(S) /\ disk' \in [Blocks -> Values]
  BY <1>1, <1>2, <1>3, WrittenIsLogical DEF WrittenBack
<1>5. cache' = cache /\ lru' = lru /\ Cached' = Cached /\ dirty' = dirty
  BY DEF FlushError, Cached
<1>6. \A c \in Blocks : Logical(c)' = Logical(c)
  BY <1>4, <1>5 DEF Logical, WrittenBack
<1>7. \A s : InShard(s)' = InShard(s)
  BY <1>5 DEF InShard
<1>8. CleanMatchesDisk'
  BY <1>1, <1>3, <1>4, <1>5 DEF CacheOK, CleanMatchesDisk, WrittenBack, Cached
<1>9. DequeListsCached'
  BY <1>1, <1>5, <1>7 DEF CacheOK, DequeListsCached
<1>10. WithinCapacity'
  BY <1>1, <1>7 DEF CacheOK, WithinCapacity
<1>11. CacheTypeOK'
  BY <1>1, <1>4, <1>5 DEF CacheTypeOK
<1>12. /\ \A g \in Flushers : flushAt'[g] = IF g = f THEN 0 ELSE flushAt[g]
       /\ \A g \in Flushers : owed'[g] = IF g = f THEN <<>> ELSE owed[g]
  BY <1>1 DEF FlushError, FlushTypeOK
<1>13. FlushTypeOK'
  <2>1. /\ flushAt' \in [Flushers -> 0..(NumShards + 1)]
        /\ owed' \in [Flushers -> {<<>>} \cup [Blocks -> SUBSET Values]]
    BY <1>1 DEF FlushError, FlushTypeOK
  <2> QED
    BY <1>1, <1>12, <2>1 DEF FlushTypeOK
<1>14. OwedCurrent'
  BY <1>6, <1>12 DEF IInv, OwedCurrent
<1>15. FlushedBehind'
  <2> SUFFICES ASSUME NEW g \in Flushers, NEW c \in Blocks, ShardOf[c] < flushAt'[g]
               PROVE  disk'[c] \in owed'[g][c]
    BY DEF FlushedBehind
  <2>1. g # f /\ flushAt'[g] = flushAt[g] /\ owed'[g] = owed[g]
    BY <1>12
  <2>2. flushAt[g] # 0
    BY <1>1, <2>1 DEF FlushTypeOK
  <2>3. Logical(c) \in owed[g][c] /\ disk[c] \in owed[g][c]
    BY <2>1, <2>2 DEF IInv, OwedCurrent, FlushedBehind
  <2> QED
    BY <1>4, <2>1, <2>3 DEF WrittenBack
<1>16. TypeOK'
  BY <1>11, <1>13 DEF TypeOK, CacheTypeOK, FlushTypeOK
<1> QED
  BY <1>4, <1>6, <1>8, <1>9, <1>10, <1>14, <1>15, <1>16 DEF IInv, CacheOK

LEMMA FlushBeginStep ==
    ASSUME IInv, NEW f \in Flushers, FlushBegin(f)
    PROVE  IInv'
<1> USE BlockCacheAssumption
<1>1. CacheTypeOK /\ CacheOK /\ FlushTypeOK
  BY TypeSplit DEF IInv
<1>2. UNCHANGED <<disk, cache, dirty, lru>>
  BY DEF FlushBegin
<1>3. CacheTypeOK' /\ CacheOK'
  BY <1>1, <1>2 DEF CacheTypeOK, CacheOK, CleanMatchesDisk, DequeListsCached,
                    WithinCapacity, InShard, Cached
<1>4. \A c \in Blocks : Logical(c)' = Logical(c) /\ Logical(c) \in Values
  BY <1>1, <1>2 DEF Logical, Cached, CacheTypeOK
<1>5. /\ \A g \in Flushers : flushAt'[g] = IF g = f THEN 1 ELSE flushAt[g]
      /\ \A g \in Flushers : owed'[g] = IF g = f THEN [c \in Blocks |-> {Logical(c)}]
                                                 ELSE owed[g]
  BY <1>1 DEF FlushBegin, FlushTypeOK
<1>6. FlushTypeOK'
  <2> DEFINE new == [c \in Blocks |-> {Logical(c)}]
  <2>1. flushAt' \in [Flushers -> 0..(NumShards + 1)]
    BY <1>1 DEF FlushBegin, FlushTypeOK
  <2>2. new \in [Blocks -> SUBSET Values] /\ new # <<>>
    BY <1>4, NothingOwed
  <2>3. owed' = [owed EXCEPT ![f] = new]
    BY DEF FlushBegin
  <2> HIDE DEF new
  <2>4. owed' \in [Flushers -> {<<>>} \cup [Blocks -> SUBSET Values]]
    BY <1>1, <2>2, <2>3 DEF FlushTypeOK
  <2>5. \A g \in Flushers : owed'[g] = IF g = f THEN new ELSE owed[g]
    BY <1>1, <2>3 DEF FlushTypeOK
  <2> QED
    BY <1>1, <1>5, <2>1, <2>2, <2>4, <2>5 DEF FlushTypeOK
<1>7. OwedCurrent'
  <2> SUFFICES ASSUME NEW g \in Flushers, NEW c \in Blocks, flushAt'[g] # 0
               PROVE  Logical(c) \in owed'[g][c]
    BY <1>4 DEF OwedCurrent
  <2>1. CASE g = f
    BY <1>5, <2>1
  <2>2. CASE g # f
    BY <1>5, <2>2 DEF IInv, OwedCurrent
  <2> QED
    BY <2>1, <2>2
<1>8. FlushedBehind'
  <2> SUFFICES ASSUME NEW g \in Flushers, NEW c \in Blocks, ShardOf[c] < flushAt'[g]
               PROVE  disk[c] \in owed'[g][c]
    BY <1>2 DEF FlushedBehind
  <2>1. g # f
    BY <1>5
  <2> QED
    BY <1>5, <2>1 DEF IInv, FlushedBehind
<1>9. TypeOK'
  BY <1>3, <1>6 DEF TypeOK, CacheTypeOK, FlushTypeOK
<1> QED
  BY <1>3, <1>7, <1>8, <1>9 DEF IInv

LEMMA FlushEndStep ==
    ASSUME IInv, NEW f \in Flushers, FlushEnd(f)
    PROVE  IInv'
<1> USE BlockCacheAssumption
<1>1. CacheTypeOK /\ CacheOK /\ FlushTypeOK
  BY TypeSplit DEF IInv
<1>2. UNCHANGED <<disk, cache, dirty, lru>>
  BY DEF FlushEnd
<1>3. CacheTypeOK' /\ CacheOK'
  BY <1>1, <1>2 DEF CacheTypeOK, CacheOK, CleanMatchesDisk, DequeListsCached,
                    WithinCapacity, InShard, Cached
<1>4. \A c \in Blocks : Logical(c)' = Logical(c)
  BY <1>2 DEF Logical, Cached
<1>5. /\ \A g \in Flushers : flushAt'[g] = IF g = f THEN 0 ELSE flushAt[g]
      /\ \A g \in Flushers : owed'[g] = IF g = f THEN <<>> ELSE owed[g]
  BY <1>1 DEF FlushEnd, FlushTypeOK
<1>6. FlushTypeOK'
  <2>1. /\ flushAt' \in [Flushers -> 0..(NumShards + 1)]
        /\ owed' \in [Flushers -> {<<>>} \cup [Blocks -> SUBSET Values]]
    BY <1>1 DEF FlushEnd, FlushTypeOK
  <2> QED
    BY <1>1, <1>5, <2>1 DEF FlushTypeOK
<1>7. OwedCurrent'
  BY <1>4, <1>5 DEF IInv, OwedCurrent
<1>8. FlushedBehind'
  <2> SUFFICES ASSUME NEW g \in Flushers, NEW c \in Blocks, ShardOf[c] < flushAt'[g]
               PROVE  disk[c] \in owed'[g][c]
    BY <1>2 DEF FlushedBehind
  <2>1. g # f
    BY <1>5
  <2> QED
    BY <1>5, <2>1 DEF IInv, FlushedBehind
<1>9. TypeOK'
  BY <1>3, <1>6 DEF TypeOK, CacheTypeOK, FlushTypeOK
<1> QED
  BY <1>3, <1>7, <1>8, <1>9 DEF IInv

\* A crash leaves an empty cache, and nothing to flush.
LEMMA CrashStep ==
    ASSUME IInv, Crash
    PROVE  IInv'
<1> USE BlockCacheAssumption
<1>1. CacheTypeOK'
  <2>1. <<>> \in Seq(Blocks)
    OBVIOUS
  <2> QED
    BY <2>1, TypeSplit DEF IInv, CacheTypeOK, Crash, Cached
<1>2. Cached' = {} /\ \A s : InShard(s)' = {}
  BY DEF Crash, Cached, InShard
<1>3. CacheOK'
  <2>1. DequeListsCached'
    BY <1>2 DEF DequeListsCached, Crash, Range
  <2>2. WithinCapacity'
    BY <1>2, FS_EmptySet DEF WithinCapacity
  <2>3. CleanMatchesDisk'
    BY <1>2 DEF CleanMatchesDisk
  <2> QED
    BY <2>1, <2>2, <2>3 DEF CacheOK
<1>4. FlushTypeOK' /\ FlushedBehind' /\ OwedCurrent'
  BY DEF FlushTypeOK, FlushedBehind, OwedCurrent, Crash
<1>5. TypeOK'
  BY <1>1, <1>4 DEF TypeOK, CacheTypeOK, FlushTypeOK
<1> QED
  BY <1>3, <1>4, <1>5 DEF IInv

LEMMA InitIInv == Init => IInv
<1> SUFFICES ASSUME Init PROVE IInv
  OBVIOUS
<1> USE BlockCacheAssumption
<1>1. CacheTypeOK
  <2>1. <<>> \in Seq(Blocks)
    OBVIOUS
  <2> QED
    BY <2>1 DEF Init, CacheTypeOK, Cached
<1>2. Cached = {} /\ \A s : InShard(s) = {}
  BY DEF Init, Cached, InShard
<1>3. CacheOK
  <2>1. DequeListsCached
    BY <1>2 DEF DequeListsCached, Init, Range
  <2>2. WithinCapacity
    BY <1>2, FS_EmptySet DEF WithinCapacity
  <2>3. CleanMatchesDisk
    BY <1>2 DEF CleanMatchesDisk
  <2> QED
    BY <2>1, <2>2, <2>3 DEF CacheOK
<1>4. FlushTypeOK /\ FlushedBehind /\ OwedCurrent
  BY DEF FlushTypeOK, FlushedBehind, OwedCurrent, Init
<1>5. TypeOK
  BY <1>1, <1>4 DEF TypeOK, CacheTypeOK, FlushTypeOK
<1> QED
  BY <1>3, <1>4, <1>5 DEF IInv

LEMMA NextIInv == IInv /\ [Next]_vars => IInv'
<1> SUFFICES ASSUME IInv, [Next]_vars PROVE IInv'
  OBVIOUS
<1>1. ASSUME NEW b \in Blocks, Read(b) PROVE IInv'
  BY <1>1, ReadStep
<1>2. ASSUME NEW b \in Blocks, LoadError(b) PROVE IInv'
  BY <1>2, TypeSplit, LoadErrorEffect, QuietStep DEF IInv, LoadError
<1>3. ASSUME NEW b \in Blocks, NEW v \in Values, Update(b, v) PROVE IInv'
  BY <1>3, UpdateStep
<1>4. ASSUME NEW f \in Flushers, FlushBegin(f) PROVE IInv'
  BY <1>4, FlushBeginStep
<1>5. ASSUME NEW f \in Flushers, FlushShard(f) PROVE IInv'
  BY <1>5, FlushShardStep
<1>6. ASSUME NEW f \in Flushers, FlushEnd(f) PROVE IInv'
  BY <1>6, FlushEndStep
<1>7. ASSUME NEW f \in Flushers, FlushError(f) PROVE IInv'
  BY <1>7, FlushErrorStep
<1>8. CASE Crash
  BY <1>8, CrashStep
<1>9. CASE UNCHANGED vars
  BY <1>9 DEF vars, IInv, TypeOK, CacheOK, FlushedBehind, OwedCurrent, CleanMatchesDisk,
              DequeListsCached, WithinCapacity, InShard, Cached, Logical
<1> QED
  BY <1>1, <1>2, <1>3, <1>4, <1>5, <1>6, <1>7, <1>8, <1>9 DEF Next

\* Every reachable state satisfies the inductive invariant.
THEOREM Invariance == Spec => []IInv
BY InitIInv, NextIInv, PTL DEF Spec

\* No reachable state drops a write when it drops a clean block: a cached block
\* without the dirty flag equals the data file.
THEOREM CleanBlocksMatchDisk == Spec => []CleanMatchesDisk
<1>1. IInv => CleanMatchesDisk
  BY DEF IInv, CacheOK
<1> QED
  BY <1>1, Invariance, PTL

\* The types of the cache hold throughout, for any number of blocks and shards.
THEOREM TypeCorrect == Spec => []TypeOK
<1>1. IInv => TypeOK
  BY DEF IInv
<1> QED
  BY <1>1, Invariance, PTL

\* Map and deque never drift apart and no shard outgrows its capacity.
THEOREM CacheBounded == Spec => [](DequeListsCached /\ WithinCapacity)
<1>1. IInv => DequeListsCached /\ WithinCapacity
  BY DEF IInv, CacheOK
<1> QED
  BY <1>1, Invariance, PTL

\* A flush leaves nothing older than itself behind, however many accesses,
\* evictions and other flushes run beside it.
THEOREM FlushIsDurable == Spec => []FlushedBehind
<1>1. IInv => FlushedBehind
  BY DEF IInv
<1> QED
  BY <1>1, Invariance, PTL

(***************************************************************************)
(* The refinement: initial states map to initial states, and every step of *)
(* the cache is a step of the flat store or leaves it as it was.           *)
(***************************************************************************)
StoreMem == [b \in Blocks |-> Logical(b)]

LEMMA RefineInit == Init => Store!Init
BY DEF Init, Store!Init, Logical, Cached

\* Writing some blocks back is what the store calls settling.
LEMMA RefineSettling ==
    ASSUME disk' \in [Blocks -> Values], NEW S \in SUBSET Blocks, WrittenBack(S)
    PROVE  Store!Settling
BY DEF WrittenBack, Store!Settling

\* What an access does to the contents of the store.
LEMMA RefineAccess ==
    ASSUME NEW b \in Blocks, NEW val, Effect(b, val)
    PROVE  /\ StoreMem' = [StoreMem EXCEPT ![b] = val]
           /\ Store!Settling
<1>1. \A c \in Blocks : Logical(c)' = IF c = b THEN val ELSE Logical(c)
  BY DEF Effect
<1>2. StoreMem' = [StoreMem EXCEPT ![b] = val]
  BY <1>1 DEF StoreMem
<1>3. PICK S \in SUBSET Blocks : WrittenBack(S)
  BY DEF Effect
<1>4. disk' \in [Blocks -> Values]
  BY DEF Effect, CacheTypeOK
<1>5. Store!Settling
  BY <1>3, <1>4, RefineSettling
<1> QED
  BY <1>2, <1>5

LEMMA RefineNext == IInv /\ [Next]_vars => [Store!Next]_Store!vars
<1> SUFFICES ASSUME IInv, [Next]_vars PROVE [Store!Next]_Store!vars
  OBVIOUS
<1> USE BlockCacheAssumption
<1>1. CacheTypeOK /\ CacheOK /\ FlushTypeOK
  BY TypeSplit DEF IInv
<1>2. \A f \in Flushers : Store!Active(f) <=> flushAt[f] # 0
  BY <1>1 DEF FlushTypeOK, Store!Active
<1>3. disk' \in [Blocks -> Values]
  <2>1. IInv'
    BY NextIInv
  <2> QED
    BY <2>1 DEF IInv, TypeOK
<1>4. ASSUME NEW b \in Blocks, Read(b) PROVE Store!Next
  <2>1. Effect(b, Logical(b))
    BY <1>4, ReadStep
  <2>2. StoreMem' = StoreMem
    BY <2>1, RefineAccess DEF StoreMem
  <2>3. Store!Settling
    BY <2>1, RefineAccess
  <2>4. Store!Read(b)
    BY <1>4, <2>2, <2>3 DEF Store!Read, Read, StoreMem
  <2> QED
    BY <2>4 DEF Store!Next
<1>5. ASSUME NEW b \in Blocks, LoadError(b) PROVE Store!Next
  <2>1. /\ \A c \in Blocks : Logical(c)' = Logical(c)
        /\ \E S \in SUBSET Blocks : WrittenBack(S)
    BY <1>1, <1>5, LoadErrorEffect
  <2>2. PICK S \in SUBSET Blocks : WrittenBack(S)
    BY <2>1
  <2>3. Store!Settling
    BY <1>3, <2>2, RefineSettling
  <2>4. StoreMem' = StoreMem
    BY <2>1 DEF StoreMem
  <2>5. Store!Settle
    BY <1>5, <2>3, <2>4 DEF Store!Settle, LoadError, StoreMem
  <2> QED
    BY <2>5 DEF Store!Next
<1>6. ASSUME NEW b \in Blocks, NEW v \in Values, Update(b, v) PROVE Store!Next
  <2>1. Effect(b, v)
    BY <1>6, UpdateStep
  <2>2. StoreMem' = [StoreMem EXCEPT ![b] = v]
    BY <2>1, RefineAccess
  <2>3. Store!Settling
    BY <2>1, RefineAccess
  <2>4. owed' = [f \in Flushers |-> IF Store!Active(f) THEN [owed[f] EXCEPT ![b] = @ \cup {v}]
                                                       ELSE owed[f]]
    BY <1>2, <1>6 DEF Update
  <2>5. Store!Write(b, v)
    BY <1>6, <2>2, <2>3, <2>4 DEF Store!Write, Update, StoreMem
  <2> QED
    BY <2>5 DEF Store!Next
<1>7. ASSUME NEW f \in Flushers, FlushBegin(f) PROVE Store!Next
  <2>1. StoreMem' = StoreMem
    BY <1>7 DEF FlushBegin, StoreMem, Logical, Cached
  <2>2. [c \in Blocks |-> {StoreMem[c]}] = [c \in Blocks |-> {Logical(c)}]
    BY DEF StoreMem
  <2>3. Store!FlushBegin(f)
    BY <1>2, <1>7, <2>1, <2>2 DEF FlushBegin, Store!FlushBegin, StoreMem
  <2> QED
    BY <2>3 DEF Store!Next
<1>8. ASSUME NEW f \in Flushers, FlushShard(f) PROVE Store!Next
  <2>1. /\ \A c \in Blocks : Logical(c)' = Logical(c)
        /\ \E S \in SUBSET Blocks : WrittenBack(S)
    BY <1>8, FlushShardStep
  <2>2. PICK S \in SUBSET Blocks : WrittenBack(S)
    BY <2>1
  <2>3. Store!Settling
    BY <1>3, <2>2, RefineSettling
  <2>4. StoreMem' = StoreMem
    BY <2>1 DEF StoreMem
  <2>5. Store!Settle
    BY <1>8, <2>3, <2>4 DEF Store!Settle, FlushShard, StoreMem
  <2> QED
    BY <2>5 DEF Store!Next
<1>9. ASSUME NEW f \in Flushers, FlushEnd(f) PROVE Store!Next
  <2>1. StoreMem' = StoreMem
    BY <1>9 DEF FlushEnd, StoreMem, Logical, Cached
  <2>2. ASSUME NEW b \in Blocks
        PROVE  disk[b] \in owed[f][b]
    <3>1. ShardOf[b] < flushAt[f]
      BY <1>9 DEF FlushEnd
    <3> QED
      BY <3>1 DEF IInv, FlushedBehind
  <2>3. Store!Active(f)
    BY <1>2, <1>9 DEF FlushEnd
  <2>4. Store!FlushEnd(f)
    BY <1>9, <2>1, <2>2, <2>3 DEF FlushEnd, Store!FlushEnd, StoreMem
  <2> QED
    BY <2>4 DEF Store!Next
<1>10. ASSUME NEW f \in Flushers, FlushError(f) PROVE Store!Next
  <2>1. /\ \A c \in Blocks : Logical(c)' = Logical(c)
        /\ \E S \in SUBSET Blocks : WrittenBack(S)
    BY <1>10, FlushErrorStep
  <2>2. PICK S \in SUBSET Blocks : WrittenBack(S)
    BY <2>1
  <2>3. Store!Active(f)
    BY <1>2, <1>10 DEF FlushError
  <2>4. Store!Settling
    BY <1>3, <2>2, RefineSettling
  <2>5. StoreMem' = StoreMem
    BY <2>1 DEF StoreMem
  <2>6. Store!FlushError(f)
    BY <1>10, <2>3, <2>4, <2>5 DEF Store!FlushError, FlushError, StoreMem
  <2> QED
    BY <2>6 DEF Store!Next
<1>11. CASE Crash
  <2>1. StoreMem' = disk
    BY <1>1, <1>11 DEF Crash, StoreMem, Logical, Cached, CacheTypeOK
  <2>2. Store!Crash
    BY <1>11, <2>1 DEF Crash, Store!Crash, StoreMem
  <2> QED
    BY <2>2 DEF Store!Next
<1>12. CASE UNCHANGED vars
  BY <1>12 DEF vars, Store!vars, Logical, Cached
<1> QED
  BY <1>4, <1>5, <1>6, <1>7, <1>8, <1>9, <1>10, <1>11, <1>12 DEF Next

\* The cache implements the flat durable array, for every number of blocks,
\* shards and flushes and every capacity: no program above it can tell that
\* blocks are cached, evicted or flushed shard by shard.
THEOREM CacheImplementsStore == Spec => ImplementsStore
<1>1. Init => Store!Init
  BY RefineInit
<1>2. IInv /\ [Next]_vars => [Store!Next]_Store!vars
  BY RefineNext
<1> QED
  BY <1>1, <1>2, Invariance, PTL DEF Spec, Store!Spec, ImplementsStore
=============================================================================
