----------------------------- MODULE RedoLogProofs -----------------------------
(***************************************************************************)
(* Proofs about the write-ahead log, for any number of appending threads,  *)
(* operations and failures: its types, that rotation and renewal only      *)
(* delete records whose operations are in the data file, and, without      *)
(* imports and failing writes, that nothing given to the log is dropped    *)
(* and that it stands there in the order each thread wrote it; with one    *)
(* thread that appends and imports, that what it is told durable survives. *)
(***************************************************************************)
EXTENDS RedoLog, SequenceTheorems, WellFoundedInduction, TLAPS

-----------------------------------------------------------------------------
(***************************************************************************)
(* A set of numbers has a least element.                                   *)
(***************************************************************************)
LEMMA MinimalElement ==
    ASSUME NEW R, NEW S, NEW T, T \subseteq S, T # {}, IsWellFoundedOn(R, S)
    PROVE  \E n \in T : \A m \in T : ~(<<m, n>> \in R)
BY WFMin, Zenon

LEMMA LeastBy ==
    ASSUME NEW R, NEW T \in SUBSET Nat, T # {}, IsWellFoundedOn(R, Nat),
           \A m, n \in Nat : m < n => <<m, n>> \in R
    PROVE  \E n \in T : \A m \in T : n <= m
<1>1. T \subseteq Nat
  OBVIOUS
<1>2. PICK n \in T : \A m \in T : ~(<<m, n>> \in R)
  BY <1>1, MinimalElement, Zenon
<1>3. ASSUME NEW m \in T PROVE n <= m
  <2>1. m \in Nat /\ n \in Nat
    OBVIOUS
  <2>2. ~(m < n)
    BY <1>2, <2>1, Zenon
  <2>. QED  BY <2>1, <2>2
<1>. QED  BY <1>3

LEMMA LeastNumber ==
    ASSUME NEW T \in SUBSET Nat, T # {}
    PROVE  \E n \in T : \A m \in T : n <= m
<1>1. \A m, n \in Nat : m < n => <<m, n>> \in OpToRel(<, Nat)
  BY DEF OpToRel
<1>. QED  BY <1>1, NatLessThanWellFounded, LeastBy, Zenon

-----------------------------------------------------------------------------
(***************************************************************************)
(* Order inside sequences.  A record comes before another unless both are  *)
(* of one thread and the wrong way round.                                  *)
(***************************************************************************)
Precedes(r, q) == Torn \notin {r, q} /\ r[1] = q[1] => r[2] < q[2]

Before(s, t) == \A r \in Range(s), q \in Range(t) : Precedes(r, q)

Increasing(s) == \A i, j \in DOMAIN s : i < j => Precedes(s[i], s[j])

LEMMA InRange ==
    ASSUME NEW S, NEW s \in Seq(S)
    PROVE  /\ \A i \in 1..Len(s) : s[i] \in Range(s)
           /\ \A r \in Range(s) : \E i \in 1..Len(s) : r = s[i]
           /\ Range(s) \subseteq S
BY DEF Range

LEMMA RangeConcat ==
    ASSUME NEW S, NEW s \in Seq(S), NEW t \in Seq(S)
    PROVE  Range(s \o t) = Range(s) \cup Range(t) /\ s \o t \in Seq(S)
<1>1. \A i \in 1..Len(s) : (s \o t)[i] = s[i]
  OBVIOUS
<1>2. \A j \in 1..Len(t) : (s \o t)[Len(s) + j] = t[j] /\ Len(s) + j \in 1..Len(s \o t)
  OBVIOUS
<1>3. ASSUME NEW i \in 1..Len(s \o t) PROVE (s \o t)[i] \in Range(s) \cup Range(t)
  <2>1. CASE i <= Len(s)
    BY <1>1, <2>1 DEF Range
  <2>2. CASE i > Len(s)
    <3>1. i - Len(s) \in 1..Len(t)
      BY <2>2
    <3>. QED  BY <1>2, <3>1 DEF Range
  <2>. QED  BY <2>1, <2>2
<1>4. Range(s \o t) \subseteq Range(s) \cup Range(t)
  BY <1>3 DEF Range
<1>5. Range(s) \subseteq Range(s \o t)
  <2>1. \A i \in 1..Len(s) : i \in 1..Len(s \o t)
    OBVIOUS
  <2>. QED  BY <1>1, <2>1 DEF Range
<1>6. Range(t) \subseteq Range(s \o t)
  <2>1. \A k \in 1..Len(s \o t) : (s \o t)[k] \in Range(s \o t)
    <3>1. s \o t \in Seq(S)
      OBVIOUS
    <3>. QED  BY <3>1, InRange
  <2>2. \A j \in 1..Len(t) : t[j] \in Range(s \o t)
    BY <1>2, <2>1
  <2>. QED  BY <2>2, InRange
<1>. QED  BY <1>4, <1>5, <1>6

LEMMA IncreasingConcat ==
    ASSUME NEW S, NEW s \in Seq(S), NEW t \in Seq(S), Increasing(s), Increasing(t), Before(s, t)
    PROVE  Increasing(s \o t)
<1>. SUFFICES ASSUME NEW i \in 1..Len(s \o t), NEW j \in 1..Len(s \o t), i < j
              PROVE  Precedes((s \o t)[i], (s \o t)[j])
  BY DEF Increasing
<1>1. Len(s \o t) = Len(s) + Len(t) /\ Len(s) \in Nat /\ Len(t) \in Nat
  OBVIOUS
<1>2. CASE j <= Len(s)
  BY <1>2 DEF Increasing
<1>3. CASE i > Len(s)
  <2>1. i - Len(s) \in 1..Len(t) /\ j - Len(s) \in 1..Len(t) /\ i - Len(s) < j - Len(s)
    BY <1>1, <1>3
  <2>2. (s \o t)[i] = t[i - Len(s)] /\ (s \o t)[j] = t[j - Len(s)]
    BY <1>1, <1>3
  <2>. QED  BY <2>1, <2>2 DEF Increasing
<1>4. CASE i <= Len(s) /\ j > Len(s)
  <2>1. j - Len(s) \in 1..Len(t) /\ (s \o t)[i] = s[i] /\ (s \o t)[j] = t[j - Len(s)]
    BY <1>1, <1>4
  <2>. QED  BY <1>4, <2>1 DEF Before, Range
<1>. QED  BY <1>1, <1>2, <1>3, <1>4

-----------------------------------------------------------------------------
(***************************************************************************)
(* Concatenation of a sequence of sequences.                               *)
(***************************************************************************)
Join(seqs, f, n) == f = [i \in 1..n |-> IF i = 1 THEN seqs[i] ELSE f[i - 1] \o seqs[i]]

LEMMA JoinExists ==
    ASSUME NEW seqs, NEW n \in Nat
    PROVE  \E f : Join(seqs, f, n)
<1>. DEFINE Bad == {m \in Nat : ~\E f : Join(seqs, f, m)}
<1>1. ASSUME Bad # {} PROVE FALSE
  <2>1. PICK m \in Bad : \A k \in Bad : m <= k
    BY <1>1, LeastNumber
  <2>2. CASE m = 0
    <3>1. Join(seqs, [i \in 1..0 |-> {}], 0)
      BY DEF Join
    <3>. QED  BY <2>1, <2>2, <3>1
  <2>3. CASE m # 0
    <3>1. m - 1 \in Nat /\ m - 1 \notin Bad
      BY <2>1, <2>3
    <3>2. PICK f : Join(seqs, f, m - 1)
      BY <3>1
    <3>. DEFINE g == [i \in 1..m |-> IF i = m THEN IF m = 1 THEN seqs[1] ELSE f[m - 1] \o seqs[m] ELSE f[i]]
    <3>3. \A i \in 1..(m - 1) : f[i] = IF i = 1 THEN seqs[i] ELSE f[i - 1] \o seqs[i]
      BY <3>2 DEF Join
    <3>4. \A i \in 1..m : g[i] = IF i = 1 THEN seqs[i] ELSE g[i - 1] \o seqs[i]
      BY <2>1, <2>3, <3>1, <3>3
    <3>5. g = [i \in 1..m |-> IF i = 1 THEN seqs[i] ELSE g[i - 1] \o seqs[i]]
      <4>1. DOMAIN g = 1..m /\ g = [i \in 1..m |-> g[i]]
        OBVIOUS
      <4>. HIDE DEF g
      <4>. QED  BY <3>4, <4>1
    <3>6. Join(seqs, g, m)
      BY <3>5 DEF Join
    <3>. QED  BY <2>1, <3>6
  <2>. QED  BY <2>2, <2>3
<1>. QED  BY <1>1

Parts(seqs, n) == UNION {Range(seqs[k]) : k \in 1..n}

OrderedParts(seqs) ==
    /\ \A k \in 1..Len(seqs) : Increasing(seqs[k])
    /\ \A k, l \in 1..Len(seqs) : k < l => Before(seqs[k], seqs[l])

\* What is joined is what stands in the parts, in order when they are.
LEMMA JoinedPart ==
    ASSUME NEW S, NEW seqs \in Seq(Seq(S)), NEW f, Join(seqs, f, Len(seqs)),
           NEW n \in 1..Len(seqs)
    PROVE  /\ f[n] \in Seq(S) /\ Range(f[n]) = Parts(seqs, n)
           /\ OrderedParts(seqs) => Increasing(f[n])
<1>. DEFINE Good(m) == /\ f[m] \in Seq(S) /\ Range(f[m]) = Parts(seqs, m)
                       /\ OrderedParts(seqs) => Increasing(f[m])
            Bad == {m \in 1..Len(seqs) : ~Good(m)}
<1>1. \A i \in 1..Len(seqs) : f[i] = IF i = 1 THEN seqs[i] ELSE f[i - 1] \o seqs[i]
  BY DEF Join
<1>2. \A i \in 1..Len(seqs) : seqs[i] \in Seq(S)
  OBVIOUS
<1>3. ASSUME Bad # {} PROVE FALSE
  <2>. HIDE DEF Good
  <2>0. Bad \in SUBSET Nat
    OBVIOUS
  <2>1. PICK m \in Bad : \A k \in Bad : m <= k
    BY <1>3, <2>0, LeastNumber
  <2>. USE DEF Good
  <2>2. CASE m = 1
    <3>1. f[m] = seqs[1] /\ 1 \in 1..Len(seqs)
      BY <1>1, <2>1, <2>2
    <3>2. Parts(seqs, 1) = Range(seqs[1])
      <4>1. 1..1 = {1}
        OBVIOUS
      <4>. QED  BY <4>1 DEF Parts
    <3>3. Good(m)
      BY <1>2, <2>2, <3>1, <3>2 DEF OrderedParts
    <3>. QED  BY <2>1, <3>3
  <2>3. CASE m # 1
    <3>. HIDE DEF Good
    <3>1. m \in 1..Len(seqs) /\ m - 1 \in 1..Len(seqs)
      BY <2>1, <2>3
    <3>2. Good(m - 1)
      <4>1. m - 1 \notin Bad
        BY <2>0, <2>1, <3>1
      <4>. QED  BY <3>1, <4>1
    <3>. USE DEF Good
    <3>3. f[m] = f[m - 1] \o seqs[m]
      BY <1>1, <2>3, <3>1
    <3>4. f[m] \in Seq(S) /\ Range(f[m]) = Range(f[m - 1]) \cup Range(seqs[m])
      BY <1>2, <3>1, <3>2, <3>3, RangeConcat
    <3>5. Range(f[m]) = Parts(seqs, m)
      <4>1. 1..m = (1..(m - 1)) \cup {m}
        BY <3>1
      <4>2. Range(f[m - 1]) = Parts(seqs, m - 1)
        BY <3>2
      <4>. QED  BY <3>4, <4>1, <4>2 DEF Parts
    <3>6. ASSUME OrderedParts(seqs) PROVE Increasing(f[m])
      <4>1. Before(f[m - 1], seqs[m])
        <5>1. \A k \in 1..(m - 1) : k \in 1..Len(seqs) /\ k < m
          BY <3>1
        <5>2. \A k \in 1..(m - 1) : Before(seqs[k], seqs[m])
          BY <3>1, <3>6, <5>1 DEF OrderedParts
        <5>. QED  BY <3>2, <5>2 DEF Before, Parts
      <4>2. Increasing(f[m - 1]) /\ Increasing(seqs[m])
        BY <3>1, <3>2, <3>6 DEF OrderedParts
      <4>. QED  BY <1>2, <3>1, <3>2, <3>3, <4>1, <4>2, IncreasingConcat
    <3>. QED  BY <2>1, <3>4, <3>5, <3>6
  <2>. QED  BY <2>2, <2>3
<1>. QED  BY <1>3

LEMMA Flattened ==
    ASSUME NEW S, NEW seqs \in Seq(Seq(S))
    PROVE  /\ FlattenSeq(seqs) \in Seq(S)
           /\ Range(FlattenSeq(seqs)) = Parts(seqs, Len(seqs))
           /\ OrderedParts(seqs) => Increasing(FlattenSeq(seqs))
<1>1. CASE Len(seqs) = 0
  <2>1. seqs = <<>> /\ FlattenSeq(seqs) = <<>>
    BY <1>1 DEF FlattenSeq
  <2>2. Range(<<>>) = {} /\ Increasing(<<>>) /\ <<>> \in Seq(S)
    BY DEF Range, Increasing
  <2>3. Parts(seqs, Len(seqs)) = {}
    BY <1>1 DEF Parts
  <2>. QED  BY <2>1, <2>2, <2>3
<1>2. CASE Len(seqs) # 0
  <2>. DEFINE f == CHOOSE g : Join(seqs, g, Len(seqs))
  <2>1. FlattenSeq(seqs) = f[Len(seqs)]
    BY <1>2 DEF FlattenSeq, Join
  <2>2. Join(seqs, f, Len(seqs))
    <3>1. Len(seqs) \in Nat
      OBVIOUS
    <3>2. \E g : Join(seqs, g, Len(seqs))
      BY <3>1, JoinExists
    <3>. QED  BY <3>2
  <2>3. Len(seqs) \in 1..Len(seqs)
    BY <1>2
  <2>. HIDE DEF f
  <2>. QED  BY <2>1, <2>2, <2>3, JoinedPart
<1>. QED  BY <1>1, <1>2

-----------------------------------------------------------------------------
(***************************************************************************)
(* The inductive invariant, for every value of the constants.              *)
(***************************************************************************)
Reasons == {"age", "end", "timer", "sync", "renew"}

\* The labels of a caller other than the owner.
ClientLabels == {"idle", "append", "send", "wait", "take", "batch", "flush", "done", "push", "clear"}

LogTypes ==
    /\ flushed \subseteq Ops
    /\ files \in Seq(Seq(Records)) /\ cur \in 0..Len(files)
    /\ batch \in Seq(Ops) /\ task \in Messages \cup {NoTask}
    /\ step \in {"recv", "flush", "sweep", "remove", "answer", "trim", "stopped"}
    /\ round \in 0..2 /\ error \in BOOLEAN /\ faults \in 0..MaxFaults
    /\ observed \subseteq Appenders /\ answered \subseteq Callers
    /\ queue \in Seq(Messages)

CallerTypes ==
    /\ live \subseteq Ops
    /\ buffer \in Seq(Ops) \cup {Off} /\ hand \in [Callers -> Seq(Ops)]
    /\ importing \subseteq Importers /\ ticking \in BOOLEAN
    /\ pc \in [Callers -> Labels] /\ why \in [Callers -> Reasons \cup {"none", "failed"}]
    /\ issued \in [Appenders -> 0..MaxOps]
    /\ acked \cup batched \cup handed \subseteq Ops

\* An appender between the start of an operation and the end of its append.
Working(a) ==
    \/ pc[a] \in {"append", "send", "wait", "push"}
    \/ pc[a] \in {"take", "batch", "flush", "done"} /\ why[a] = "age"

\* Only the owner is busy while the graph is not open.
CallersOK ==
    /\ pc[Owner] \in {"down", "replayed", "flush", "done", "trim", "shut", "idle", "stopped"}
    /\ pc[Owner] = "flush" => why[Owner] = "sync"
    /\ pc[Owner] = "done" => why[Owner] \in {"sync", "renew"}
    /\ \A c \in Callers \ {Owner} :
          /\ pc[c] \in ClientLabels
          /\ pc[c] \in {"take", "batch", "flush", "done"} => why[c] \in {"age", "end", "timer"}
          /\ pc[Owner] # "idle" => pc[c] = "idle"
    /\ pc[Owner] # "idle" => importing = {} /\ ticking = FALSE
    /\ \A a \in Appenders : Working(a) => issued[a] # 0 /\ Op(a) \in live

BuffersLive ==
    /\ buffer # Off => Range(buffer) \subseteq live
    /\ \A c \in Callers : Range(hand[c]) \subseteq live

\* The writer has a file open whenever there is or may come something to write.
WriterOK ==
    /\ batch # <<>> => cur # 0
    /\ cur = 0 => pc[Owner] # "idle" /\ \A k \in DOMAIN queue : queue[k].entries = <<>>
    /\ step \in {"flush", "sweep", "remove", "answer", "trim"} => task \in Messages
    /\ step \in {"sweep", "remove"} => batch # <<>> /\ cur < Len(files) /\ round < 2
    /\ step = "answer" => task.kind \in {"flush", "renew", "shutdown"}
    /\ step = "trim" => cur = 0

\* The message the owner waits for, while it opens the graph.
Asked == Message(IF why[Owner] = "sync" THEN "flush" ELSE "renew", <<>>, Owner)

\* While the graph is opened the writer has nothing to do but what its owner
\* asks for, and only then it renews the log.
OpeningOK ==
    /\ pc[Owner] \in {"down", "replayed", "flush", "trim", "shut"} =>
          queue = <<>> /\ step = "recv" /\ batch = <<>> /\ Owner \notin answered
    /\ pc[Owner] = "done" =>
          /\ batch = <<>>
          /\ \/ queue = <<Asked>> /\ step = "recv" /\ Owner \notin answered
             \/ /\ queue = <<>> /\ task = Asked /\ Owner \notin answered
                /\ step \in {"flush", "answer"} \/ (step = "trim" /\ why[Owner] = "renew")
             \/ /\ queue = <<>> /\ step = "recv" /\ Owner \in answered
                /\ why[Owner] = "sync" \/ error \/ (cur = 1 /\ files = <<(<<>>)>>)
    /\ pc[Owner] \in {"idle", "stopped"} =>
          /\ \A k \in DOMAIN queue : queue[k].kind # "renew"
          /\ step # "trim" /\ (step \notin {"recv", "stopped"} => task.kind # "renew")

\* What is on its way to a file, or in one, has been applied to the blocks or
\* is in the data file already; while files are deleted it is in the data file.
LogLive ==
    /\ pc[Owner] = "down" => live = {}
    /\ pc[Owner] # "down" => Logged \subseteq live \cup flushed
    /\ pc[Owner] = "replayed" => Logged \subseteq live
    /\ Range(batch) \subseteq live
    /\ \A k \in DOMAIN queue : Range(queue[k].entries) \subseteq live
    /\ pc[Owner] \in {"flush", "done", "trim"} => live \subseteq flushed
    /\ step = "remove" => Logged \subseteq flushed

LogSide == LogTypes /\ WriterOK /\ OpeningOK /\ LogLive
CallerSide == CallerTypes /\ CallersOK /\ BuffersLive
IInv == LogSide /\ CallerSide

-----------------------------------------------------------------------------
(***************************************************************************)
(* The inductive invariant, without imports and failing writes.            *)
(***************************************************************************)
\* Every append goes to the channel on its own.
NoBatches ==
    /\ buffer = Off /\ importing = {} /\ ticking = FALSE
    /\ \A c \in Callers : hand[c] = <<>>
    /\ \A c \in Callers \ {Owner} : pc[c] \in {"idle", "append", "send", "wait"}
    /\ pc[Timer] = "idle"

InFiles == UNION {Range(files[k]) : k \in DOMAIN files}
InQueue == UNION {Range(queue[k].entries) : k \in DOMAIN queue}
Standing == InFiles \cup Range(batch) \cup InQueue

\* What this process gave to the log is in the data file or stands in the log.
Kept ==
    /\ handed # {} => pc[Owner] \in {"idle", "stopped"}
    /\ handed # {} \/ pc[Owner] = "idle" => Torn \notin InFiles
    /\ handed \subseteq flushed \cup Standing

\* The operations of each thread stand in the log in order, from the oldest
\* file to the tail of the channel; only the last of the files that hold
\* something is written to.
InOrder ==
    /\ \A k \in DOMAIN files : Increasing(files[k])
    /\ Increasing(batch)
    /\ \A l \in DOMAIN queue : Increasing(queue[l].entries)
    /\ \A j, k \in DOMAIN files : j < k => Before(files[j], files[k])
    /\ \A k \in DOMAIN files : Before(files[k], batch)
    /\ \A k \in DOMAIN files, l \in DOMAIN queue : Before(files[k], queue[l].entries)
    /\ \A l \in DOMAIN queue : Before(batch, queue[l].entries)
    /\ \A k, l \in DOMAIN queue : k < l => Before(queue[k].entries, queue[l].entries)
    /\ cur # 0 => \A k \in DOMAIN files : k > cur => files[k] = <<>>

\* None stands there that its thread has not given to the log.
NoneAhead ==
    \A o \in Standing \ {Torn} :
        /\ o[2] <= issued[o[1]]
        /\ pc[o[1]] \in {"append", "send"} => o[2] < issued[o[1]]

JInv == NoBatches /\ Kept /\ InOrder /\ NoneAhead

-----------------------------------------------------------------------------
(***************************************************************************)
(* What replay reads of a file.                                            *)
(***************************************************************************)
Untorn(f, i) == \A j \in 1..i : f[j] # Torn

LEMMA ReadableRecords ==
    ASSUME NEW f \in Seq(Records)
    PROVE  /\ Readable(f) \in Seq(Ops)
           /\ \A i \in 1..Len(f) : Untorn(f, i) => f[i] \in Range(Readable(f))
           /\ \A r \in Range(Readable(f)) : \E i \in 1..Len(f) : r = f[i] /\ Untorn(f, i)
           /\ (\A i \in 1..Len(f) : f[i] # Torn) => Readable(f) = f
<1>. DEFINE T == {i \in 1..Len(f) : f[i] = Torn}
            first == CHOOSE x \in T : \A y \in T : x <= y
<1>1. Readable(f) = IF T = {} THEN f ELSE IF first = 0 THEN f ELSE SubSeq(f, 1, first - 1)
  BY DEF Readable, SelectInSeq, Min
<1>2. \A i \in 1..Len(f) : f[i] # Torn => f[i] \in Ops
  BY DEF Records
<1>3. CASE T = {}
  <2>1. Readable(f) = f /\ \A i \in 1..Len(f) : f[i] # Torn
    BY <1>1, <1>3
  <2>2. f \in Seq(Ops)
    BY <1>2, <2>1
  <2>. QED  BY <2>1, <2>2, InRange DEF Untorn
<1>4. CASE T # {}
  <2>1. T \in SUBSET Nat
    OBVIOUS
  <2>2. first \in T /\ \A y \in T : first <= y
    BY <1>4, <2>1, LeastNumber
  <2>. HIDE DEF first
  <2>3. first \in 1..Len(f) /\ f[first] = Torn /\ \A j \in 1..(first - 1) : j \in 1..Len(f) /\ f[j] # Torn
    BY <2>2
  <2>. HIDE DEF T
  <2>4. Readable(f) = SubSeq(f, 1, first - 1)
    BY <1>1, <1>4, <2>3
  <2>5. Len(Readable(f)) = first - 1 /\ \A j \in 1..(first - 1) : Readable(f)[j] = f[j]
    BY <2>3, <2>4
  <2>6. Readable(f) \in Seq(Ops)
    BY <1>2, <2>3, <2>4, <2>5
  <2>7. ASSUME NEW i \in 1..Len(f), Untorn(f, i) PROVE f[i] \in Range(Readable(f))
    <3>1. i \in 1..(first - 1)
      BY <2>3, <2>7 DEF Untorn
    <3>. QED  BY <2>5, <2>6, <3>1, InRange
  <2>8. ASSUME NEW r \in Range(Readable(f)) PROVE \E i \in 1..Len(f) : r = f[i] /\ Untorn(f, i)
    <3>1. PICK i \in 1..(first - 1) : r = f[i]
      BY <2>5, <2>6, InRange
    <3>2. i \in 1..Len(f) /\ Untorn(f, i)
      BY <2>3, <3>1 DEF Untorn
    <3>. QED  BY <3>1, <3>2
  <2>. QED  BY <2>3, <2>6, <2>7, <2>8
<1>. QED  BY <1>3, <1>4

\* Writing to a file loses nothing that was read from it, and adds what is
\* written at most.
LEMMA ReadableGrows ==
    ASSUME NEW f \in Seq(Records), NEW g \in Seq(Records)
    PROVE  /\ Range(Readable(f)) \subseteq Range(Readable(f \o g))
           /\ Range(Readable(f \o g)) \subseteq Range(Readable(f)) \cup (Range(g) \ {Torn})
<1>1. /\ f \o g \in Seq(Records) /\ Len(f) \in Nat /\ Len(g) \in Nat /\ Len(f \o g) = Len(f) + Len(g)
      /\ \A i \in 1..Len(f) : (f \o g)[i] = f[i] /\ i \in 1..Len(f \o g)
      /\ \A i \in 1..Len(f \o g) : i > Len(f) => i - Len(f) \in 1..Len(g) /\ (f \o g)[i] = g[i - Len(f)]
  OBVIOUS
<1>2. ASSUME NEW i \in 1..Len(f) PROVE Untorn(f \o g, i) <=> Untorn(f, i)
  <2>1. \A j \in 1..i : j \in 1..Len(f) /\ (f \o g)[j] = f[j]
    BY <1>1
  <2>. QED  BY <2>1 DEF Untorn
<1>3. ASSUME NEW r \in Range(Readable(f)) PROVE r \in Range(Readable(f \o g))
  <2>1. PICK i \in 1..Len(f) : r = f[i] /\ Untorn(f, i)
    BY <1>3, ReadableRecords
  <2>2. i \in 1..Len(f \o g) /\ r = (f \o g)[i] /\ Untorn(f \o g, i)
    BY <1>1, <1>2, <2>1
  <2>. QED  BY <1>1, <2>2, ReadableRecords
<1>4. ASSUME NEW r \in Range(Readable(f \o g))
      PROVE  r \in Range(Readable(f)) \cup (Range(g) \ {Torn})
  <2>1. PICK i \in 1..Len(f \o g) : r = (f \o g)[i] /\ Untorn(f \o g, i)
    BY <1>1, <1>4, ReadableRecords
  <2>2. CASE i <= Len(f)
    <3>1. i \in 1..Len(f) /\ r = f[i] /\ Untorn(f, i)
      BY <1>1, <1>2, <2>1, <2>2
    <3>. QED  BY <3>1, ReadableRecords
  <2>3. CASE i > Len(f)
    <3>1. r # Torn
      BY <2>1 DEF Untorn
    <3>2. r \in Range(g)
      BY <1>1, <2>1, <2>3, InRange
    <3>. QED  BY <3>1, <3>2
  <2>. QED  BY <1>1, <2>2, <2>3
<1>. QED  BY <1>3, <1>4

LEMMA Removed ==
    ASSUME NEW S, NEW s \in Seq(S), NEW i \in 1..Len(s)
    PROVE  /\ RemoveAt(s, i) \in Seq(S) /\ Len(RemoveAt(s, i)) = Len(s) - 1
           /\ \A k \in 1..(Len(s) - 1) : RemoveAt(s, i)[k] = IF k < i THEN s[k] ELSE s[k + 1]
<1>. DEFINE p == SubSeq(s, 1, i - 1)
            q == SubSeq(s, i + 1, Len(s))
            r == p \o q
            n == Len(s)
<1>0. n \in Nat /\ i \in 1..n
  OBVIOUS
<1>1. p \in Seq(S) /\ Len(p) = i - 1 /\ \A k \in 1..(i - 1) : p[k] = s[k]
  OBVIOUS
<1>2. q \in Seq(S) /\ Len(q) = n - i /\ \A k \in 1..(n - i) : q[k] = s[i + k]
  OBVIOUS
<1>3. RemoveAt(s, i) = r
  BY DEF RemoveAt
<1>. HIDE DEF p, q
<1>4. r \in Seq(S) /\ Len(r) = Len(p) + Len(q)
  BY <1>1, <1>2, ConcatProperties
<1>5. /\ \A k \in 1..Len(p) : r[k] = p[k]
      /\ \A k \in (Len(p) + 1)..(Len(p) + Len(q)) : r[k] = q[k - Len(p)]
  BY <1>1, <1>2, ConcatProperties
<1>. HIDE DEF r, n
<1>6. ASSUME NEW k \in 1..(n - 1) PROVE r[k] = IF k < i THEN s[k] ELSE s[k + 1]
  <2>1. CASE k < i
    BY <1>0, <1>1, <1>5, <2>1
  <2>2. CASE ~(k < i)
    <3>1. /\ k - (i - 1) \in 1..(n - i) /\ i + (k - (i - 1)) = k + 1
          /\ k \in ((i - 1) + 1)..((i - 1) + (n - i))
      BY <1>0, <2>2
    <3>2. r[k] = q[k - (i - 1)]
      BY <1>1, <1>2, <1>5, <3>1
    <3>. QED  BY <1>2, <2>2, <3>1, <3>2
  <2>. QED  BY <2>1, <2>2
<1>7. Len(r) = n - 1
  BY <1>0, <1>1, <1>2, <1>4
<1>. QED  BY <1>3, <1>4, <1>6, <1>7 DEF n

\* The records that replay reads of a sequence of files.
ReadOf(fs) == UNION {Range(Readable(fs[k])) : k \in DOMAIN fs}

LEMMA LoggedIsRead == Logged = ReadOf(files) /\ Logged' = ReadOf(files')
BY DEF Logged, ReadOf

LEMMA ReadRecords ==
    ASSUME NEW fs \in Seq(Seq(Records))
    PROVE  /\ ReadOf(fs) \subseteq Ops
           /\ \A k \in 1..Len(fs) : Range(Readable(fs[k])) \subseteq ReadOf(fs)
           /\ \A r \in ReadOf(fs) : \E k \in 1..Len(fs) : r \in Range(Readable(fs[k]))
<1>1. \A k \in 1..Len(fs) : fs[k] \in Seq(Records)
  OBVIOUS
<1>2. \A k \in 1..Len(fs) : Range(Readable(fs[k])) \subseteq Ops
  BY <1>1, ReadableRecords, InRange
<1>. DEFINE read(k) == Range(Readable(fs[k]))
<1>3. \A k \in 1..Len(fs) : read(k) \subseteq Ops
  BY <1>2
<1>4. ReadOf(fs) = UNION {read(k) : k \in 1..Len(fs)}
  <2>1. DOMAIN fs = 1..Len(fs)
    OBVIOUS
  <2>. QED  BY <2>1 DEF ReadOf
<1>. SUFFICES /\ ReadOf(fs) \subseteq Ops /\ \A k \in 1..Len(fs) : read(k) \subseteq ReadOf(fs)
              /\ \A r \in ReadOf(fs) : \E k \in 1..Len(fs) : r \in read(k)
  OBVIOUS
<1>. HIDE DEF read
<1>. QED  BY <1>3, <1>4

\* A new file, empty, changes nothing of what is read.
LEMMA AddedFile ==
    ASSUME files \in Seq(Seq(Records)), files' = Append(files, <<>>)
    PROVE  /\ files' \in Seq(Seq(Records)) /\ Len(files') = Len(files) + 1
           /\ Logged' = Logged
<1>1. /\ files' \in Seq(Seq(Records)) /\ Len(files') = Len(files) + 1
      /\ \A k \in 1..Len(files') : files'[k] \in Seq(Records)
      /\ \A k \in 1..Len(files') : IF k \in 1..Len(files) THEN files'[k] = files[k] ELSE Len(files'[k]) = 0
      /\ \A k \in 1..Len(files) : k \in 1..Len(files')
  OBVIOUS
<1>2. ASSUME NEW f \in Seq(Records), Len(f) = 0 PROVE Range(Readable(f)) = {}
  <2>1. \A i \in 1..Len(f) : f[i] # Torn
    BY <1>2
  <2>2. Readable(f) = f
    BY <2>1, ReadableRecords
  <2>. QED  BY <1>2, <2>2 DEF Range
<1>3. ASSUME NEW r \in ReadOf(files) PROVE r \in ReadOf(files')
  <2>1. PICK k \in 1..Len(files) : r \in Range(Readable(files[k]))
    BY ReadRecords
  <2>. QED  BY <1>1, <2>1, ReadRecords
<1>4. ASSUME NEW r \in ReadOf(files') PROVE r \in ReadOf(files)
  <2>1. PICK k \in 1..Len(files') : r \in Range(Readable(files'[k]))
    BY <1>1, ReadRecords
  <2>2. k \in 1..Len(files) /\ files'[k] = files[k]
    BY <1>1, <1>2, <2>1
  <2>. QED  BY <2>1, <2>2, ReadRecords
<1>. QED  BY <1>1, <1>3, <1>4, LoggedIsRead

\* A deleted file takes its records with it and adds none.
LEMMA DroppedFile ==
    ASSUME files \in Seq(Seq(Records)), NEW i \in 1..Len(files), files' = RemoveAt(files, i)
    PROVE  /\ files' \in Seq(Seq(Records)) /\ Len(files') = Len(files) - 1
           /\ Logged' \subseteq Logged
<1>1. /\ files' \in Seq(Seq(Records)) /\ Len(files') = Len(files) - 1
      /\ \A k \in 1..(Len(files) - 1) : files'[k] = IF k < i THEN files[k] ELSE files[k + 1]
  BY Removed
<1>2. ASSUME NEW k \in 1..Len(files') PROVE \E l \in 1..Len(files) : files'[k] = files[l]
  <2>1. k \in 1..Len(files) /\ k + 1 \in 1..Len(files) /\ k \in 1..(Len(files) - 1)
    BY <1>1
  <2>. QED  BY <1>1, <2>1
<1>3. ASSUME NEW r \in ReadOf(files') PROVE r \in ReadOf(files)
  <2>1. PICK k \in 1..Len(files') : r \in Range(Readable(files'[k]))
    BY <1>1, ReadRecords
  <2>2. PICK l \in 1..Len(files) : files'[k] = files[l]
    BY <1>2
  <2>. QED  BY <2>1, <2>2, ReadRecords
<1>. QED  BY <1>1, <1>3, LoggedIsRead

\* Writing to a file adds at most what is written.
LEMMA WrittenFile ==
    ASSUME files \in Seq(Seq(Records)), cur \in 1..Len(files), NEW part \in Seq(Records),
           files' = [files EXCEPT ![cur] = @ \o part]
    PROVE  /\ files' \in Seq(Seq(Records)) /\ Len(files') = Len(files)
           /\ Logged \subseteq Logged' /\ Logged' \subseteq Logged \cup (Range(part) \ {Torn})
<1>0. files[cur] \in Seq(Records) /\ files[cur] \o part \in Seq(Records)
  OBVIOUS
<1>1. /\ files' \in Seq(Seq(Records)) /\ Len(files') = Len(files)
      /\ files'[cur] = files[cur] \o part
      /\ \A k \in 1..Len(files) : k # cur => files'[k] = files[k]
  BY <1>0
<1>2. /\ Range(Readable(files[cur])) \subseteq Range(Readable(files'[cur]))
      /\ Range(Readable(files'[cur])) \subseteq Range(Readable(files[cur])) \cup (Range(part) \ {Torn})
  BY <1>0, <1>1, ReadableGrows
<1>3. ASSUME NEW r \in ReadOf(files) PROVE r \in ReadOf(files')
  <2>1. PICK k \in 1..Len(files) : r \in Range(Readable(files[k]))
    BY ReadRecords
  <2>2. r \in Range(Readable(files'[k]))
    BY <1>1, <1>2, <2>1
  <2>. QED  BY <1>1, <2>2, ReadRecords
<1>4. ASSUME NEW r \in ReadOf(files') PROVE r \in ReadOf(files) \cup (Range(part) \ {Torn})
  <2>1. PICK k \in 1..Len(files) : r \in Range(Readable(files'[k]))
    BY <1>1, ReadRecords
  <2>2. r \in Range(Readable(files[k])) \cup (Range(part) \ {Torn})
    BY <1>1, <1>2, <2>1
  <2>. QED  BY <2>2, ReadRecords
<1>. QED  BY <1>1, <1>3, <1>4, LoggedIsRead

-----------------------------------------------------------------------------
(***************************************************************************)
(* The callers: what they leave alone, and one lemma per step.             *)
(***************************************************************************)
LEMMA SameFiles ==
    ASSUME UNCHANGED files
    PROVE  Logged' = Logged
BY DEF Logged

LEMMA AppendedMessage ==
    ASSUME NEW q \in Seq(Messages), NEW m \in Messages
    PROVE  /\ Append(q, m) \in Seq(Messages)
           /\ \A k \in DOMAIN Append(q, m) :
                  Append(q, m)[k] = m \/ (k \in DOMAIN q /\ Append(q, m)[k] = q[k])
OBVIOUS

\* While the graph is open, a caller changes nothing of the log but its
\* channel, to which it gives applied operations.
LEMMA CallersLeaveLog ==
    ASSUME IInv, pc[Owner] = "idle", pc'[Owner] = "idle",
           UNCHANGED <<flushed, files, cur, batch, task, step, round, error, faults>>,
           observed' \subseteq Appenders, answered' \subseteq Callers, live \subseteq live',
           \/ queue' = queue
           \/ \E m \in Messages : /\ queue' = Append(queue, m) /\ m.kind # "renew"
                                 /\ Range(m.entries) \subseteq live'
    PROVE  LogSide'
<1>. USE DEF IInv, LogSide
<1>1. /\ queue' \in Seq(Messages)
      /\ \A k \in DOMAIN queue' : /\ queue'[k].kind # "renew"
                                 /\ Range(queue'[k].entries) \subseteq live'
  <2>1. queue \in Seq(Messages) /\ \A k \in DOMAIN queue : /\ queue[k].kind # "renew"
                                                         /\ Range(queue[k].entries) \subseteq live'
    BY DEF LogTypes, OpeningOK, LogLive
  <2>2. CASE queue' = queue
    BY <2>1, <2>2
  <2>3. ASSUME NEW m \in Messages, queue' = Append(queue, m), m.kind # "renew",
               Range(m.entries) \subseteq live'
        PROVE  /\ queue' \in Seq(Messages)
               /\ \A k \in DOMAIN queue' : /\ queue'[k].kind # "renew"
                                          /\ Range(queue'[k].entries) \subseteq live'
    <3>1. /\ queue' \in Seq(Messages)
          /\ \A k \in DOMAIN queue' : queue'[k] = m \/ (k \in DOMAIN queue /\ queue'[k] = queue[k])
      BY <2>1, <2>3, AppendedMessage
    <3>. QED  BY <2>1, <2>3, <3>1
  <2>. QED  BY <2>2, <2>3
<1>2. LogTypes'
  BY <1>1 DEF LogTypes
<1>3. WriterOK'
  BY <1>1 DEF WriterOK
<1>4. OpeningOK'
  BY <1>1 DEF OpeningOK
<1>5. LogLive'
  <2>1. Logged' = Logged
    BY SameFiles
  <2>. QED  BY <1>1, <2>1 DEF LogLive
<1>. QED  BY <1>2, <1>3, <1>4, <1>5

LEMMA AppendedOp ==
    ASSUME NEW s \in Seq(Ops), NEW e \in Ops
    PROVE  /\ Append(s, e) \in Seq(Ops) /\ Range(Append(s, e)) = Range(s) \cup {e}
           /\ Range(<<e>>) = {e} /\ <<e>> \in Seq(Ops)
<1>1. <<e>> \in Seq(Ops) /\ Len(<<e>>) = 1 /\ <<e>>[1] = e
  OBVIOUS
<1>2. Range(<<e>>) = {e}
  <2>1. DOMAIN <<e>> = {1}
    OBVIOUS
  <2>. QED  BY <1>1, <2>1 DEF Range
<1>3. Append(s, e) \in Seq(Ops) /\ Append(s, e) = s \o <<e>>
  BY <1>1
<1>4. Range(s \o <<e>>) = Range(s) \cup Range(<<e>>)
  BY <1>1, RangeConcat
<1>. QED  BY <1>1, <1>2, <1>3, <1>4

LEMMA EmptyRange == Range(<<>>) = {}
BY DEF Range

LEMMA WorkingOp ==
    ASSUME CallerSide, NEW a \in Appenders, Working(a)
    PROVE  Op(a) \in Ops /\ Op(a) \in live
<1>1. issued[a] \in 1..MaxOps /\ Op(a) \in live
  BY RedoLogAssumption DEF CallerSide, CallersOK, CallerTypes
<1>. QED  BY <1>1 DEF Op, Ops

LEMMA ApplyStep ==
    ASSUME IInv, NEW a \in Appenders, Apply(a)
    PROVE  IInv'
<1>. USE RedoLogAssumption DEF IInv, CallerSide
<1>1. CallerTypes'
  BY DEF Apply, CallerTypes, CallersOK, LogTypes, Goto, Callers, Labels, ClientLabels, Reasons, Op, Ops,
     diskVars, writerVars, sharedVars, batchVars, histVars
<1>2. pc[Owner] = "idle" /\ pc'[Owner] = "idle"
  BY DEF Apply, CallerTypes, CallersOK, Opened, Goto, Callers, diskVars, writerVars, sharedVars,
     batchVars, histVars
<1>3. CallersOK'
  BY <1>2 DEF Apply, CallerTypes, CallersOK, Working, Goto, Callers, ClientLabels, Op, diskVars,
     writerVars, sharedVars, batchVars, histVars
<1>4. BuffersLive'
  BY <1>2 DEF Apply, CallerTypes, CallersOK, BuffersLive, Working, Goto, diskVars, writerVars,
     sharedVars, batchVars, histVars
<1>5. LogSide'
  BY <1>2, CallersLeaveLog DEF Apply, CallerTypes, CallersOK, LogSide, LogTypes, Working, Op, Ops,
     Messages, Callers, diskVars, writerVars, sharedVars, batchVars, histVars
<1>. QED  BY <1>1, <1>3, <1>4, <1>5

LEMMA PushStep ==
    ASSUME IInv, NEW a \in Appenders, Push(a)
    PROVE  IInv'
<1>. USE RedoLogAssumption DEF IInv, CallerSide
<1>1. CallerTypes'
  <2>1. Op(a) \in Ops
    BY WorkingOp DEF Push, Working
  <2>2. buffer # Off => Append(buffer, Op(a)) \in Seq(Ops)
    BY <2>1 DEF CallerTypes
  <2>. QED  BY <2>1, <2>2 DEF Push, CallerTypes, Goto, Labels
<1>2. pc[Owner] = "idle" /\ pc'[Owner] = "idle"
  BY DEF Push, CallerTypes, CallersOK, Goto, Callers, diskVars, writerVars, sharedVars
<1>3. CallersOK'
  BY <1>2 DEF Push, CallerTypes, CallersOK, Working, Goto, Callers, ClientLabels, Op, diskVars,
     writerVars, sharedVars
<1>4. BuffersLive'
  <2>1. Op(a) \in Ops /\ Op(a) \in live
    BY WorkingOp DEF Push, Working
  <2>2. buffer # Off => Range(Append(buffer, Op(a))) = Range(buffer) \cup {Op(a)}
    BY <2>1, AppendedOp DEF CallerTypes
  <2>. QED  BY <2>1, <2>2 DEF Push, BuffersLive
<1>5. LogSide'
  BY <1>2, CallersLeaveLog DEF Push, CallerTypes, CallersOK, LogSide, LogTypes, Working, Op, Ops,
     Messages, Callers, diskVars, writerVars, sharedVars
<1>. QED  BY <1>1, <1>3, <1>4, <1>5

LEMMA AgedStep ==
    ASSUME IInv, NEW a \in Appenders, Aged(a)
    PROVE  IInv'
<1>. USE RedoLogAssumption DEF IInv, CallerSide
<1>1. CallerTypes'
  BY DEF Aged, CallerTypes, CallersOK, LogTypes, Goto, Because, Callers, Labels, ClientLabels, Reasons,
     Op, Ops, diskVars, writerVars, sharedVars, batchVars, histVars
<1>2. pc[Owner] = "idle" /\ pc'[Owner] = "idle"
  BY DEF Aged, CallerTypes, CallersOK, Goto, Because, Callers, diskVars, writerVars, sharedVars,
     batchVars, histVars
<1>3. CallersOK'
  BY <1>2 DEF Aged, CallerTypes, CallersOK, Working, Goto, Because, Callers, ClientLabels, Op, diskVars,
     writerVars, sharedVars, batchVars, histVars
<1>4. BuffersLive'
  BY <1>2 DEF Aged, CallerTypes, CallersOK, BuffersLive, Working, Goto, diskVars, writerVars, sharedVars,
     batchVars, histVars
<1>5. LogSide'
  BY <1>2, CallersLeaveLog DEF Aged, CallerTypes, CallersOK, LogSide, LogTypes, Working, Op, Ops,
     Messages, Callers, diskVars, writerVars, sharedVars, batchVars, histVars
<1>. QED  BY <1>1, <1>3, <1>4, <1>5

LEMMA ReadEpochStep ==
    ASSUME IInv, NEW a \in Appenders, ReadEpoch(a)
    PROVE  IInv'
<1>. USE RedoLogAssumption DEF IInv, CallerSide
<1>1. CallerTypes'
  BY DEF ReadEpoch, CallerTypes, CallersOK, LogTypes, Goto, Callers, Labels, ClientLabels, Reasons, Op,
     Ops, diskVars, writerVars, batchVars, histVars
<1>2. pc[Owner] = "idle" /\ pc'[Owner] = "idle"
  BY DEF ReadEpoch, CallerTypes, CallersOK, Goto, Callers, diskVars, writerVars, batchVars, histVars
<1>3. CallersOK'
  BY <1>2 DEF ReadEpoch, CallerTypes, CallersOK, Working, Goto, Callers, ClientLabels, Op, diskVars,
     writerVars, batchVars, histVars
<1>4. BuffersLive'
  BY <1>2 DEF ReadEpoch, CallerTypes, CallersOK, BuffersLive, Working, Goto, diskVars, writerVars,
     batchVars, histVars
<1>5. LogSide'
  BY <1>2, CallersLeaveLog DEF ReadEpoch, CallerTypes, CallersOK, LogSide, LogTypes, Working, Op, Ops,
     Messages, Callers, diskVars, writerVars, batchVars, histVars
<1>. QED  BY <1>1, <1>3, <1>4, <1>5

LEMMA SendStep ==
    ASSUME IInv, NEW a \in Appenders, Send(a)
    PROVE  IInv'
<1>. USE RedoLogAssumption DEF IInv, CallerSide
<1>1. CallerTypes'
  <2>1. Op(a) \in Ops
    BY WorkingOp DEF Send, Working
  <2>. QED  BY <2>1 DEF Send, CallerTypes, Goto, Labels, batchVars
<1>2. pc[Owner] = "idle" /\ pc'[Owner] = "idle"
  BY DEF Send, CallerTypes, CallersOK, Goto, Callers, diskVars, writerVars, sharedVars, batchVars
<1>3. CallersOK'
  BY <1>2 DEF Send, CallerTypes, CallersOK, Working, Goto, Callers, ClientLabels, Op, diskVars,
     writerVars, sharedVars, batchVars
<1>4. BuffersLive'
  BY <1>2 DEF Send, CallerTypes, CallersOK, BuffersLive, Working, Goto, diskVars, writerVars, sharedVars,
     batchVars
<1>5. LogSide'
  <2>1. Op(a) \in Ops /\ Op(a) \in live
    BY WorkingOp DEF Send, Working
  <2>. DEFINE m == Message("entry", <<Op(a)>>, a)
  <2>2. m \in Messages /\ m.kind # "renew" /\ m.entries = <<Op(a)>>
    BY <2>1 DEF Message, Messages, Callers
  <2>3. Range(m.entries) \subseteq live
    <3>1. <<>> \in Seq(Ops)
      OBVIOUS
    <3>2. Range(<<Op(a)>>) = {Op(a)}
      BY <2>1, <3>1, AppendedOp
    <3>. QED  BY <2>1, <2>2, <3>2
  <2>4. queue' = Append(queue, m)
    BY DEF Send
  <2>. HIDE DEF m
  <2>. QED  BY <1>2, <2>2, <2>3, <2>4, CallersLeaveLog DEF Send, LogSide, LogTypes, diskVars, writerVars,
               sharedVars
<1>. QED  BY <1>1, <1>3, <1>4, <1>5

LEMMA ReturnStep ==
    ASSUME IInv, NEW a \in Appenders, Return(a)
    PROVE  IInv'
<1>. USE RedoLogAssumption DEF IInv, CallerSide
<1>1. CallerTypes'
  <2>1. Op(a) \in Ops
    BY WorkingOp DEF Return, Working
  <2>. QED  BY <2>1 DEF Return, CallerTypes, Goto, Labels, batchVars
<1>2. pc[Owner] = "idle" /\ pc'[Owner] = "idle"
  BY DEF Return, CallerTypes, CallersOK, Goto, Callers, diskVars, writerVars, sharedVars, batchVars
<1>3. CallersOK'
  BY <1>2 DEF Return, CallerTypes, CallersOK, Working, Goto, Callers, ClientLabels, Op, diskVars,
     writerVars, sharedVars, batchVars
<1>4. BuffersLive'
  BY <1>2 DEF Return, CallerTypes, CallersOK, BuffersLive, Working, Goto, diskVars, writerVars,
     sharedVars, batchVars
<1>5. LogSide'
  BY <1>2, CallersLeaveLog DEF Return, CallerTypes, CallersOK, LogSide, LogTypes, Working, Op, Ops,
     Messages, Callers, diskVars, writerVars, sharedVars, batchVars
<1>. QED  BY <1>1, <1>3, <1>4, <1>5

LEMMA StartBatchStep ==
    ASSUME IInv, NEW i \in Importers, StartBatch(i)
    PROVE  IInv'
<1>. USE RedoLogAssumption DEF IInv, CallerSide
<1>1. CallerTypes'
  BY DEF StartBatch, CallerTypes, CallersOK, LogTypes, Callers, Labels, ClientLabels, Reasons, Op, Ops,
     diskVars, writerVars, sharedVars, callerVars, histVars
<1>2. pc[Owner] = "idle" /\ pc'[Owner] = "idle"
  BY DEF StartBatch, CallerTypes, CallersOK, Opened, Callers, diskVars, writerVars, sharedVars,
     callerVars, histVars
<1>3. CallersOK'
  BY <1>2 DEF StartBatch, CallerTypes, CallersOK, Working, Callers, ClientLabels, Op, diskVars,
     writerVars, sharedVars, callerVars, histVars
<1>4. BuffersLive'
  <2>1. Range(<<>>) = {}
    BY EmptyRange
  <2>. QED  BY <2>1 DEF StartBatch, BuffersLive, callerVars
<1>5. LogSide'
  BY <1>2, CallersLeaveLog DEF StartBatch, CallerTypes, CallersOK, LogSide, LogTypes, Working, Op, Ops,
     Messages, Callers, diskVars, writerVars, sharedVars, callerVars, histVars
<1>. QED  BY <1>1, <1>3, <1>4, <1>5

LEMMA EndBatchStep ==
    ASSUME IInv, NEW i \in Importers, EndBatch(i)
    PROVE  IInv'
<1>. USE RedoLogAssumption DEF IInv, CallerSide
<1>1. CallerTypes'
  BY DEF EndBatch, CallerTypes, CallersOK, LogTypes, Goto, Because, Callers, Labels, ClientLabels,
     Reasons, Op, Ops, diskVars, writerVars, sharedVars, batchVars, histVars
<1>2. pc[Owner] = "idle" /\ pc'[Owner] = "idle"
  BY DEF EndBatch, CallerTypes, CallersOK, Opened, Goto, Because, Callers, diskVars, writerVars,
     sharedVars, batchVars, histVars
<1>3. CallersOK'
  BY <1>2 DEF EndBatch, CallerTypes, CallersOK, Working, Goto, Because, Callers, ClientLabels, Op,
     diskVars, writerVars, sharedVars, batchVars, histVars
<1>4. BuffersLive'
  BY <1>2 DEF EndBatch, CallerTypes, CallersOK, BuffersLive, Working, Goto, diskVars, writerVars,
     sharedVars, batchVars, histVars
<1>5. LogSide'
  BY <1>2, CallersLeaveLog DEF EndBatch, CallerTypes, CallersOK, LogSide, LogTypes, Working, Op, Ops,
     Messages, Callers, diskVars, writerVars, sharedVars, batchVars, histVars
<1>. QED  BY <1>1, <1>3, <1>4, <1>5

LEMMA ClearStep ==
    ASSUME IInv, NEW i \in Importers, Clear(i)
    PROVE  IInv'
<1>. USE RedoLogAssumption DEF IInv, CallerSide
<1>1. CallerTypes'
  BY DEF Clear, CallerTypes, CallersOK, LogTypes, Goto, Because, Callers, Labels, ClientLabels, Reasons,
     Op, Ops, diskVars, writerVars, sharedVars
<1>2. pc[Owner] = "idle" /\ pc'[Owner] = "idle"
  BY DEF Clear, CallerTypes, CallersOK, Goto, Because, Callers, diskVars, writerVars, sharedVars
<1>3. CallersOK'
  BY <1>2 DEF Clear, CallerTypes, CallersOK, Working, Goto, Because, Callers, ClientLabels, Op, diskVars,
     writerVars, sharedVars
<1>4. BuffersLive'
  BY <1>2 DEF Clear, CallerTypes, CallersOK, BuffersLive, Working, Goto, diskVars, writerVars, sharedVars
<1>5. LogSide'
  BY <1>2, CallersLeaveLog DEF Clear, CallerTypes, CallersOK, LogSide, LogTypes, Working, Op, Ops,
     Messages, Callers, diskVars, writerVars, sharedVars
<1>. QED  BY <1>1, <1>3, <1>4, <1>5

LEMMA TickStep ==
    ASSUME IInv, Tick
    PROVE  IInv'
<1>. USE RedoLogAssumption DEF IInv, CallerSide
<1>1. CallerTypes'
  BY DEF Tick, CallerTypes, CallersOK, LogTypes, Goto, Because, Callers, Labels, ClientLabels, Reasons,
     Op, Ops, diskVars, writerVars, sharedVars, batchVars, histVars
<1>2. pc[Owner] = "idle" /\ pc'[Owner] = "idle"
  BY DEF Tick, CallerTypes, CallersOK, Goto, Because, Callers, diskVars, writerVars, sharedVars,
     batchVars, histVars
<1>3. CallersOK'
  BY <1>2 DEF Tick, CallerTypes, CallersOK, Working, Goto, Because, Callers, ClientLabels, Op, diskVars,
     writerVars, sharedVars, batchVars, histVars
<1>4. BuffersLive'
  BY <1>2 DEF Tick, CallerTypes, CallersOK, BuffersLive, Working, Goto, diskVars, writerVars, sharedVars,
     batchVars, histVars
<1>5. LogSide'
  BY <1>2, CallersLeaveLog DEF Tick, CallerTypes, CallersOK, LogSide, LogTypes, Working, Op, Ops,
     Messages, Callers, diskVars, writerVars, sharedVars, batchVars, histVars
<1>. QED  BY <1>1, <1>3, <1>4, <1>5

LEMMA TakeStep ==
    ASSUME IInv, NEW c \in Callers \ {Owner}, Take(c)
    PROVE  IInv'
<1>. USE RedoLogAssumption DEF IInv, CallerSide
<1>1. CallerTypes'
  <2>1. OnOk[why[c]] \in Labels
    BY DEF Take, CallersOK, OnOk, Labels
  <2>2. buffer \notin {Off, <<>>} => buffer \in Seq(Ops)
    BY DEF CallerTypes
  <2>3. hand' \in [Callers -> Seq(Ops)] /\ buffer' \in Seq(Ops) \cup {Off}
    <3>1. CASE buffer \in {Off, <<>>}
      BY <3>1 DEF Take, CallerTypes
    <3>2. CASE buffer \notin {Off, <<>>}
      <4>1. hand' = [hand EXCEPT ![c] = buffer] /\ buffer' = <<>>
        BY <3>2 DEF Take
      <4>2. buffer \in Seq(Ops) /\ hand \in [Callers -> Seq(Ops)] /\ <<>> \in Seq(Ops)
        BY <2>2, <3>2 DEF CallerTypes
      <4>. QED  BY <4>1, <4>2
    <3>. QED  BY <3>1, <3>2
  <2>4. pc' \in [Callers -> Labels]
    BY <2>1 DEF Take, CallerTypes, Goto, Labels
  <2>. QED  BY <2>3, <2>4 DEF Take, CallerTypes, histVars
<1>2. pc[Owner] = "idle" /\ pc'[Owner] = "idle"
  BY DEF Take, CallerTypes, CallersOK, Goto, Callers, OnOk, diskVars, writerVars, sharedVars, histVars
<1>3. CallersOK'
  BY <1>2 DEF Take, CallerTypes, CallersOK, Working, Goto, Callers, ClientLabels, Op, OnOk, diskVars,
     writerVars, sharedVars, histVars
<1>4. BuffersLive'
  <2>1. Range(<<>>) = {}
    BY EmptyRange
  <2>. QED  BY <2>1 DEF Take, CallerTypes, BuffersLive
<1>5. LogSide'
  BY <1>2, CallersLeaveLog DEF Take, CallerTypes, CallersOK, LogSide, LogTypes, Working, Op, Ops,
     Messages, Callers, diskVars, writerVars, sharedVars, histVars
<1>. QED  BY <1>1, <1>3, <1>4, <1>5

LEMMA SendBatchStep ==
    ASSUME IInv, NEW c \in Callers \ {Owner}, SendBatch(c)
    PROVE  IInv'
<1>. USE RedoLogAssumption DEF IInv, CallerSide
<1>1. CallerTypes'
  BY DEF SendBatch, CallerTypes, CallersOK, LogTypes, Goto, Callers, Labels, ClientLabels, Reasons, Op,
     Ops, diskVars, writerVars, sharedVars, histVars
<1>2. pc[Owner] = "idle" /\ pc'[Owner] = "idle"
  BY DEF SendBatch, CallerTypes, CallersOK, Goto, Callers, diskVars, writerVars, sharedVars, histVars
<1>3. CallersOK'
  BY <1>2 DEF SendBatch, CallerTypes, CallersOK, Working, Goto, Callers, ClientLabels, Op, diskVars,
     writerVars, sharedVars, histVars
<1>4. BuffersLive'
  <2>1. Range(<<>>) = {}
    BY EmptyRange
  <2>. QED  BY <2>1 DEF SendBatch, CallerTypes, BuffersLive
<1>5. LogSide'
  <2>. DEFINE m == Message("batch", hand[c], c)
  <2>1. m \in Messages /\ m.kind # "renew" /\ m.entries = hand[c]
    BY DEF Message, Messages, CallerTypes
  <2>2. Range(m.entries) \subseteq live
    BY <2>1 DEF BuffersLive
  <2>3. queue' = Append(queue, m)
    BY DEF SendBatch
  <2>. HIDE DEF m
  <2>. QED  BY <1>2, <2>1, <2>2, <2>3, CallersLeaveLog DEF SendBatch, LogSide, LogTypes, diskVars,
               writerVars, sharedVars
<1>. QED  BY <1>1, <1>3, <1>4, <1>5

LEMMA SendFlushStep ==
    ASSUME IInv, NEW c \in Callers \ {Owner}, SendFlush(c)
    PROVE  IInv'
<1>. USE RedoLogAssumption DEF IInv, CallerSide
<1>1. CallerTypes'
  BY DEF SendFlush, CallerTypes, CallersOK, LogTypes, Goto, Callers, Labels, ClientLabels, Reasons, Op,
     Ops, diskVars, writerVars, sharedVars, batchVars, histVars
<1>2. pc[Owner] = "idle" /\ pc'[Owner] = "idle"
  BY DEF SendFlush, CallerTypes, CallersOK, Goto, Callers, diskVars, writerVars, sharedVars, batchVars,
     histVars
<1>3. CallersOK'
  BY <1>2 DEF SendFlush, CallerTypes, CallersOK, Working, Goto, Callers, ClientLabels, Op, diskVars,
     writerVars, sharedVars, batchVars, histVars
<1>4. BuffersLive'
  BY <1>2 DEF SendFlush, CallerTypes, CallersOK, BuffersLive, Working, Goto, diskVars, writerVars,
     sharedVars, batchVars, histVars
<1>5. LogSide'
  <2>. DEFINE m == Message("flush", <<>>, c)
  <2>1. m \in Messages /\ m.kind # "renew" /\ m.entries = <<>>
    BY DEF Message, Messages
  <2>2. Range(m.entries) \subseteq live
    BY <2>1, EmptyRange
  <2>3. queue' = Append(queue, m)
    BY DEF SendFlush
  <2>. HIDE DEF m
  <2>. QED  BY <1>2, <2>1, <2>2, <2>3, CallersLeaveLog DEF SendFlush, LogSide, LogTypes, diskVars,
               writerVars, sharedVars
<1>. QED  BY <1>1, <1>3, <1>4, <1>5

LEMMA FlushedStep ==
    ASSUME IInv, NEW c \in Callers \ {Owner}, Flushed(c)
    PROVE  IInv'
<1>. USE RedoLogAssumption DEF IInv, CallerSide
<1>1. CallerTypes'
  BY DEF Flushed, CallerTypes, CallersOK, LogTypes, Goto, Because, Callers, Labels, ClientLabels,
     Reasons, Op, Ops, OnOk, OnError, diskVars, writerVars, batchVars, histVars
<1>2. pc[Owner] = "idle" /\ pc'[Owner] = "idle"
  BY DEF Flushed, CallerTypes, CallersOK, Goto, Because, Callers, OnOk, OnError, diskVars, writerVars,
     batchVars, histVars
<1>3. CallersOK'
  BY <1>2 DEF Flushed, CallerTypes, CallersOK, Working, Goto, Because, Callers, ClientLabels, Op, OnOk,
     OnError, diskVars, writerVars, batchVars, histVars
<1>4. BuffersLive'
  BY <1>2 DEF Flushed, CallerTypes, CallersOK, BuffersLive, Working, Goto, diskVars, writerVars,
     batchVars, histVars
<1>5. LogSide'
  BY <1>2, CallersLeaveLog DEF Flushed, CallerTypes, CallersOK, LogSide, LogTypes, Working, Op, Ops,
     Messages, Callers, diskVars, writerVars, batchVars, histVars
<1>. QED  BY <1>1, <1>3, <1>4, <1>5

-----------------------------------------------------------------------------
(***************************************************************************)
(* The writer thread.                                                      *)
(***************************************************************************)
LEMMA WriterLeavesCallers ==
    ASSUME IInv, UNCHANGED <<batchVars, callerVars, histVars>>
    PROVE  CallerSide'
BY DEF IInv, CallerSide, CallerTypes, CallersOK, BuffersLive, Working, Op, batchVars, callerVars, histVars

\* A log of one empty file.
LEMMA NothingRead ==
    ASSUME NEW fs \in Seq(Seq(Records)), Len(fs) = 1, Len(fs[1]) = 0
    PROVE  ReadOf(fs) = {}
<1>1. fs[1] \in Seq(Records)
  OBVIOUS
<1>2. \A i \in 1..Len(fs[1]) : fs[1][i] # Torn
  OBVIOUS
<1>3. Readable(fs[1]) = fs[1]
  BY <1>1, <1>2, ReadableRecords
<1>4. Range(fs[1]) = {}
  BY <1>1 DEF Range
<1>5. \A k \in 1..Len(fs) : k = 1
  OBVIOUS
<1>. QED  BY <1>3, <1>4, <1>5, ReadRecords

LEMMA FreshLog ==
    ASSUME files' = <<(<<>>)>>
    PROVE  files' \in Seq(Seq(Records)) /\ Len(files') = 1 /\ Len(files'[1]) = 0 /\ Logged' = {}
<1>. DEFINE e == <<>>
<1>1. e \in Seq(Records) /\ Len(e) = 0
  OBVIOUS
<1>2. files' = <<e>>
  OBVIOUS
<1>. HIDE DEF e
<1>3. Len(files') = 1 /\ files'[1] = e /\ files' \in Seq(Seq(Records))
  BY <1>1, <1>2
<1>4. ReadOf(files') = {}
  BY <1>1, <1>3, NothingRead
<1>. QED  BY <1>1, <1>3, <1>4, LoggedIsRead

LEMMA FlushNothingStep ==
    ASSUME IInv, FlushNothing
    PROVE  IInv'
<1>. USE RedoLogAssumption DEF IInv, LogSide
<1>1. LogTypes'
  BY DEF FlushNothing, Advance, AfterFlush, LogTypes, WriterOK, Messages, diskVars, batchVars,
     callerVars, histVars
<1>2. WriterOK'
  BY DEF FlushNothing, Advance, AfterFlush, LogTypes, WriterOK, OpeningOK, diskVars, batchVars,
     callerVars, histVars
<1>3. OpeningOK'
  BY DEF FlushNothing, Advance, AfterFlush, LogTypes, WriterOK, OpeningOK, CallerSide, CallersOK, Asked,
     Message, diskVars, batchVars, callerVars, histVars
<1>4. LogLive'
  <2>1. UNCHANGED files => Logged' = Logged
    BY SameFiles
  <2>. QED  BY <2>1 DEF FlushNothing, Advance, AfterFlush, LogTypes, LogLive, diskVars, batchVars,
               callerVars, histVars
<1>5. CallerSide'
  BY WriterLeavesCallers DEF FlushNothing, diskVars, batchVars, callerVars, histVars
<1>. QED  BY <1>1, <1>2, <1>3, <1>4, <1>5

LEMMA SweepStep ==
    ASSUME IInv, Sweep
    PROVE  IInv'
<1>. USE RedoLogAssumption DEF IInv, LogSide
<1>1. LogTypes'
  BY DEF Sweep, LogTypes, WriterOK, CallerSide, CallerTypes, Messages, sharedVars, batchVars, callerVars,
     histVars
<1>2. WriterOK'
  BY DEF Sweep, LogTypes, WriterOK, OpeningOK, sharedVars, batchVars, callerVars, histVars
<1>3. OpeningOK'
  BY DEF Sweep, LogTypes, WriterOK, OpeningOK, CallerSide, CallersOK, Asked, Message, sharedVars,
     batchVars, callerVars, histVars
<1>4. LogLive'
  <2>1. UNCHANGED files => Logged' = Logged
    BY SameFiles
  <2>2. pc[Owner] # "down"
    BY DEF Sweep, OpeningOK
  <2>. QED  BY <2>1, <2>2 DEF Sweep, LogLive, sharedVars, batchVars, callerVars, histVars
<1>5. CallerSide'
  BY WriterLeavesCallers DEF Sweep, sharedVars, batchVars, callerVars, histVars
<1>. QED  BY <1>1, <1>2, <1>3, <1>4, <1>5

LEMMA RotateFailsStep ==
    ASSUME IInv, RotateFails
    PROVE  IInv'
<1>. USE RedoLogAssumption DEF IInv, LogSide
<1>1. LogTypes'
  BY DEF RotateFails, Advance, AfterFlush, LogTypes, WriterOK, Messages, diskVars, batchVars, callerVars,
     histVars
<1>2. WriterOK'
  BY DEF RotateFails, Advance, AfterFlush, LogTypes, WriterOK, OpeningOK, diskVars, batchVars,
     callerVars, histVars
<1>3. OpeningOK'
  BY DEF RotateFails, Advance, AfterFlush, LogTypes, WriterOK, OpeningOK, CallerSide, CallersOK, Asked,
     Message, diskVars, batchVars, callerVars, histVars
<1>4. LogLive'
  <2>1. UNCHANGED files => Logged' = Logged
    BY SameFiles
  <2>. QED  BY <2>1 DEF RotateFails, Advance, AfterFlush, LogTypes, LogLive, diskVars, batchVars,
               callerVars, histVars
<1>5. CallerSide'
  BY WriterLeavesCallers DEF RotateFails, diskVars, batchVars, callerVars, histVars
<1>. QED  BY <1>1, <1>2, <1>3, <1>4, <1>5

LEMMA AnswerStep ==
    ASSUME IInv, Answer
    PROVE  IInv'
<1>. USE RedoLogAssumption DEF IInv, LogSide
<1>0. /\ step' \in {"recv", "trim", "stopped"} /\ (step' = "trim" => task.kind = "renew")
      /\ task \in Messages /\ task.kind \in {"flush", "renew", "shutdown"}
      /\ cur' = (IF task.kind = "renew" THEN 0 ELSE cur)
      /\ UNCHANGED <<diskVars, batch, task, round, faults, error, observed, queue, batchVars,
                     callerVars, histVars>>
  BY DEF Answer, WriterOK
<1>1. LogTypes'
  BY DEF Answer, LogTypes, WriterOK, Messages, diskVars, batchVars, callerVars, histVars
<1>2. WriterOK'
  <2>1. task.kind = "renew" => pc[Owner] = "done" /\ queue = <<>> /\ batch = <<>>
    BY DEF Answer, WriterOK, OpeningOK, CallersOK, CallerSide
  <2>2. step = "answer" /\ (step' = "trim" <=> task.kind = "renew")
    BY <1>0 DEF Answer
  <2>. QED  BY <1>0, <2>1, <2>2 DEF WriterOK, diskVars, writerVars, sharedVars, batchVars, callerVars,
               histVars
<1>3. OpeningOK'
  BY DEF Answer, LogTypes, WriterOK, OpeningOK, CallerSide, CallersOK, Asked, Message, diskVars,
     batchVars, callerVars, histVars
<1>4. LogLive'
  <2>1. Logged' = Logged
    BY <1>0, SameFiles DEF diskVars
  <2>. QED  BY <1>0, <2>1 DEF LogLive, diskVars, writerVars, sharedVars, batchVars, callerVars, histVars
<1>5. CallerSide'
  BY WriterLeavesCallers DEF Answer, diskVars, batchVars, callerVars, histVars
<1>. QED  BY <1>1, <1>2, <1>3, <1>4, <1>5

LEMMA RenewedStep ==
    ASSUME IInv, Renewed
    PROVE  IInv'
<1>. USE RedoLogAssumption DEF IInv, LogSide
<1>1. LogTypes'
  <2>1. task \in Messages /\ task.from \in Callers
    BY DEF Renewed, WriterOK, Messages
  <2>2. files' \in Seq(Seq(Records)) /\ Len(files') = 1
    BY FreshLog DEF Renewed
  <2>3. /\ cur' = 1 /\ error' = FALSE /\ observed' = {} /\ step' = "recv"
        /\ answered' = answered \cup {task.from}
        /\ UNCHANGED <<flushed, batch, task, round, faults, queue>>
    BY DEF Renewed, Advance
  <2>4. cur' \in 0..Len(files')
    BY <2>2, <2>3
  <2>5. answered' \subseteq Callers
    BY <2>1, <2>3 DEF LogTypes
  <2>6. LogTypes
    OBVIOUS
  <2>. HIDE DEF IInv, LogSide
  <2>7. error' \in BOOLEAN
    BY <2>3, Zenon
  <2>. QED  BY <2>2, <2>3, <2>4, <2>5, <2>6, <2>7 DEF LogTypes
<1>2. WriterOK'
  BY DEF Renewed, Advance, LogTypes, WriterOK, OpeningOK, batchVars, callerVars, histVars
<1>3. OpeningOK'
  BY DEF Renewed, Advance, LogTypes, WriterOK, OpeningOK, CallerSide, CallersOK, Asked, Message,
     batchVars, callerVars, histVars
<1>4. LogLive'
  <2>1. Logged' = {}
    BY FreshLog DEF Renewed
  <2>. QED  BY <2>1 DEF Renewed, Advance, LogLive, batchVars, callerVars, histVars
<1>5. CallerSide'
  BY WriterLeavesCallers DEF Renewed, batchVars, callerVars, histVars
<1>. QED  BY <1>1, <1>2, <1>3, <1>4, <1>5

LEMMA RenewFailsStep ==
    ASSUME IInv, RenewFails
    PROVE  IInv'
<1>. USE RedoLogAssumption DEF IInv, LogSide
<1>1. LogTypes'
  BY DEF RenewFails, Advance, LogTypes, WriterOK, Messages, diskVars, batchVars, callerVars, histVars
<1>2. WriterOK'
  BY DEF RenewFails, Advance, LogTypes, WriterOK, OpeningOK, diskVars, batchVars, callerVars, histVars
<1>3. OpeningOK'
  BY DEF RenewFails, Advance, LogTypes, WriterOK, OpeningOK, CallerSide, CallersOK, Asked, Message,
     diskVars, batchVars, callerVars, histVars
<1>4. LogLive'
  <2>1. UNCHANGED files => Logged' = Logged
    BY SameFiles
  <2>. QED  BY <2>1 DEF RenewFails, Advance, LogTypes, LogLive, diskVars, batchVars, callerVars, histVars
<1>5. CallerSide'
  BY WriterLeavesCallers DEF RenewFails, diskVars, batchVars, callerVars, histVars
<1>. QED  BY <1>1, <1>2, <1>3, <1>4, <1>5

\* What a failing write or a crash leaves of the batch.
LEMMA PartialBatch ==
    ASSUME batch \in Seq(Ops), NEW part \in PartOfBatch
    PROVE  part \in Seq(Records) /\ Range(part) \subseteq Range(batch) \cup {Torn}
<1>1. batch \in Seq(Records) /\ Torn \in Records
  BY DEF Records
<1>2. ASSUME NEW n \in 0..Len(batch)
      PROVE  SubSeq(batch, 1, n) \in Seq(Records) /\ Range(SubSeq(batch, 1, n)) \subseteq Range(batch)
  <2>. DEFINE s == SubSeq(batch, 1, n)
  <2>1. s \in Seq(Records) /\ Len(s) = n /\ \A k \in 1..n : s[k] = batch[k] /\ k \in 1..Len(batch)
    BY <1>1
  <2>. HIDE DEF s
  <2>2. ASSUME NEW r \in Range(s) PROVE r \in Range(batch)
    <3>1. PICK k \in 1..n : r = s[k]
      BY <2>1, InRange
    <3>. QED  BY <2>1, <3>1, InRange
  <2>3. s \in Seq(Records) /\ Range(s) \subseteq Range(batch)
    BY <2>1, <2>2
  <2>. QED  BY <2>3 DEF s
<1>3. ASSUME NEW s \in Seq(Records)
      PROVE  Append(s, Torn) \in Seq(Records) /\ Range(Append(s, Torn)) = Range(s) \cup {Torn}
  <2>. DEFINE t == <<Torn>>
  <2>1. Append(s, Torn) = s \o t /\ t \in Seq(Records) /\ Append(s, Torn) \in Seq(Records)
    BY <1>1
  <2>2. Range(t) = {Torn}
    <3>1. DOMAIN t = {1} /\ t[1] = Torn
      OBVIOUS
    <3>. QED  BY <3>1 DEF Range
  <2>. HIDE DEF t
  <2>3. Range(s \o t) = Range(s) \cup Range(t)
    BY <2>1, RangeConcat
  <2>. QED  BY <2>1, <2>2, <2>3
<1>4. \A n \in 0..(Len(batch) - 1) : n \in 0..Len(batch)
  OBVIOUS
<1>. QED  BY <1>2, <1>3, <1>4 DEF PartOfBatch

LEMMA RotateStep ==
    ASSUME IInv, Rotate
    PROVE  IInv'
<1>. USE RedoLogAssumption DEF IInv, LogSide
<1>0. files' \in Seq(Seq(Records)) /\ Len(files') = Len(files) + 1 /\ Logged' = Logged
  BY AddedFile DEF Rotate, LogTypes
<1>1. LogTypes'
  BY <1>0 DEF Rotate, LogTypes, sharedVars, batchVars, callerVars, histVars
<1>2. WriterOK'
  BY <1>0 DEF Rotate, LogTypes, WriterOK, sharedVars, batchVars, callerVars, histVars
<1>3. OpeningOK'
  BY DEF Rotate, LogTypes, WriterOK, OpeningOK, CallerSide, CallersOK, sharedVars, batchVars, callerVars,
     histVars
<1>4. LogLive'
  BY <1>0 DEF Rotate, LogLive, sharedVars, batchVars, callerVars, histVars
<1>5. CallerSide'
  BY WriterLeavesCallers DEF Rotate, sharedVars, batchVars, callerVars, histVars
<1>. QED  BY <1>1, <1>2, <1>3, <1>4, <1>5

LEMMA RemoveOldStep ==
    ASSUME IInv, RemoveOld
    PROVE  IInv'
<1>. USE RedoLogAssumption DEF IInv, LogSide
<1>0. /\ files' \in Seq(Seq(Records)) /\ Len(files') = Len(files) - 1 /\ Logged' \subseteq Logged
      /\ cur \in 1..Len(files) /\ Len(files') >= 1 /\ cur' = Len(files') /\ pc[Owner] \notin {"down", "done"}
  <2>1. cur \in 1..Len(files) /\ cur < Len(files)
    BY DEF RemoveOld, LogTypes, WriterOK
  <2>2. pc[Owner] \notin {"down", "done"}
    BY DEF RemoveOld, OpeningOK, Asked, WriterOK
  <2>. QED  BY <2>1, <2>2, DroppedFile DEF RemoveOld, LogTypes
<1>1. LogTypes'
  <2>1. round' \in 0..2 /\ cur' \in 0..Len(files') /\ step' = "flush"
    BY <1>0 DEF RemoveOld, LogTypes, WriterOK
  <2>. QED  BY <1>0, <2>1 DEF RemoveOld, LogTypes, sharedVars
<1>2. WriterOK'
  <2>1. cur' # 0 /\ step' = "flush" /\ task' = task /\ task \in Messages
    BY <1>0 DEF RemoveOld, WriterOK
  <2>. QED  BY <2>1 DEF WriterOK
<1>3. OpeningOK'
  BY <1>0 DEF RemoveOld, LogTypes, WriterOK, OpeningOK, CallerSide, CallersOK, sharedVars, batchVars,
     callerVars, histVars
<1>4. LogLive'
  BY <1>0 DEF RemoveOld, LogLive, sharedVars, batchVars, callerVars, histVars
<1>5. CallerSide'
  BY WriterLeavesCallers DEF RemoveOld, sharedVars, batchVars, callerVars, histVars
<1>. QED  BY <1>1, <1>2, <1>3, <1>4, <1>5

LEMMA WriteBatchStep ==
    ASSUME IInv, WriteBatch
    PROVE  IInv'
<1>. USE RedoLogAssumption DEF IInv, LogSide
<1>0. /\ files' \in Seq(Seq(Records)) /\ Len(files') = Len(files) /\ Logged' \subseteq Logged \cup Range(batch)
      /\ pc[Owner] \notin {"down", "done"}
  <2>1. cur \in 1..Len(files)
    BY DEF WriteBatch, LogTypes, WriterOK
  <2>2. pc[Owner] \notin {"down", "done"}
    BY DEF WriteBatch, OpeningOK
  <2>3. batch \in Seq(Records)
    BY DEF LogTypes, Records
  <2>. QED  BY <2>1, <2>2, <2>3, WrittenFile DEF WriteBatch, LogTypes
<1>1. LogTypes'
  <2>1. /\ batch' = <<>> /\ error' = FALSE /\ observed' = {} /\ round' = 0 /\ step' \in {"answer", "recv"}
        /\ UNCHANGED <<flushed, cur, task, faults, answered, queue>>
    BY DEF WriteBatch, Advance, AfterFlush
  <2>2. error' \in BOOLEAN
    BY <2>1, Zenon
  <2>3. batch' \in Seq(Ops) /\ observed' \subseteq Appenders /\ round' \in 0..2
    BY <2>1
  <2>. QED  BY <1>0, <2>1, <2>2, <2>3 DEF LogTypes
<1>2. WriterOK'
  BY <1>0 DEF WriteBatch, AfterFlush, LogTypes, WriterOK, batchVars, callerVars, histVars
<1>3. OpeningOK'
  BY <1>0 DEF WriteBatch, AfterFlush, LogTypes, WriterOK, OpeningOK, CallerSide, CallersOK, batchVars,
     callerVars, histVars
<1>4. LogLive'
  <2>1. Range(<<>>) = {}
    BY EmptyRange
  <2>. QED  BY <1>0, <2>1 DEF WriteBatch, AfterFlush, LogLive, batchVars, callerVars, histVars
<1>5. CallerSide'
  BY WriterLeavesCallers DEF WriteBatch, batchVars, callerVars, histVars
<1>. QED  BY <1>1, <1>2, <1>3, <1>4, <1>5

LEMMA WriteFailsStep ==
    ASSUME IInv, WriteFails
    PROVE  IInv'
<1>. USE RedoLogAssumption DEF IInv, LogSide
<1>0. /\ files' \in Seq(Seq(Records)) /\ Len(files') = Len(files) /\ Logged' \subseteq Logged \cup Range(batch)
      /\ pc[Owner] \notin {"down", "done"}
  <2>1. cur \in 1..Len(files)
    BY DEF WriteFails, LogTypes, WriterOK
  <2>2. pc[Owner] \notin {"down", "done"}
    BY DEF WriteFails, OpeningOK
  <2>3. PICK part \in PartOfBatch : files' = [files EXCEPT ![cur] = @ \o part]
    BY DEF WriteFails
  <2>4. part \in Seq(Records) /\ Range(part) \subseteq Range(batch) \cup {Torn}
    BY <2>3, PartialBatch DEF LogTypes
  <2>. QED  BY <2>1, <2>2, <2>3, <2>4, WrittenFile DEF WriteFails, LogTypes
<1>1. LogTypes'
  BY <1>0 DEF WriteFails, Advance, AfterFlush, LogTypes, WriterOK, batchVars, callerVars, histVars
<1>2. WriterOK'
  BY <1>0 DEF WriteFails, AfterFlush, LogTypes, WriterOK, batchVars, callerVars, histVars
<1>3. OpeningOK'
  BY <1>0 DEF WriteFails, AfterFlush, LogTypes, WriterOK, OpeningOK, CallerSide, CallersOK, batchVars,
     callerVars, histVars
<1>4. LogLive'
  <2>1. Range(<<>>) = {}
    BY EmptyRange
  <2>. QED  BY <1>0, <2>1 DEF WriteFails, AfterFlush, LogLive, batchVars, callerVars, histVars
<1>5. CallerSide'
  BY WriterLeavesCallers DEF WriteFails, batchVars, callerVars, histVars
<1>. QED  BY <1>1, <1>2, <1>3, <1>4, <1>5

LEMMA TrimOneStep ==
    ASSUME IInv, TrimOne
    PROVE  IInv'
<1>. USE RedoLogAssumption DEF IInv, LogSide
<1>0. PICK i \in DOMAIN files : files' = RemoveAt(files, i)
  BY DEF TrimOne
<1>01. /\ files' \in Seq(Seq(Records)) /\ Logged' \subseteq Logged /\ Len(files') \in Nat
       /\ cur = 0 /\ pc[Owner] \notin {"down"}
  <2>1. i \in 1..Len(files)
    BY DEF LogTypes
  <2>2. pc[Owner] # "down" /\ cur = 0
    BY DEF TrimOne, OpeningOK, WriterOK
  <2>3. files' \in Seq(Seq(Records)) /\ Logged' \subseteq Logged
    BY <1>0, <2>1, DroppedFile DEF LogTypes
  <2>. QED  BY <2>2, <2>3
<1>1. LogTypes'
  BY <1>01 DEF TrimOne, LogTypes, writerVars, sharedVars, batchVars, callerVars, histVars
<1>2. WriterOK'
  BY <1>01 DEF TrimOne, WriterOK, writerVars, sharedVars, batchVars, callerVars, histVars
<1>3. OpeningOK'
  BY <1>01 DEF TrimOne, LogTypes, WriterOK, OpeningOK, CallerSide, CallersOK, Asked, Message, writerVars,
     sharedVars, batchVars, callerVars, histVars
<1>4. LogLive'
  BY <1>01 DEF TrimOne, LogLive, writerVars, sharedVars, batchVars, callerVars, histVars
<1>5. CallerSide'
  BY WriterLeavesCallers DEF TrimOne, writerVars, sharedVars, batchVars, callerVars, histVars
<1>. QED  BY <1>1, <1>2, <1>3, <1>4, <1>5

LEMMA TakenMessage ==
    ASSUME NEW q \in Seq(Messages), q # <<>>
    PROVE  /\ Head(q) \in Messages /\ Head(q) = q[1] /\ Tail(q) \in Seq(Messages)
           /\ 1 \in DOMAIN q /\ \A k \in DOMAIN Tail(q) : k + 1 \in DOMAIN q /\ Tail(q)[k] = q[k + 1]
OBVIOUS

LEMMA ReceiveStep ==
    ASSUME IInv, Receive
    PROVE  IInv'
<1>. USE RedoLogAssumption DEF IInv, LogSide
<1>0. queue \in Seq(Messages) /\ queue # <<>> /\ task' = Head(queue) /\ queue' = Tail(queue)
  BY DEF Receive, LogTypes
<1>01. /\ task' \in Messages /\ task' = queue[1] /\ 1 \in DOMAIN queue /\ queue' \in Seq(Messages)
       /\ \A k \in DOMAIN queue' : k + 1 \in DOMAIN queue /\ queue'[k] = queue[k + 1]
  BY <1>0, TakenMessage
<1>02. /\ batch' = batch \o task'.entries /\ batch \in Seq(Ops) /\ task'.entries \in Seq(Ops)
       /\ batch' \in Seq(Ops) /\ Range(batch') = Range(batch) \cup Range(task'.entries)
  <2>1. batch' = batch \o task'.entries /\ batch \in Seq(Ops) /\ task'.entries \in Seq(Ops)
    BY <1>01 DEF Receive, LogTypes, Messages
  <2>. QED  BY <2>1, RangeConcat
<1>03. cur = 0 => batch' = <<>>
  <2>1. cur = 0 => batch = <<>> /\ task'.entries = <<>>
    BY <1>01 DEF WriterOK
  <2>. QED  BY <1>02, <2>1
<1>04. /\ step = "recv" /\ step' \in {"recv", "flush"} /\ (task'.kind # "batch" => step' = "flush")
       /\ UNCHANGED <<diskVars, cur, round, faults, sharedVars, batchVars, callerVars, histVars>>
  BY DEF Receive
<1>1. LogTypes'
  BY <1>01, <1>02, <1>04 DEF LogTypes, diskVars, writerVars, sharedVars, batchVars, callerVars, histVars
<1>2. WriterOK'
  BY <1>01, <1>03, <1>04 DEF WriterOK, diskVars, writerVars, sharedVars, batchVars, callerVars, histVars
<1>3. OpeningOK'
  <2>1. pc[Owner] \notin {"down", "replayed", "flush", "trim", "shut"}
    BY <1>0 DEF OpeningOK
  <2>2. ASSUME pc[Owner] = "done"
        PROVE  /\ batch' = <<>> /\ queue' = <<>> /\ task' = Asked /\ Asked' = Asked
               /\ step' = "flush" /\ Owner \notin answered /\ answered' = answered
    <3>1. queue = <<Asked>> /\ Owner \notin answered /\ batch = <<>>
      BY <1>0, <2>2 DEF OpeningOK
    <3>2. task' = Asked /\ queue' = <<>>
      BY <1>0, <3>1
    <3>3. Asked.entries = <<>> /\ Asked.kind # "batch"
      BY DEF Asked, Message
    <3>4. batch' = <<>>
      BY <1>02, <3>1, <3>2, <3>3
    <3>5. Asked' = Asked
      BY <1>04 DEF Asked, callerVars
    <3>. QED  BY <1>04, <3>1, <3>2, <3>3, <3>4, <3>5 DEF sharedVars
  <2>3. pc' = pc
    BY <1>04 DEF callerVars
  <2>4. ASSUME pc[Owner] \in {"idle", "stopped"}
        PROVE  /\ \A k \in DOMAIN queue' : queue'[k].kind # "renew"
               /\ step' # "trim" /\ task'.kind # "renew"
    BY <1>01, <1>04, <2>4 DEF OpeningOK
  <2>. QED  BY <2>1, <2>2, <2>3, <2>4 DEF OpeningOK
<1>4. LogLive'
  <2>1. Logged' = Logged
    BY <1>04, SameFiles DEF diskVars
  <2>2. Range(batch') \subseteq live /\ \A k \in DOMAIN queue' : Range(queue'[k].entries) \subseteq live
    BY <1>01, <1>02 DEF LogLive
  <2>. QED  BY <1>04, <2>1, <2>2 DEF LogLive, diskVars, writerVars, sharedVars, batchVars, callerVars,
               histVars
<1>5. CallerSide'
  BY <1>04, WriterLeavesCallers
<1>. QED  BY <1>1, <1>2, <1>3, <1>4, <1>5

-----------------------------------------------------------------------------
(***************************************************************************)
(* The owner opens and closes the graph, and the process dies.             *)
(***************************************************************************)
LEMMA OwnerApart == Owner \in Callers /\ Owner \notin Appenders
BY RedoLogAssumption DEF Callers

LEMMA ReplayStep ==
    ASSUME IInv, Replay
    PROVE  IInv'
<1>. USE RedoLogAssumption DEF IInv, LogSide, CallerSide
<1>0. /\ pc[Owner] = "down" /\ pc'[Owner] = "replayed" /\ \A c \in Callers \ {Owner} : pc'[c] = pc[c] /\ pc[c] = "idle"
      /\ live = {} /\ live' = flushed \cup Logged
      /\ cur' = Len(files') /\ queue = <<>> /\ batch = <<>> /\ step = "recv" /\ Owner \notin answered
      /\ UNCHANGED <<flushed, batch, task, step, round, faults, sharedVars, queue, batchVars, why, issued, histVars>>
  BY OwnerApart DEF Replay, CallersOK, CallerTypes, OpeningOK, LogLive, Goto, Recoverable
<1>01. /\ files' \in Seq(Seq(Records)) /\ files' # <<>> /\ Len(files') \in Nat \ {0} /\ Logged' = Logged
       /\ Logged \subseteq Ops
  <2>0. Logged \subseteq Ops
    BY ReadRecords, LoggedIsRead DEF LogTypes
  <2>1. CASE files = <<>>
    <3>1. files' = <<(<<>>)>>
      BY <2>1 DEF Replay
    <3>2. Logged = {}
      BY <2>1 DEF Logged
    <3>. QED  BY <2>0, <3>1, <3>2, FreshLog
  <2>2. CASE files # <<>>
    <3>1. files' = files
      BY <2>2 DEF Replay
    <3>2. files' \in Seq(Seq(Records)) /\ files' # <<>>
      BY <2>2, <3>1 DEF LogTypes
    <3>3. Len(files') \in Nat \ {0}
      BY <3>2
    <3>. QED  BY <2>0, <3>1, <3>2, <3>3, SameFiles
  <2>. QED  BY <2>1, <2>2
<1>1. LogTypes'
  BY <1>0, <1>01 DEF LogTypes, sharedVars
<1>2. WriterOK'
  BY <1>0, <1>01 DEF WriterOK
<1>3. OpeningOK'
  BY <1>0 DEF OpeningOK, sharedVars
<1>4. LogLive'
  <2>1. Range(<<>>) = {} /\ DOMAIN <<>> = {}
    BY EmptyRange
  <2>. QED  BY <1>0, <1>01, <2>1 DEF LogLive
<1>5. CallerTypes'
  BY <1>0, <1>01 DEF Replay, Goto, Labels, CallerTypes, LogTypes, batchVars, histVars
<1>6. CallersOK'
  <2>1. \A a \in Appenders : a \in Callers \ {Owner}
    BY OwnerApart DEF Callers
  <2>. QED  BY <1>0, <2>1 DEF CallersOK, Working, Op, ClientLabels, batchVars
<1>7. BuffersLive'
  BY <1>0 DEF BuffersLive, batchVars
<1>. QED  BY <1>1, <1>2, <1>3, <1>4, <1>5, <1>6, <1>7

LEMMA FlushBlocksStep ==
    ASSUME IInv, FlushBlocks
    PROVE  IInv'
<1>. USE RedoLogAssumption DEF IInv, LogSide, CallerSide
<1>0. /\ pc[Owner] = "replayed" /\ pc'[Owner] = "flush" /\ why'[Owner] = "sync"
      /\ \A c \in Callers \ {Owner} : pc'[c] = pc[c] /\ why'[c] = why[c]
      /\ flushed' = live
      /\ UNCHANGED <<files, writerVars, sharedVars, queue, batchVars, issued, live, histVars>>
  BY OwnerApart DEF FlushBlocks, CallerTypes, Goto, Because
<1>1. LogTypes'
  BY <1>0 DEF LogTypes, CallerTypes, writerVars, sharedVars
<1>2. WriterOK'
  BY <1>0 DEF WriterOK, writerVars
<1>3. OpeningOK'
  BY <1>0 DEF OpeningOK, writerVars, sharedVars
<1>4. LogLive'
  <2>1. Logged' = Logged
    BY <1>0, SameFiles
  <2>. QED  BY <1>0, <2>1 DEF LogLive, OpeningOK, writerVars
<1>5. CallerTypes'
  BY DEF FlushBlocks, Goto, Because, Labels, Reasons, CallerTypes, batchVars, histVars
<1>6. CallersOK'
  BY <1>0, OwnerApart DEF CallersOK, Working, Op, Callers, batchVars
<1>7. BuffersLive'
  BY <1>0 DEF BuffersLive, batchVars
<1>. QED  BY <1>1, <1>2, <1>3, <1>4, <1>5, <1>6, <1>7

LEMMA SendRenewStep ==
    ASSUME IInv, SendRenew
    PROVE  IInv'
<1>. USE RedoLogAssumption DEF IInv, LogSide, CallerSide
<1>. DEFINE m == Message("renew", <<>>, Owner)
<1>0. /\ pc[Owner] = "trim" /\ pc'[Owner] = "done" /\ why'[Owner] = "renew"
      /\ \A c \in Callers \ {Owner} : pc'[c] = pc[c] /\ why'[c] = why[c]
      /\ queue' = Append(queue, m)
      /\ UNCHANGED <<diskVars, writerVars, sharedVars, batchVars, issued, live, histVars>>
  BY OwnerApart DEF SendRenew, CallerTypes, Goto, Because
<1>01. m \in Messages /\ m.entries = <<>> /\ m.kind = "renew" /\ Asked' = m
  BY <1>0, OwnerApart DEF Message, Messages, Asked
<1>. HIDE DEF m
<1>02. queue = <<>> /\ queue' = <<m>> /\ queue' \in Seq(Messages) /\ \A k \in DOMAIN queue' : queue'[k] = m
  BY <1>0, <1>01 DEF OpeningOK
<1>1. LogTypes'
  BY <1>0, <1>02 DEF LogTypes, diskVars, writerVars, sharedVars
<1>2. WriterOK'
  <2>1. cur = 0 => pc'[Owner] # "idle" /\ \A k \in DOMAIN queue' : queue'[k].entries = <<>>
    BY <1>0, <1>01, <1>02 DEF WriterOK
  <2>. QED  BY <1>0, <2>1 DEF WriterOK, diskVars, writerVars
<1>3. OpeningOK'
  BY <1>0, <1>01, <1>02 DEF OpeningOK, writerVars, sharedVars
<1>4. LogLive'
  BY <1>0, <1>01, <1>02, SameFiles, EmptyRange DEF LogLive, diskVars, writerVars
<1>5. CallerTypes'
  BY DEF SendRenew, Goto, Because, Labels, Reasons, CallerTypes, batchVars, histVars
<1>6. CallersOK'
  BY <1>0, OwnerApart DEF CallersOK, Working, Op, Callers, batchVars
<1>7. BuffersLive'
  BY <1>0 DEF BuffersLive, batchVars
<1>. QED  BY <1>1, <1>2, <1>3, <1>4, <1>5, <1>6, <1>7

LEMMA ShutdownStep ==
    ASSUME IInv, Shutdown
    PROVE  IInv'
<1>. USE RedoLogAssumption DEF IInv, LogSide, CallerSide
<1>. DEFINE m == Message("shutdown", <<>>, Owner)
<1>0. /\ pc[Owner] \in {"idle", "shut"} /\ pc'[Owner] = "stopped"
      /\ \A c \in Callers \ {Owner} : pc'[c] = "idle"
      /\ queue' = Append(queue, m) /\ ticking' = FALSE /\ importing' = {}
      /\ UNCHANGED <<diskVars, writerVars, sharedVars, buffer, hand, why, issued, live, histVars>>
  BY OwnerApart DEF Shutdown, CallerTypes, Goto
<1>01. m \in Messages /\ m.entries = <<>> /\ m.kind = "shutdown"
  BY OwnerApart DEF Message, Messages
<1>. HIDE DEF m
<1>02. /\ queue' \in Seq(Messages)
       /\ \A k \in DOMAIN queue' : queue'[k] = m \/ (k \in DOMAIN queue /\ queue'[k] = queue[k])
  BY <1>0, <1>01, AppendedMessage DEF LogTypes
<1>1. LogTypes'
  BY <1>0, <1>02 DEF LogTypes, diskVars, writerVars, sharedVars
<1>2. WriterOK'
  <2>1. cur = 0 => pc'[Owner] # "idle" /\ \A k \in DOMAIN queue' : queue'[k].entries = <<>>
    BY <1>0, <1>01, <1>02 DEF WriterOK
  <2>. QED  BY <1>0, <2>1 DEF WriterOK, diskVars, writerVars
<1>3. OpeningOK'
  BY <1>0, <1>01, <1>02 DEF OpeningOK, writerVars, sharedVars
<1>4. LogLive'
  BY <1>0, <1>01, <1>02, SameFiles, EmptyRange DEF LogLive, diskVars, writerVars
<1>5. CallerTypes'
  BY <1>0 DEF Shutdown, Goto, Labels, CallerTypes, histVars
<1>6. CallersOK'
  BY <1>0, OwnerApart DEF CallersOK, Working, Op, Callers, ClientLabels
<1>7. BuffersLive'
  BY <1>0 DEF BuffersLive
<1>. QED  BY <1>1, <1>2, <1>3, <1>4, <1>5, <1>6, <1>7

LEMMA OwnerSendFlushStep ==
    ASSUME IInv, SendFlush(Owner)
    PROVE  IInv'
<1>. USE RedoLogAssumption DEF IInv, LogSide, CallerSide
<1>. DEFINE m == Message("flush", <<>>, Owner)
<1>0. /\ pc[Owner] = "flush" /\ pc'[Owner] = "done" /\ why[Owner] = "sync"
      /\ \A c \in Callers \ {Owner} : pc'[c] = pc[c]
      /\ queue' = Append(queue, m)
      /\ UNCHANGED <<diskVars, writerVars, sharedVars, batchVars, why, issued, live, histVars>>
  BY OwnerApart DEF SendFlush, CallerTypes, CallersOK, Goto
<1>01. m \in Messages /\ m.entries = <<>> /\ m.kind = "flush" /\ Asked' = m
  BY <1>0, OwnerApart DEF Message, Messages, Asked
<1>. HIDE DEF m
<1>02. queue = <<>> /\ queue' = <<m>> /\ queue' \in Seq(Messages) /\ \A k \in DOMAIN queue' : queue'[k] = m
  BY <1>0, <1>01 DEF OpeningOK
<1>1. LogTypes'
  BY <1>0, <1>02 DEF LogTypes, diskVars, writerVars, sharedVars
<1>2. WriterOK'
  <2>1. cur = 0 => pc'[Owner] # "idle" /\ \A k \in DOMAIN queue' : queue'[k].entries = <<>>
    BY <1>0, <1>01, <1>02 DEF WriterOK
  <2>. QED  BY <1>0, <2>1 DEF WriterOK, diskVars, writerVars
<1>3. OpeningOK'
  BY <1>0, <1>01, <1>02 DEF OpeningOK, writerVars, sharedVars
<1>4. LogLive'
  BY <1>0, <1>01, <1>02, SameFiles, EmptyRange DEF LogLive, diskVars, writerVars
<1>5. CallerTypes'
  BY DEF SendFlush, Goto, Labels, CallerTypes, batchVars, histVars
<1>6. CallersOK'
  BY <1>0, OwnerApart DEF CallersOK, Working, Op, Callers, batchVars
<1>7. BuffersLive'
  BY <1>0 DEF BuffersLive, batchVars
<1>. QED  BY <1>1, <1>2, <1>3, <1>4, <1>5, <1>6, <1>7

LEMMA OwnerFlushedStep ==
    ASSUME IInv, Flushed(Owner)
    PROVE  IInv'
<1>. USE RedoLogAssumption DEF IInv, LogSide, CallerSide
<1>0. /\ pc[Owner] = "done" /\ why[Owner] \in {"sync", "renew"}
      /\ pc'[Owner] = (IF error THEN "shut" ELSE IF why[Owner] = "sync" THEN "trim" ELSE "idle")
      /\ \A c \in Callers \ {Owner} : pc'[c] = pc[c] /\ pc[c] = "idle"
      /\ why' = why /\ answered' = answered \ {Owner} /\ Owner \in answered
      /\ UNCHANGED <<diskVars, writerVars, error, observed, queue, batchVars, issued, live, histVars>>
  BY OwnerApart DEF Flushed, CallerTypes, CallersOK, Goto, Because, OnOk, OnError
<1>01. /\ queue = <<>> /\ step = "recv" /\ batch = <<>>
       /\ why[Owner] = "sync" \/ error \/ (cur = 1 /\ files = <<(<<>>)>>)
  BY <1>0 DEF OpeningOK
<1>1. LogTypes'
  BY <1>0 DEF LogTypes, diskVars, writerVars
<1>2. WriterOK'
  BY <1>0, <1>01 DEF WriterOK, writerVars
<1>3. OpeningOK'
  BY <1>0, <1>01 DEF OpeningOK, writerVars
<1>4. LogLive'
  BY <1>0, <1>01, SameFiles DEF LogLive, diskVars, writerVars
<1>5. CallerTypes'
  BY <1>0 DEF Flushed, Goto, Because, OnOk, OnError, Labels, CallerTypes, batchVars, histVars
<1>6. CallersOK'
  <2>1. \A a \in Appenders : a \in Callers \ {Owner}
    BY OwnerApart DEF Callers
  <2>. QED  BY <1>0, <2>1 DEF CallersOK, Working, Op, ClientLabels, batchVars
<1>7. BuffersLive'
  BY <1>0 DEF BuffersLive, batchVars
<1>. QED  BY <1>1, <1>2, <1>3, <1>4, <1>5, <1>6, <1>7

\* What a new process finds: nothing in memory.
NewProcess ==
    /\ live = {} /\ cur = 0 /\ batch = <<>> /\ task = NoTask /\ step = "recv" /\ round = 0
    /\ error = FALSE /\ observed = {} /\ queue = <<>> /\ answered = {}
    /\ buffer = Off /\ hand = [c \in Callers |-> <<>>] /\ ticking = FALSE /\ importing = {}
    /\ pc = [c \in Callers |-> IF c = Owner THEN "down" ELSE "idle"]
    /\ why = [c \in Callers |-> "none"]
    /\ batched = {} /\ handed = {}

\* What outlives a process: the disk, and what the model counts.
LastingTypes ==
    /\ flushed \subseteq Ops /\ files \in Seq(Seq(Records)) /\ faults \in 0..MaxFaults
    /\ issued \in [Appenders -> 0..MaxOps] /\ acked \subseteq Ops

LEMMA NewProcessOK == NewProcess /\ LastingTypes => IInv
<1>. SUFFICES ASSUME NewProcess, LastingTypes PROVE IInv
  OBVIOUS
<1>. USE RedoLogAssumption DEF LastingTypes
<1>0. /\ pc[Owner] = "down" /\ \A c \in Callers \ {Owner} : pc[c] = "idle"
      /\ \A a \in Appenders : pc[a] = "idle"
  BY OwnerApart DEF NewProcess, Callers
<1>01. <<>> \in Seq(Ops) /\ <<>> \in Seq(Messages) /\ Range(<<>>) = {} /\ DOMAIN <<>> = {}
  BY EmptyRange
<1>02. error \in BOOLEAN /\ ticking \in BOOLEAN
  BY Zenon DEF NewProcess
<1>03. Len(files) \in Nat /\ 0 \in 0..Len(files) /\ 0 \in 0..2
  OBVIOUS
<1>1. LogTypes
  BY <1>01, <1>02, <1>03 DEF NewProcess, LogTypes
<1>2. WriterOK
  BY <1>0, <1>01 DEF NewProcess, WriterOK
<1>3. OpeningOK
  BY <1>0 DEF NewProcess, OpeningOK
<1>4. LogLive
  BY <1>0, <1>01 DEF NewProcess, LogLive
<1>5. CallerTypes
  <2>1. pc \in [Callers -> Labels] /\ why \in [Callers -> Reasons \cup {"none", "failed"}]
    BY DEF NewProcess, Labels, Reasons
  <2>2. hand \in [Callers -> Seq(Ops)]
    BY <1>01 DEF NewProcess
  <2>3. live = {} /\ buffer = Off /\ importing = {} /\ batched = {} /\ handed = {}
    BY DEF NewProcess
  <2>. QED  BY <1>02, <2>1, <2>2, <2>3 DEF CallerTypes
<1>6. CallersOK
  BY <1>0 DEF NewProcess, CallersOK, Working, ClientLabels
<1>7. BuffersLive
  BY <1>01 DEF NewProcess, BuffersLive
<1>. QED  BY <1>1, <1>2, <1>3, <1>4, <1>5, <1>6, <1>7 DEF IInv, LogSide, CallerSide

LEMMA InitIInv == Init => IInv
<1>. SUFFICES ASSUME Init PROVE IInv
  OBVIOUS
<1>1. NewProcess
  BY DEF Init, NewProcess
<1>2. flushed \subseteq Ops /\ issued \in [Appenders -> 0..MaxOps] /\ acked \subseteq Ops /\ faults \in 0..MaxFaults
  BY RedoLogAssumption DEF Init
<1>3. files \in Seq(Seq(Records))
  BY DEF Init
<1>. QED  BY <1>1, <1>2, <1>3, NewProcessOK DEF LastingTypes

LEMMA CrashStep ==
    ASSUME IInv, Crash
    PROVE  IInv'
<1>. USE RedoLogAssumption DEF IInv, LogSide, CallerSide
<1>1. files' \in Seq(Seq(Records))
  <2>1. CASE files' = files
    BY <2>1 DEF LogTypes
  <2>2. ASSUME files' # files
        PROVE  files' \in Seq(Seq(Records))
    <3>1. PICK part \in PartOfBatch : files' = [files EXCEPT ![cur] = @ \o part]
      BY <2>2 DEF Crash
    <3>2. batch # <<>>
      BY <2>2 DEF Crash
    <3>3. part \in Seq(Records) /\ cur \in 1..Len(files)
      BY <3>1, <3>2, PartialBatch DEF LogTypes, WriterOK
    <3>. QED  BY <3>1, <3>3, WrittenFile DEF LogTypes
  <2>. QED  BY <2>1, <2>2
<1>2. NewProcess'
  BY DEF Crash, NewProcess
<1>3. /\ flushed' \subseteq Ops /\ faults' \in 0..MaxFaults
      /\ issued' \in [Appenders -> 0..MaxOps] /\ acked' \subseteq Ops
  BY DEF Crash, LogTypes, CallerTypes
<1>4. LastingTypes'
  BY <1>1, <1>3 DEF LastingTypes
<1>. QED  BY <1>2, <1>4, NewProcessOK, PTL

LEMMA StutterStep ==
    ASSUME IInv, UNCHANGED vars
    PROVE  IInv'
<1>1. UNCHANGED files
  BY DEF vars, diskVars
<1>2. Logged' = Logged
  BY <1>1, SameFiles
<1>3. LogSide'
  BY <1>2 DEF IInv, LogSide, LogTypes, WriterOK, OpeningOK, Asked, LogLive, vars, diskVars, writerVars,
     sharedVars, batchVars, callerVars, histVars
<1>4. CallerSide'
  BY WriterLeavesCallers DEF vars
<1>. QED  BY <1>3, <1>4 DEF IInv

LEMMA NextIInv == IInv /\ [Next]_vars => IInv'
<1>. SUFFICES ASSUME IInv, [Next]_vars PROVE IInv'
  OBVIOUS
<1>1. CASE Opening
  BY <1>1, ReplayStep, FlushBlocksStep, SendRenewStep DEF Opening
<1>2. CASE Shutdown
  BY <1>2, ShutdownStep
<1>3. CASE Tick
  BY <1>3, TickStep
<1>4. CASE Writing
  BY <1>4, ReceiveStep, FlushNothingStep, RotateStep, SweepStep, RemoveOldStep, WriteBatchStep,
     AnswerStep, TrimOneStep, RenewedStep DEF Writing
<1>5. CASE Failing
  BY <1>5, RotateFailsStep, WriteFailsStep, RenewFailsStep DEF Failing
<1>6. CASE Crash
  BY <1>6, CrashStep
<1>7. ASSUME NEW a \in Appenders, Apply(a) \/ Appending(a) PROVE IInv'
  BY <1>7, ApplyStep, PushStep, AgedStep, ReadEpochStep, SendStep, ReturnStep DEF Appending
<1>8. ASSUME NEW c \in Callers, Flushing(c) PROVE IInv'
  <2>1. CASE c = Owner
    <3>1. ~Take(Owner) /\ ~SendBatch(Owner)
      BY DEF Take, SendBatch, IInv, CallerSide, CallersOK
    <3>. QED  BY <1>8, <2>1, <3>1, OwnerSendFlushStep, OwnerFlushedStep DEF Flushing
  <2>2. CASE c # Owner
    BY <1>8, <2>2, TakeStep, SendBatchStep, SendFlushStep, FlushedStep DEF Flushing
  <2>. QED  BY <2>1, <2>2
<1>9. ASSUME NEW i \in Importers, Importing(i) PROVE IInv'
  BY <1>9, StartBatchStep, EndBatchStep, ClearStep DEF Importing
<1>10. CASE UNCHANGED vars
  BY <1>10, StutterStep
<1>. QED  BY <1>1, <1>2, <1>3, <1>4, <1>5, <1>6, <1>7, <1>8, <1>9, <1>10 DEF Next

THEOREM AlwaysIInv == Spec => []IInv
<1>. QED  BY InitIInv, NextIInv, PTL DEF Spec

\* Every variable keeps its type and the writer has a file open whenever it
\* has something to write: through failed rotations and renewals, a renewal
\* asked for while the graph opens, and a death at any moment.
THEOREM LogTypesHold == Spec => []TypeOK
<1>1. IInv => TypeOK
  BY DEF IInv, LogSide, CallerSide, LogTypes, CallerTypes, WriterOK, TypeOK
<1>. QED  BY <1>1, AlwaysIInv, PTL

LEMMA NextTrims ==
    ASSUME IInv, Next, pc'[Owner] # "down"
    PROVE  Logged \ Logged' \subseteq flushed
<1>. USE RedoLogAssumption DEF IInv, LogSide
<1>1. UNCHANGED files => Logged' = Logged
  BY SameFiles
<1>2. CASE Replay
  <2>1. CASE files = <<>>
    <3>1. Logged = {}
      BY <2>1 DEF Logged
    <3>. QED  BY <3>1
  <2>2. CASE files # <<>>
    BY <1>1, <1>2, <2>2 DEF Replay
  <2>. QED  BY <2>1, <2>2
<1>3. CASE Rotate
  BY <1>3, AddedFile DEF Rotate, LogTypes
<1>4. CASE RemoveOld
  BY <1>4 DEF RemoveOld, LogLive
<1>5. CASE WriteBatch
  <2>1. cur \in 1..Len(files) /\ batch \in Seq(Records)
    BY <1>5 DEF WriteBatch, LogTypes, WriterOK, Records
  <2>. QED  BY <1>5, <2>1, WrittenFile DEF WriteBatch, LogTypes
<1>6. CASE WriteFails
  <2>1. PICK part \in PartOfBatch : files' = [files EXCEPT ![cur] = @ \o part]
    BY <1>6 DEF WriteFails
  <2>2. cur \in 1..Len(files) /\ part \in Seq(Records)
    BY <1>6, <2>1, PartialBatch DEF WriteFails, LogTypes, WriterOK
  <2>. QED  BY <2>1, <2>2, WrittenFile DEF LogTypes
<1>7. CASE step = "trim"
  <2>1. pc[Owner] = "done"
    BY <1>7, OwnerApart DEF OpeningOK, CallerSide, CallersOK
  <2>. QED  BY <2>1 DEF LogLive
<1>8. CASE UNCHANGED files
  BY <1>1, <1>8
<1>9. UNCHANGED files \/ Replay \/ Rotate \/ RemoveOld \/ WriteBatch \/ WriteFails \/ step = "trim"
  <2>1. CASE Opening
    BY <2>1 DEF Opening, FlushBlocks, SendRenew, diskVars
  <2>2. CASE Shutdown \/ Tick
    BY <2>2 DEF Shutdown, Tick, diskVars
  <2>3. CASE Writing
    BY <2>3 DEF Writing, Receive, FlushNothing, Sweep, Answer, TrimOne, Renewed, diskVars
  <2>4. CASE Failing
    BY <2>4 DEF Failing, RotateFails, RenewFails, diskVars
  <2>5. CASE Crash
    BY <2>5, OwnerApart DEF Crash
  <2>6. ASSUME NEW a \in Appenders, Apply(a) \/ Appending(a) PROVE UNCHANGED files
    BY <2>6 DEF Apply, Appending, Push, Aged, ReadEpoch, Send, Return, diskVars
  <2>7. ASSUME NEW c \in Callers, Flushing(c) PROVE UNCHANGED files
    BY <2>7 DEF Flushing, Take, SendBatch, SendFlush, Flushed, diskVars
  <2>8. ASSUME NEW i \in Importers, Importing(i) PROVE UNCHANGED files
    BY <2>8 DEF Importing, StartBatch, EndBatch, Clear, diskVars
  <2>. QED  BY <2>1, <2>2, <2>3, <2>4, <2>5, <2>6, <2>7, <2>8 DEF Next
<1>. QED  BY <1>2, <1>3, <1>4, <1>5, <1>6, <1>7, <1>8, <1>9

\* A rotation or a renewal deletes a file only when each operation recorded
\* in it has its blocks in the data file, whatever fails in between.
THEOREM TrimsFlushed == Spec => TrimsOnlyFlushed
<1>1. IInv /\ [Next]_vars => [pc[Owner]' # "down" => Logged \ Logged' \subseteq flushed]_vars
  BY NextTrims
<1>. QED  BY <1>1, AlwaysIInv, PTL DEF Spec, TrimsOnlyFlushed

-----------------------------------------------------------------------------
(***************************************************************************)
(* Without imports and failing writes: what stands in the log.             *)
(***************************************************************************)
Plain == Importers = {} /\ "write" \notin Faults

LEMMA StandingIs ==
    ASSUME IInv
    PROVE  /\ InFiles \subseteq Records /\ Range(batch) \subseteq Ops /\ InQueue \subseteq Ops
           /\ \A k \in 1..Len(files) : Range(files[k]) \subseteq InFiles
           /\ \A r \in InFiles : \E k \in 1..Len(files) : r \in Range(files[k])
           /\ \A k \in DOMAIN queue : Range(queue[k].entries) \subseteq InQueue
           /\ \A r \in InQueue : \E k \in DOMAIN queue : r \in Range(queue[k].entries)
<1>. USE DEF IInv, LogSide
<1>1. \A k \in 1..Len(files) : files[k] \in Seq(Records)
  BY DEF LogTypes
<1>2. \A k \in 1..Len(files) : Range(files[k]) \subseteq Records
  BY <1>1, InRange
<1>3. \A k \in DOMAIN queue : queue[k].entries \in Seq(Ops)
  <2>1. \A k \in DOMAIN queue : queue[k] \in Messages
    BY DEF LogTypes
  <2>. QED  BY <2>1 DEF Messages
<1>4. \A k \in DOMAIN queue : Range(queue[k].entries) \subseteq Ops
  BY <1>3, InRange
<1>5. Range(batch) \subseteq Ops
  BY InRange DEF LogTypes
<1>6. DOMAIN files = 1..Len(files)
  BY DEF LogTypes
<1>. DEFINE held(k) == Range(files[k])
            sent(k) == Range(queue[k].entries)
<1>7. InFiles = UNION {held(k) : k \in 1..Len(files)} /\ InQueue = UNION {sent(k) : k \in DOMAIN queue}
  BY <1>6 DEF InFiles, InQueue
<1>8. \A k \in 1..Len(files) : held(k) \subseteq Records
  BY <1>2
<1>9. \A k \in DOMAIN queue : sent(k) \subseteq Ops
  BY <1>4
<1>. SUFFICES /\ InFiles \subseteq Records /\ InQueue \subseteq Ops
              /\ \A k \in 1..Len(files) : held(k) \subseteq InFiles
              /\ \A r \in InFiles : \E k \in 1..Len(files) : r \in held(k)
              /\ \A k \in DOMAIN queue : sent(k) \subseteq InQueue
              /\ \A r \in InQueue : \E k \in DOMAIN queue : r \in sent(k)
  BY <1>5
<1>. HIDE DEF held, sent
<1>. QED  BY <1>7, <1>8, <1>9

\* Where nothing is torn replay reads all there is.
LEMMA AllReadable ==
    ASSUME IInv, Torn \notin InFiles
    PROVE  Logged = InFiles
<1>1. \A k \in 1..Len(files) : files[k] \in Seq(Records) /\ Range(files[k]) \subseteq InFiles
  BY StandingIs DEF IInv, LogSide, LogTypes
<1>2. ASSUME NEW k \in 1..Len(files) PROVE Readable(files[k]) = files[k]
  <2>1. \A i \in 1..Len(files[k]) : files[k][i] # Torn
    BY <1>1, InRange
  <2>. QED  BY <1>1, <2>1, ReadableRecords
<1>3. DOMAIN files = 1..Len(files)
  BY DEF IInv, LogSide, LogTypes
<1>. QED  BY <1>2, <1>3 DEF Logged, InFiles

\* The steps left when nobody imports.
LEMMA PlainSteps ==
    ASSUME IInv, NoBatches, Plain, Next
    PROVE  \/ Opening \/ Shutdown \/ Writing \/ RotateFails \/ RenewFails \/ Crash
           \/ SendFlush(Owner) \/ Flushed(Owner)
           \/ \E a \in Appenders : Apply(a) \/ ReadEpoch(a) \/ Send(a) \/ Return(a)
<1>. USE DEF IInv, CallerSide, NoBatches, Plain
<1>1. ~Tick /\ ~WriteFails
  BY DEF Tick, WriteFails
<1>2. ASSUME NEW a \in Appenders PROVE ~Push(a) /\ ~Aged(a)
  <2>1. a \in Callers \ {Owner}
    BY OwnerApart DEF Callers
  <2>. QED  BY <2>1 DEF Push, Aged
<1>3. ASSUME NEW c \in Callers, Flushing(c)
      PROVE  SendFlush(Owner) \/ Flushed(Owner)
  <2>1. CASE c = Owner
    BY <1>3, <2>1 DEF Flushing, Take, SendBatch, CallersOK
  <2>2. CASE c # Owner
    BY <1>3, <2>2 DEF Flushing, Take, SendBatch, SendFlush, Flushed
  <2>. QED  BY <2>1, <2>2
<1>. QED  BY <1>1, <1>2, <1>3 DEF Next, Appending, Failing, Importing

LEMMA PlainBatches ==
    ASSUME IInv, NoBatches, Plain, Next
    PROVE  NoBatches'
<1>. USE RedoLogAssumption DEF IInv, CallerSide, CallerTypes, NoBatches
<1>0. \A a \in Appenders : a \in Callers \ {Owner} /\ a # Timer
  BY OwnerApart DEF Callers
<1>01. Timer \in Callers \ {Owner}
  BY DEF Callers
<1>1. CASE Opening
  BY <1>1, <1>01 DEF Opening, Replay, FlushBlocks, SendRenew, Goto, batchVars
<1>2. CASE Shutdown
  BY <1>2, <1>01 DEF Shutdown, Goto
<1>3. CASE Writing \/ RotateFails \/ RenewFails
  <2>1. UNCHANGED <<batchVars, pc>>
    BY <1>3 DEF Writing, Receive, FlushNothing, Rotate, Sweep, RemoveOld, WriteBatch, Answer, TrimOne,
       Renewed,
                RotateFails, RenewFails, callerVars
  <2>. QED  BY <2>1 DEF batchVars
<1>4. CASE Crash
  BY <1>4, <1>01 DEF Crash
<1>5. CASE SendFlush(Owner) \/ Flushed(Owner)
  BY <1>5, <1>01 DEF SendFlush, Flushed, Goto, batchVars
<1>6. ASSUME NEW a \in Appenders, Apply(a) \/ ReadEpoch(a) \/ Send(a) \/ Return(a)
      PROVE  NoBatches'
  <2>1. /\ \E l \in {"append", "send", "wait", "idle"} : pc' = [pc EXCEPT ![a] = l]
        /\ UNCHANGED <<buffer, hand, ticking, importing>>
    BY <1>6 DEF Apply, ReadEpoch, Send, Return, Goto, batchVars
  <2>2. PICK l \in {"append", "send", "wait", "idle"} : pc' = [pc EXCEPT ![a] = l]
    BY <2>1
  <2>3. pc'[Timer] = pc[Timer] /\ \A c \in Callers \ {Owner} : pc'[c] = pc[c] \/ pc'[c] = l
    BY <1>0, <1>01, <2>2
  <2>. QED  BY <2>1, <2>3
<1>. QED  BY <1>1, <1>2, <1>3, <1>4, <1>5, <1>6, PlainSteps

\* Order only depends on what stands where.
LEMMA Ordering ==
    /\ \A s, t, u : Before(s, u) /\ Before(t, u) =>
          \A w : Range(w) \subseteq Range(s) \cup Range(t) \cup {Torn} => Before(w, u)
    /\ \A s, t, u : Before(u, s) /\ Before(u, t) =>
          \A w : Range(w) \subseteq Range(s) \cup Range(t) \cup {Torn} => Before(u, w)
    /\ \A s : Before(s, <<>>) /\ Before(<<>>, s)
    /\ Increasing(<<>>)
<1>1. Range(<<>>) = {} /\ DOMAIN <<>> = {}
  BY EmptyRange
<1>2. \A q : Precedes(Torn, q) /\ Precedes(q, Torn)
  BY DEF Precedes
<1>. QED  BY <1>1, <1>2 DEF Before, Increasing

LEMMA SameOrder ==
    ASSUME InOrder, UNCHANGED <<files, batch, queue>>, cur' \in {cur, 0}
    PROVE  InOrder' /\ InFiles' = InFiles /\ Standing' = Standing
BY DEF InOrder, InFiles, InQueue, Standing

LEMMA QueuedOrder ==
    ASSUME IInv, InOrder, NEW m \in Messages, queue' = Append(queue, m), UNCHANGED <<files, batch, cur>>,
           Increasing(m.entries), Before(batch, m.entries),
           \A k \in DOMAIN files : Before(files[k], m.entries),
           \A l \in DOMAIN queue : Before(queue[l].entries, m.entries)
    PROVE  InOrder' /\ InFiles' = InFiles /\ Standing' = Standing \cup Range(m.entries)
<1>0. queue \in Seq(Messages)
  BY DEF IInv, LogSide, LogTypes
<1>. DEFINE n == Len(queue)
<1>1. /\ n \in Nat /\ DOMAIN queue = 1..n /\ DOMAIN queue' = 1..(n + 1)
      /\ queue'[n + 1] = m /\ \A l \in 1..n : queue'[l] = queue[l]
  BY <1>0
<1>. HIDE DEF n
<1>2. \A l \in DOMAIN queue' : queue'[l] = m \/ (l \in DOMAIN queue /\ queue'[l] = queue[l])
  BY <1>1
<1>3. \A k, l \in DOMAIN queue' : k < l =>
         /\ k \in DOMAIN queue /\ queue'[k] = queue[k]
         /\ \/ queue'[l] = m
            \/ l \in DOMAIN queue /\ queue'[l] = queue[l]
  BY <1>1
<1>4. InOrder'
  BY <1>2, <1>3 DEF InOrder
<1>5. InFiles' = InFiles
  BY DEF InFiles
<1>6. InQueue' = InQueue \cup Range(m.entries)
  <2>. DEFINE old(l) == Range(queue[l].entries)
              new(l) == Range(queue'[l].entries)
  <2>1. /\ \A l \in 1..n : new(l) = old(l)
        /\ new(n + 1) = Range(m.entries) /\ 1..(n + 1) = 1..n \cup {n + 1}
    BY <1>1
  <2>2. InQueue = UNION {old(l) : l \in 1..n} /\ InQueue' = UNION {new(l) : l \in 1..(n + 1)}
    BY <1>1 DEF InQueue
  <2>. HIDE DEF old, new
  <2>3. \A r : r \in UNION {new(l) : l \in 1..(n + 1)} <=> r \in UNION {old(l) : l \in 1..n} \/ r \in Range(m.entries)
    BY <2>1
  <2>. QED  BY <2>2, <2>3
<1>. QED  BY <1>4, <1>5, <1>6 DEF Standing

LEMMA ReceivedOrder ==
    ASSUME IInv, InOrder, Receive
    PROVE  InOrder' /\ InFiles' = InFiles /\ Standing' = Standing
<1>0. queue \in Seq(Messages) /\ queue # <<>> /\ queue' = Tail(queue) /\ task' = queue[1]
      /\ batch' = batch \o task'.entries /\ batch \in Seq(Ops) /\ UNCHANGED <<files, cur>>
  BY DEF Receive, IInv, LogSide, LogTypes, diskVars
<1>. DEFINE n == Len(queue)
<1>1. /\ n \in Nat /\ n >= 1 /\ DOMAIN queue = 1..n /\ DOMAIN queue' = 1..(n - 1)
      /\ \A l \in 1..(n - 1) : queue'[l] = queue[l + 1] /\ l + 1 \in 1..n /\ 1 < l + 1
      /\ queue[1] \in Messages /\ 1 \in 1..n
  BY <1>0
<1>. HIDE DEF n
<1>2. /\ task'.entries \in Seq(Ops) /\ task'.entries = queue[1].entries
  BY <1>0, <1>1 DEF Messages
<1>3. batch' \in Seq(Ops) /\ Range(batch') = Range(batch) \cup Range(queue[1].entries)
  BY <1>0, <1>2, RangeConcat
<1>4. Increasing(batch')
  <2>1. Increasing(batch) /\ Increasing(task'.entries) /\ Before(batch, task'.entries)
    BY <1>1, <1>2 DEF InOrder
  <2>. QED  BY <1>0, <1>2, <2>1, IncreasingConcat
<1>5. \A k \in DOMAIN files : Before(files[k], batch')
  <2>1. \A k \in DOMAIN files : Before(files[k], batch) /\ Before(files[k], queue[1].entries)
    BY <1>1 DEF InOrder
  <2>. QED  BY <1>3, <2>1, Ordering
<1>6. \A l \in 1..(n - 1) : Before(batch', queue'[l].entries)
  <2>1. \A l \in 1..(n - 1) : Before(batch, queue[l + 1].entries) /\ Before(queue[1].entries, queue[l + 1].entries)
    BY <1>1 DEF InOrder
  <2>. QED  BY <1>1, <1>3, <2>1, Ordering
<1>7. \A k, l \in 1..(n - 1) : k < l => Before(queue'[k].entries, queue'[l].entries)
  <2>1. \A k, l \in 1..(n - 1) : k < l => k + 1 < l + 1
    OBVIOUS
  <2>. QED  BY <1>1, <2>1 DEF InOrder
<1>8. \A k \in DOMAIN files, l \in 1..(n - 1) : Before(files[k], queue'[l].entries)
  BY <1>1 DEF InOrder
<1>9. \A l \in 1..(n - 1) : Increasing(queue'[l].entries)
  BY <1>1 DEF InOrder
<1>10. InOrder'
  BY <1>0, <1>1, <1>4, <1>5, <1>6, <1>7, <1>8, <1>9 DEF InOrder
<1>11. InFiles' = InFiles
  BY <1>0 DEF InFiles
<1>12. InQueue = InQueue' \cup Range(queue[1].entries)
  <2>. DEFINE old(l) == Range(queue[l].entries)
              new(l) == Range(queue'[l].entries)
  <2>1. /\ \A l \in 1..(n - 1) : new(l) = old(l + 1)
        /\ \A l \in 1..n : l = 1 \/ (l - 1 \in 1..(n - 1) /\ (l - 1) + 1 = l)
    BY <1>1
  <2>2. InQueue = UNION {old(l) : l \in 1..n} /\ InQueue' = UNION {new(l) : l \in 1..(n - 1)}
    BY <1>1 DEF InQueue
  <2>3. \A l \in 1..(n - 1) : l + 1 \in 1..n
    BY <1>1
  <2>4. old(1) = Range(queue[1].entries) /\ 1 \in 1..n
    BY <1>1
  <2>. HIDE DEF old, new
  <2>5. \A r : r \in UNION {old(l) : l \in 1..n} <=> r \in UNION {new(l) : l \in 1..(n - 1)} \/ r \in old(1)
    BY <2>1, <2>3, <2>4
  <2>. QED  BY <2>2, <2>4, <2>5
<1>. QED  BY <1>3, <1>10, <1>11, <1>12 DEF Standing

\* Part of the batch, or all of it, is written behind the records of the
\* current file.
LEMMA WrittenOrder ==
    ASSUME IInv, InOrder, cur \in 1..Len(files), NEW part \in Seq(Records),
           files' = [files EXCEPT ![cur] = @ \o part],
           Increasing(part), Range(part) \subseteq Range(batch) \cup {Torn}, batch' = <<>>,
           queue' = queue \/ queue' = <<>>, cur' \in {cur, 0}
    PROVE  InOrder' /\ InFiles' = InFiles \cup Range(part)
<1>0. /\ files \in Seq(Seq(Records)) /\ files[cur] \in Seq(Records) /\ cur # 0
      /\ DOMAIN files = 1..Len(files) /\ cur \in DOMAIN files
  BY DEF IInv, LogSide, LogTypes
<1>1. /\ DOMAIN files' = DOMAIN files /\ files'[cur] = files[cur] \o part
      /\ \A k \in DOMAIN files : k # cur => files'[k] = files[k]
  BY <1>0
<1>2. Range(files'[cur]) = Range(files[cur]) \cup Range(part)
  BY <1>0, <1>1, RangeConcat
<1>3. Before(files[cur], part) /\ \A k \in DOMAIN files : Before(files[k], part)
  <2>1. \A k \in DOMAIN files : Before(files[k], batch)
    BY DEF InOrder
  <2>. QED  BY <1>0, <2>1, Ordering
<1>4. Increasing(files'[cur])
  <2>1. Increasing(files[cur])
    BY <1>0 DEF InOrder
  <2>. QED  BY <1>0, <1>1, <1>3, <2>1, IncreasingConcat
<1>5. \A k \in DOMAIN files : Increasing(files'[k])
  BY <1>1, <1>4 DEF InOrder
<1>6. ASSUME NEW j \in DOMAIN files, NEW k \in DOMAIN files, j < k PROVE Before(files'[j], files'[k])
  <2>1. CASE k > cur
    <3>1. files[k] = <<>> /\ files'[k] = <<>>
      BY <1>0, <1>1, <2>1 DEF InOrder
    <3>. QED  BY <3>1, Ordering
  <2>2. CASE k = cur
    <3>1. files'[j] = files[j] /\ Before(files[j], files[cur]) /\ Before(files[j], part)
      BY <1>0, <1>1, <1>3, <1>6, <2>2 DEF InOrder
    <3>. QED  BY <1>2, <2>2, <3>1, Ordering
  <2>3. CASE k < cur
    <3>1. files'[j] = files[j] /\ files'[k] = files[k]
      BY <1>0, <1>1, <1>6, <2>3
    <3>. QED  BY <1>6, <3>1 DEF InOrder
  <2>. QED  BY <1>0, <2>1, <2>2, <2>3
<1>7. \A l \in DOMAIN queue' : queue' = queue /\ l \in DOMAIN queue
  OBVIOUS
<1>8. ASSUME NEW k \in DOMAIN files, NEW l \in DOMAIN queue PROVE Before(files'[k], queue[l].entries)
  <2>1. Before(files[k], queue[l].entries) /\ Before(batch, queue[l].entries)
    BY DEF InOrder
  <2>2. Range(files'[k]) \subseteq Range(files[k]) \cup Range(batch) \cup {Torn}
    BY <1>1, <1>2
  <2>. QED  BY <2>1, <2>2, Ordering
<1>9. cur' # 0 => \A k \in DOMAIN files' : k > cur' => files'[k] = <<>>
  BY <1>0, <1>1 DEF InOrder
<1>10. InOrder'
  <2>1. \A l \in DOMAIN queue' : Increasing(queue'[l].entries)
    BY <1>7 DEF InOrder
  <2>2. \A k, l \in DOMAIN queue' : k < l => Before(queue'[k].entries, queue'[l].entries)
    BY <1>7 DEF InOrder
  <2>3. \A k \in DOMAIN files', l \in DOMAIN queue' : Before(files'[k], queue'[l].entries)
    BY <1>1, <1>7, <1>8
  <2>4. /\ \A k \in DOMAIN files' : Before(files'[k], batch')
        /\ \A l \in DOMAIN queue' : Before(batch', queue'[l].entries)
        /\ Increasing(batch')
    BY Ordering
  <2>. QED  BY <1>1, <1>5, <1>6, <1>9, <2>1, <2>2, <2>3, <2>4 DEF InOrder
<1>11. InFiles' = InFiles \cup Range(part)
  <2>. DEFINE old(k) == Range(files[k])
              new(k) == Range(files'[k])
  <2>1. /\ new(cur) = old(cur) \cup Range(part) /\ \A k \in DOMAIN files : k # cur => new(k) = old(k)
    BY <1>1, <1>2
  <2>2. InFiles = UNION {old(k) : k \in DOMAIN files} /\ InFiles' = UNION {new(k) : k \in DOMAIN files}
    BY <1>1 DEF InFiles
  <2>. HIDE DEF old, new
  <2>3. \A r : r \in UNION {new(k) : k \in DOMAIN files} <=> r \in UNION {old(k) : k \in DOMAIN files} \/ r \in Range(part)
    BY <1>0, <2>1
  <2>. QED  BY <2>2, <2>3
<1>. QED  BY <1>10, <1>11

LEMMA AddedOrder ==
    ASSUME IInv, InOrder, files' = Append(files, <<>>), UNCHANGED <<batch, queue, cur>>
    PROVE  InOrder' /\ InFiles' = InFiles /\ Standing' = Standing
<1>0. files \in Seq(Seq(Records)) /\ cur \in Nat
  BY DEF IInv, LogSide, LogTypes
<1>. DEFINE n == Len(files)
<1>1. /\ n \in Nat /\ DOMAIN files = 1..n /\ DOMAIN files' = 1..(n + 1)
      /\ files'[n + 1] = <<>> /\ \A k \in 1..n : files'[k] = files[k]
  BY <1>0
<1>. HIDE DEF n
<1>2. \A k \in DOMAIN files' : files'[k] = <<>> \/ (k \in DOMAIN files /\ files'[k] = files[k])
  BY <1>1
<1>3. \A j, k \in DOMAIN files' : j < k => Before(files'[j], files'[k])
  <2>1. \A j, k \in DOMAIN files' : j < k =>
            files'[k] = <<>> \/ (j \in DOMAIN files /\ files'[j] = files[j] /\ k \in DOMAIN files /\ files'[k] = files[k])
    BY <1>1
  <2>. QED  BY <2>1, Ordering DEF InOrder
<1>4. /\ \A k \in DOMAIN files' : Increasing(files'[k]) /\ Before(files'[k], batch)
      /\ \A k \in DOMAIN files', l \in DOMAIN queue : Before(files'[k], queue[l].entries)
  BY <1>2, Ordering DEF InOrder
<1>5. cur # 0 => \A k \in DOMAIN files' : k > cur => files'[k] = <<>>
  BY <1>2 DEF InOrder
<1>6. InOrder'
  BY <1>3, <1>4, <1>5 DEF InOrder
<1>7. InFiles' = InFiles
  <2>. DEFINE old(k) == Range(files[k])
              new(k) == Range(files'[k])
  <2>1. new(n + 1) = {} /\ \A k \in 1..n : new(k) = old(k)
    BY <1>1, EmptyRange
  <2>2. InFiles = UNION {old(k) : k \in 1..n} /\ InFiles' = UNION {new(k) : k \in 1..(n + 1)}
    BY <1>1 DEF InFiles
  <2>3. 1..(n + 1) = 1..n \cup {n + 1}
    BY <1>1
  <2>. HIDE DEF old, new
  <2>4. \A r : r \in UNION {new(k) : k \in 1..(n + 1)} <=> r \in UNION {old(k) : k \in 1..n}
    BY <2>1, <2>3
  <2>. QED  BY <2>2, <2>4
<1>. QED  BY <1>6, <1>7 DEF InQueue, Standing

\* Deleting a file leaves the order of the others; the writer goes to the
\* last one, or to none.
LEMMA DroppedOrder ==
    ASSUME IInv, InOrder, NEW i \in 1..Len(files), files' = RemoveAt(files, i),
           UNCHANGED <<batch, queue>>, cur' = 0 \/ cur' = Len(files')
    PROVE  InOrder' /\ InFiles \subseteq InFiles' \cup Range(files[i]) /\ InFiles' \subseteq InFiles
<1>0. files \in Seq(Seq(Records))
  BY DEF IInv, LogSide, LogTypes
<1>. DEFINE n == Len(files)
            at(k) == IF k < i THEN k ELSE k + 1
<1>1. /\ n \in Nat /\ i \in 1..n /\ DOMAIN files = 1..n /\ DOMAIN files' = 1..(n - 1) /\ Len(files') = n - 1
      /\ \A k \in 1..(n - 1) : files'[k] = files[at(k)]
  <2>1. /\ files' \in Seq(Seq(Records)) /\ Len(files') = Len(files) - 1
        /\ \A k \in 1..(Len(files) - 1) : files'[k] = IF k < i THEN files[k] ELSE files[k + 1]
    BY <1>0, Removed
  <2>2. Len(files) \in Nat /\ DOMAIN files = 1..Len(files) /\ DOMAIN files' = 1..Len(files')
    BY <1>0, <2>1
  <2>3. \A k \in 1..(Len(files) - 1) : files'[k] = files[at(k)]
    BY <2>1
  <2>. QED  BY <2>1, <2>2, <2>3
<1>. HIDE DEF n
<1>2. /\ \A k \in 1..(n - 1) : at(k) \in 1..n
      /\ \A j, k \in 1..(n - 1) : j < k => at(j) < at(k)
      /\ \A k \in 1..n : k = i \/ \E j \in 1..(n - 1) : k = at(j)
  <2>1. ASSUME NEW k \in 1..n, k # i PROVE \E j \in 1..(n - 1) : k = at(j)
    <3>1. CASE k < i
      <4>1. k \in 1..(n - 1) /\ k = at(k)
        BY <1>1, <3>1
      <4>. QED  BY <4>1
    <3>2. CASE k > i
      <4>1. k - 1 \in 1..(n - 1) /\ k = at(k - 1)
        BY <1>1, <3>2
      <4>. QED  BY <4>1
    <3>. QED  BY <1>1, <2>1, <3>1, <3>2
  <2>2. \A k \in 1..(n - 1) : at(k) \in 1..n
    BY <1>1
  <2>3. \A j, k \in 1..(n - 1) : j < k => at(j) < at(k)
    BY <1>1
  <2>. QED  BY <2>1, <2>2, <2>3
<1>. HIDE DEF at
<1>3. \A k \in 1..(n - 1) : Increasing(files'[k]) /\ Before(files'[k], batch)
  BY <1>1, <1>2 DEF InOrder
<1>4. \A j, k \in 1..(n - 1) : j < k => Before(files'[j], files'[k])
  BY <1>1, <1>2 DEF InOrder
<1>5. \A k \in 1..(n - 1), l \in DOMAIN queue : Before(files'[k], queue[l].entries)
  BY <1>1, <1>2 DEF InOrder
<1>6. cur' # 0 => \A k \in 1..(n - 1) : k > cur' => files'[k] = <<>>
  BY <1>1
<1>7. InOrder'
  BY <1>1, <1>3, <1>4, <1>5, <1>6 DEF InOrder
<1>8. ASSUME NEW r \in InFiles PROVE r \in InFiles' \cup Range(files[i])
  <2>1. PICK k \in 1..n : r \in Range(files[k])
    BY <1>1 DEF InFiles
  <2>2. CASE k = i
    BY <2>1, <2>2
  <2>3. ASSUME NEW j \in 1..(n - 1), k = at(j) PROVE r \in InFiles'
    BY <1>1, <2>1, <2>3 DEF InFiles
  <2>. QED  BY <1>2, <2>2, <2>3
<1>9. ASSUME NEW r \in InFiles' PROVE r \in InFiles
  <2>1. PICK k \in 1..(n - 1) : r \in Range(files'[k])
    BY <1>1 DEF InFiles
  <2>. QED  BY <1>1, <1>2, <2>1 DEF InFiles
<1>. QED  BY <1>7, <1>8, <1>9

-----------------------------------------------------------------------------
(***************************************************************************)
(* One lemma per group of steps.                                           *)
(***************************************************************************)
\* What each operation in the log is.
LEMMA StandingOps ==
    ASSUME IInv
    PROVE  Standing \subseteq Records /\ \A o \in Standing \ {Torn} : o \in Ops /\ o[1] \in Appenders /\ o[2] \in Nat
<1>1. Standing \subseteq Records /\ \A o \in Standing \ {Torn} : o \in Ops
  BY StandingIs DEF Standing, Records
<1>2. \A o \in Ops : o[1] \in Appenders /\ o[2] \in Nat
  BY DEF Ops
<1>. QED  BY <1>1, <1>2

\* Nothing new stands in the log and nobody begins an operation.
LEMMA StillNoneAhead ==
    ASSUME IInv, NoneAhead, Standing' \subseteq Standing \cup {Torn}, issued' = issued,
           \A a \in Appenders : pc'[a] \in {"append", "send"} => pc[a] \in {"append", "send"}
    PROVE  NoneAhead'
BY StandingOps DEF NoneAhead

\* A step of the owner, or of the writer where no file changes.
LEMMA QuietStep ==
    ASSUME IInv, InOrder, Kept, NoneAhead,
           InOrder', InFiles' = InFiles, Standing' = Standing,
           handed' = handed, issued' = issued, \A a \in Appenders : pc'[a] = pc[a],
           handed # {} => pc'[Owner] \in {"idle", "stopped"} /\ flushed \subseteq flushed',
           pc'[Owner] = "idle" => pc[Owner] = "idle" \/ Torn \notin InFiles
    PROVE  InOrder' /\ Kept' /\ NoneAhead'
<1>1. NoneAhead'
  BY StillNoneAhead
<1>2. Kept'
  BY DEF Kept
<1>. QED  BY <1>1, <1>2

LEMMA QueuedNothing ==
    ASSUME IInv, InOrder, NEW m \in Messages, m.entries = <<>>, queue' = Append(queue, m),
           UNCHANGED <<files, batch, cur>>
    PROVE  InOrder' /\ InFiles' = InFiles /\ Standing' = Standing
<1>1. /\ Increasing(m.entries) /\ Before(batch, m.entries)
      /\ \A k \in DOMAIN files : Before(files[k], m.entries)
      /\ \A l \in DOMAIN queue : Before(queue[l].entries, m.entries)
  BY Ordering
<1>2. Range(m.entries) = {}
  BY EmptyRange
<1>. QED  BY <1>1, <1>2, QueuedOrder

LEMMA PlainOpening ==
    ASSUME IInv, JInv, Opening \/ SendFlush(Owner) \/ Flushed(Owner)
    PROVE  InOrder' /\ Kept' /\ NoneAhead'
<1>. USE DEF IInv, JInv, LogSide, CallerSide
<1>0. \A a \in Appenders : a \in Callers /\ a # Owner
  BY OwnerApart DEF Callers
<1>01. Owner \in Callers
  BY OwnerApart
<1>1. CASE Replay
  <2>1. /\ pc[Owner] = "down" /\ pc'[Owner] = "replayed" /\ (\A a \in Appenders : pc'[a] = pc[a])
        /\ handed = {} /\ handed' = handed /\ issued' = issued /\ UNCHANGED <<batch, queue>> /\ cur' = Len(files')
    BY <1>0, <1>01, <1>1 DEF Replay, Goto, CallerTypes, Kept, histVars
  <2>2. InFiles' = InFiles /\ InOrder'
    <3>1. CASE files = <<>>
      <4>1. files' = <<(<<>>)>>
        BY <1>1, <3>1 DEF Replay
      <4>2. DOMAIN files' = {1} /\ files'[1] = <<>> /\ Len(files') = 1
        BY <4>1
      <4>3. InFiles = {}
        BY <3>1 DEF InFiles
      <4>4. InFiles' = {}
        BY <4>2, EmptyRange DEF InFiles
      <4>5. /\ \A k \in DOMAIN files' : files'[k] = <<>>
            /\ \A j, k \in DOMAIN files' : ~(j < k)
        BY <4>2
      <4>6. InOrder'
        BY <2>1, <4>2, <4>5, Ordering DEF InOrder
      <4>. QED  BY <4>3, <4>4, <4>6
    <3>2. CASE files # <<>>
      <4>1. files' = files /\ \A k \in DOMAIN files : ~(k > Len(files))
        BY <1>1, <3>2 DEF Replay, LogTypes
      <4>. QED  BY <2>1, <4>1 DEF InOrder, InFiles
    <3>. QED  BY <3>1, <3>2
  <2>3. Standing' = Standing
    BY <2>1, <2>2 DEF Standing, InQueue
  <2>. QED  BY <2>1, <2>2, <2>3, QuietStep
<1>2. CASE FlushBlocks
  <2>1. /\ pc[Owner] = "replayed" /\ pc'[Owner] = "flush" /\ \A a \in Appenders : pc'[a] = pc[a]
        /\ handed = {} /\ handed' = handed /\ issued' = issued /\ UNCHANGED <<files, batch, queue, cur>>
    BY <1>0, <1>01, <1>2 DEF FlushBlocks, Goto, CallerTypes, Kept, histVars, writerVars
  <2>2. InOrder' /\ InFiles' = InFiles /\ Standing' = Standing
    BY <2>1, SameOrder
  <2>. QED  BY <2>1, <2>2, QuietStep
<1>3. CASE SendRenew \/ SendFlush(Owner)
  <2>1. /\ pc[Owner] \in {"trim", "flush"} /\ pc'[Owner] = "done" /\ \A a \in Appenders : pc'[a] = pc[a]
        /\ handed = {} /\ handed' = handed /\ issued' = issued /\ UNCHANGED <<files, batch, cur>>
    BY <1>0, <1>01, <1>3 DEF SendRenew, SendFlush, Goto, CallerTypes, Kept, histVars, diskVars, writerVars
  <2>2. PICK k \in {"renew", "flush"} : queue' = Append(queue, Message(k, <<>>, Owner))
    BY <1>3 DEF SendRenew, SendFlush
  <2>3. Message(k, <<>>, Owner) \in Messages /\ Message(k, <<>>, Owner).entries = <<>>
    BY <1>01 DEF Message, Messages
  <2>4. InOrder' /\ InFiles' = InFiles /\ Standing' = Standing
    BY <2>1, <2>2, <2>3, QueuedNothing
  <2>. QED  BY <2>1, <2>4, QuietStep
<1>4. CASE Flushed(Owner)
  <2>1. /\ pc[Owner] = "done" /\ why[Owner] \in {"sync", "renew"}
        /\ pc'[Owner] = (IF error THEN "shut" ELSE IF why[Owner] = "sync" THEN "trim" ELSE "idle")
        /\ \A a \in Appenders : pc'[a] = pc[a]
        /\ handed = {} /\ handed' = handed /\ issued' = issued /\ UNCHANGED <<files, batch, queue, cur>>
        /\ Owner \in answered
    BY <1>0, <1>01, <1>4 DEF Flushed, Goto, OnOk, OnError, CallerTypes, CallersOK, Kept, histVars,
       diskVars, writerVars
  <2>2. InOrder' /\ InFiles' = InFiles /\ Standing' = Standing
    BY <2>1, SameOrder
  <2>3. pc'[Owner] = "idle" => Torn \notin InFiles
    <3>1. ASSUME pc'[Owner] = "idle" PROVE files = <<(<<>>)>>
      BY <2>1, <3>1 DEF OpeningOK
    <3>2. ASSUME files = <<(<<>>)>> PROVE InFiles = {}
      <4>1. DOMAIN files = {1} /\ files[1] = <<>>
        BY <3>2
      <4>. QED  BY <4>1, EmptyRange DEF InFiles
    <3>. QED  BY <3>1, <3>2
  <2>. QED  BY <2>1, <2>2, <2>3, QuietStep
<1>. QED  BY <1>1, <1>2, <1>3, <1>4 DEF Opening

LEMMA PlainShutdown ==
    ASSUME IInv, JInv, Shutdown
    PROVE  InOrder' /\ Kept' /\ NoneAhead'
<1>. USE DEF IInv, JInv, CallerSide
<1>0. \A a \in Appenders : a \in Callers /\ a # Owner
  BY OwnerApart DEF Callers
<1>01. Owner \in Callers
  BY OwnerApart
<1>1. /\ pc'[Owner] = "stopped" /\ \A a \in Appenders : pc'[a] = pc[a]
      /\ queue' = Append(queue, Message("shutdown", <<>>, Owner))
      /\ handed' = handed /\ issued' = issued /\ UNCHANGED <<flushed, files, batch, cur>>
  BY <1>0, <1>01 DEF Shutdown, Goto, CallerTypes, histVars, diskVars, writerVars
<1>2. Message("shutdown", <<>>, Owner) \in Messages /\ Message("shutdown", <<>>, Owner).entries = <<>>
  BY <1>01 DEF Message, Messages
<1>3. InOrder' /\ InFiles' = InFiles /\ Standing' = Standing
  BY <1>1, <1>2, QueuedNothing
<1>. QED  BY <1>1, <1>3, QuietStep

LEMMA PlainAppending ==
    ASSUME IInv, JInv, NEW a \in Appenders, Apply(a) \/ ReadEpoch(a) \/ Send(a) \/ Return(a)
    PROVE  InOrder' /\ Kept' /\ NoneAhead'
<1>. USE DEF IInv, JInv, CallerSide
<1>0. /\ a \in Callers /\ a # Owner /\ Owner \in Callers
      /\ \A b \in Appenders : b \in Callers /\ b # Owner
  BY OwnerApart DEF Callers
<1>1. /\ pc'[Owner] = pc[Owner] /\ UNCHANGED <<flushed, files, batch, cur>>
      /\ \A b \in Appenders : b # a => pc'[b] = pc[b] /\ issued'[b] = issued[b]
  BY <1>0 DEF Apply, ReadEpoch, Send, Return, Goto, CallerTypes, diskVars, writerVars
<1>2. CASE ~Send(a)
  <2>1. UNCHANGED <<queue, handed>>
    BY <1>2 DEF Apply, ReadEpoch, Return, histVars
  <2>2. \/ issued'[a] = issued[a] /\ (pc'[a] \in {"append", "send"} => pc[a] \in {"append", "send"})
        \/ issued'[a] = issued[a] + 1
    BY <1>0, <1>2 DEF Apply, ReadEpoch, Return, Goto, CallerTypes
  <2>3. InOrder' /\ InFiles' = InFiles /\ Standing' = Standing
    BY <1>1, <2>1, SameOrder
  <2>4. Kept'
    BY <1>1, <2>1, <2>3 DEF Kept
  <2>5. NoneAhead'
    <3>. SUFFICES ASSUME NEW o \in Standing \ {Torn}
                  PROVE  /\ o[2] <= issued'[o[1]]
                         /\ pc'[o[1]] \in {"append", "send"} => o[2] < issued'[o[1]]
      BY <2>3 DEF NoneAhead
    <3>1. /\ o[1] \in Appenders /\ o[2] \in Nat /\ o[2] <= issued[o[1]] /\ issued[o[1]] \in Nat
          /\ pc[o[1]] \in {"append", "send"} => o[2] < issued[o[1]]
      BY StandingOps DEF NoneAhead, CallerTypes
    <3>2. CASE o[1] # a
      BY <1>1, <3>1, <3>2
    <3>3. CASE o[1] = a
      BY <2>2, <3>1, <3>3
    <3>. QED  BY <3>2, <3>3
  <2>. QED  BY <2>3, <2>4, <2>5
<1>3. CASE Send(a)
  <2>. DEFINE m == Message("entry", <<Op(a)>>, a)
  <2>1. /\ pc[a] = "send" /\ pc'[a] = "wait" /\ queue' = Append(queue, m) /\ issued' = issued
        /\ handed' = handed \cup {Op(a)} /\ pc[Owner] = "idle"
    BY <1>0, <1>3 DEF Send, Goto, CallerTypes, CallersOK
  <2>2. Op(a) \in Ops /\ Op(a)[1] = a /\ Op(a)[2] = issued[a]
    <3>1. Working(a)
      BY <2>1 DEF Working
    <3>. QED  BY <3>1, WorkingOp DEF Op
  <2>3. /\ m \in Messages /\ m.entries = <<Op(a)>> /\ Range(m.entries) = {Op(a)} /\ Increasing(m.entries)
    <3>1. m \in Messages /\ m.entries = <<Op(a)>>
      BY <1>0, <2>2 DEF Message, Messages
    <3>2. Range(<<Op(a)>>) = {Op(a)}
      <4>1. <<>> \in Seq(Ops)
        OBVIOUS
      <4>. QED  BY <2>2, <4>1, AppendedOp
    <3>3. Increasing(<<Op(a)>>)
      BY DEF Increasing
    <3>. QED  BY <3>1, <3>2, <3>3
  <2>. HIDE DEF m
  <2>4. \A o \in Standing : Precedes(o, Op(a))
    BY <2>1, <2>2, StandingOps DEF NoneAhead, Precedes
  <2>5. /\ Before(batch, m.entries)
        /\ \A k \in DOMAIN files : Before(files[k], m.entries)
        /\ \A l \in DOMAIN queue : Before(queue[l].entries, m.entries)
    BY <2>3, <2>4, StandingIs DEF Before, Standing, InFiles, InQueue
  <2>6. InOrder' /\ InFiles' = InFiles /\ Standing' = Standing \cup {Op(a)}
    BY <1>1, <2>1, <2>3, <2>5, QueuedOrder
  <2>7. Kept'
    BY <1>1, <2>1, <2>6 DEF Kept
  <2>8. NoneAhead'
    <3>. SUFFICES ASSUME NEW o \in Standing' \ {Torn}
                  PROVE  /\ o[2] <= issued'[o[1]]
                         /\ pc'[o[1]] \in {"append", "send"} => o[2] < issued'[o[1]]
      BY DEF NoneAhead
    <3>1. CASE o = Op(a)
      <4>1. issued[a] \in Nat
        BY DEF CallerTypes
      <4>. QED  BY <2>1, <2>2, <3>1, <4>1
    <3>2. CASE o \in Standing
      <4>1. o[1] \in Appenders /\ o[2] <= issued[o[1]] /\ (pc[o[1]] \in {"append", "send"} => o[2] < issued[o[1]])
        BY <3>2, StandingOps DEF NoneAhead
      <4>2. CASE o[1] = a
        BY <2>1, <4>1, <4>2
      <4>3. CASE o[1] # a
        BY <1>1, <2>1, <4>1, <4>3
      <4>. QED  BY <4>2, <4>3
    <3>. QED  BY <2>6, <3>1, <3>2
  <2>. QED  BY <2>6, <2>7, <2>8
<1>. QED  BY <1>2, <1>3

LEMMA PlainWriting ==
    ASSUME IInv, JInv, Writing \/ RotateFails \/ RenewFails
    PROVE  InOrder' /\ Kept' /\ NoneAhead'
<1>. USE DEF IInv, JInv, LogSide
<1>0. UNCHANGED <<pc, handed, issued>>
  BY DEF Writing, Receive, FlushNothing, Rotate, Sweep, RemoveOld, WriteBatch, Answer, TrimOne, Renewed,
         RotateFails, RenewFails, callerVars, histVars
<1>01. handed # {} => pc[Owner] \in {"idle", "stopped"}
  BY DEF Kept
<1>02. step = "trim" => pc[Owner] = "done" /\ cur = 0
  BY OwnerApart DEF OpeningOK, WriterOK, CallerSide, CallersOK
<1>1. CASE Receive \/ FlushNothing \/ Sweep \/ Answer \/ RotateFails \/ RenewFails \/ Rotate
  <2>1. InOrder' /\ InFiles' = InFiles /\ Standing' = Standing
    <3>1. CASE Receive
      BY <3>1, ReceivedOrder
    <3>2. CASE Rotate
      BY <3>2, AddedOrder DEF Rotate
    <3>3. CASE FlushNothing \/ Sweep \/ Answer \/ RotateFails \/ RenewFails
      <4>1. UNCHANGED <<files, batch, queue>> /\ cur' \in {cur, 0}
        BY <3>3 DEF FlushNothing, Sweep, Answer, RotateFails, RenewFails, diskVars
      <4>. QED  BY <4>1, SameOrder
    <3>. QED  BY <1>1, <3>1, <3>2, <3>3
  <2>2. flushed \subseteq flushed'
    BY <1>1 DEF Receive, FlushNothing, Sweep, Answer, RotateFails, RenewFails, Rotate, diskVars
  <2>. QED  BY <1>0, <1>01, <2>1, <2>2, QuietStep
<1>2. CASE WriteBatch
  <2>1. /\ cur \in 1..Len(files) /\ batch \in Seq(Records) /\ files' = [files EXCEPT ![cur] = @ \o batch]
        /\ batch' = <<>> /\ UNCHANGED <<flushed, cur, queue>>
    BY <1>2 DEF WriteBatch, LogTypes, WriterOK, Records
  <2>2. InOrder' /\ InFiles' = InFiles \cup Range(batch)
    <3>1. Increasing(batch)
      BY DEF InOrder
    <3>. QED  BY <2>1, <3>1, WrittenOrder
  <2>3. Standing' = Standing
    BY <2>1, <2>2, EmptyRange DEF Standing, InQueue
  <2>4. Torn \notin Range(batch)
    BY RedoLogAssumption, StandingIs
  <2>5. Kept'
    BY <1>0, <2>1, <2>2, <2>3, <2>4 DEF Kept
  <2>6. NoneAhead'
    BY <1>0, <2>3, StillNoneAhead
  <2>. QED  BY <2>2, <2>5, <2>6
<1>3. CASE RemoveOld
  <2>1. /\ cur \in 1..Len(files) /\ files' = RemoveAt(files, cur) /\ cur' = Len(files')
        /\ UNCHANGED <<flushed, batch, queue>> /\ Logged \subseteq flushed
    BY <1>3 DEF RemoveOld, LogTypes, WriterOK, LogLive
  <2>2. InOrder' /\ InFiles \subseteq InFiles' \cup Range(files[cur]) /\ InFiles' \subseteq InFiles
    BY <2>1, DroppedOrder
  <2>3. Standing' \subseteq Standing /\ Standing \subseteq Standing' \cup Range(files[cur])
    BY <2>1, <2>2 DEF Standing, InQueue
  <2>4. handed # {} => Range(files[cur]) \subseteq flushed
    BY <2>1, AllReadable, StandingIs DEF Kept
  <2>5. Kept'
    BY <1>0, <2>1, <2>2, <2>3, <2>4 DEF Kept
  <2>6. NoneAhead'
    BY <1>0, <2>3, StillNoneAhead
  <2>. QED  BY <2>2, <2>5, <2>6
<1>4. CASE TrimOne
  <2>1. PICK i \in 1..Len(files) : files' = RemoveAt(files, i)
    BY <1>4 DEF TrimOne, LogTypes
  <2>2. pc[Owner] = "done" /\ cur' = 0 /\ UNCHANGED <<batch, queue>>
    BY <1>02, <1>4 DEF TrimOne, writerVars
  <2>3. InOrder' /\ InFiles' \subseteq InFiles
    BY <2>1, <2>2, DroppedOrder
  <2>4. Standing' \subseteq Standing
    BY <2>2, <2>3 DEF Standing, InQueue
  <2>5. Kept'
    BY <1>0, <1>01, <2>2 DEF Kept
  <2>6. NoneAhead'
    BY <1>0, <2>4, StillNoneAhead
  <2>. QED  BY <2>3, <2>5, <2>6
<1>5. CASE Renewed
  <2>1. pc[Owner] = "done" /\ files = <<>> /\ files' = <<(<<>>)>> /\ cur' = 1 /\ UNCHANGED <<batch, queue>>
    BY <1>02, <1>5 DEF Renewed
  <2>2. DOMAIN files' = {1} /\ files'[1] = <<>>
    BY <2>1
  <2>3. InFiles' = {}
    BY <2>2, EmptyRange DEF InFiles
  <2>4. InOrder'
    <3>1. /\ \A k \in DOMAIN files' : files'[k] = <<>>
          /\ \A j, k \in DOMAIN files' : ~(j < k)
      BY <2>2
    <3>. QED  BY <2>1, <3>1, Ordering DEF InOrder
  <2>5. Standing' \subseteq Standing
    BY <2>1, <2>3 DEF Standing, InQueue
  <2>6. Kept'
    BY <1>0, <1>01, <2>1 DEF Kept
  <2>7. NoneAhead'
    BY <1>0, <2>5, StillNoneAhead
  <2>. QED  BY <2>4, <2>6, <2>7
<1>. QED  BY <1>1, <1>2, <1>3, <1>4, <1>5 DEF Writing

\* Part of the batch keeps its order.
LEMMA PartialOrder ==
    ASSUME batch \in Seq(Ops), Increasing(batch), NEW part \in PartOfBatch
    PROVE  Increasing(part)
<1>1. ASSUME NEW n \in 0..Len(batch), NEW s \in Seq(Records), Len(s) = n \/ Len(s) = n + 1,
             \A k \in 1..n : s[k] = batch[k], Len(s) = n + 1 => s[n + 1] = Torn
      PROVE  Increasing(s)
  <2>. SUFFICES ASSUME NEW j \in 1..Len(s), NEW k \in 1..Len(s), j < k PROVE Precedes(s[j], s[k])
    BY DEF Increasing
  <2>1. CASE k = n + 1
    BY <1>1, <2>1 DEF Precedes
  <2>2. CASE k # n + 1
    <3>1. j \in 1..n /\ k \in 1..n /\ j \in 1..Len(batch) /\ k \in 1..Len(batch)
      BY <1>1, <2>2
    <3>. QED  BY <1>1, <3>1 DEF Increasing
  <2>. QED  BY <2>1, <2>2
<1>2. batch \in Seq(Records) /\ Torn \in Records
  BY DEF Records
<1>3. ASSUME NEW n \in 0..Len(batch) PROVE Increasing(SubSeq(batch, 1, n))
  <2>. DEFINE s == SubSeq(batch, 1, n)
  <2>1. s \in Seq(Records) /\ Len(s) = n /\ \A k \in 1..n : s[k] = batch[k]
    BY <1>2
  <2>. HIDE DEF s
  <2>2. Len(s) # n + 1
    BY <2>1
  <2>3. Increasing(s)
    BY <1>1, <2>1, <2>2
  <2>. QED  BY <2>3 DEF s
<1>4. ASSUME NEW n \in 0..(Len(batch) - 1) PROVE Increasing(Append(SubSeq(batch, 1, n), Torn))
  <2>. DEFINE s == SubSeq(batch, 1, n)
  <2>0. n \in 0..Len(batch)
    OBVIOUS
  <2>1. s \in Seq(Records) /\ Len(s) = n /\ \A k \in 1..n : s[k] = batch[k]
    BY <1>2
  <2>. HIDE DEF s
  <2>2. /\ Append(s, Torn) \in Seq(Records) /\ Len(Append(s, Torn)) = n + 1
        /\ Append(s, Torn)[n + 1] = Torn /\ \A k \in 1..n : Append(s, Torn)[k] = batch[k]
    BY <1>2, <2>1
  <2>3. Increasing(Append(s, Torn))
    BY <1>1, <2>0, <2>2
  <2>. QED  BY <2>3 DEF s
<1>. QED  BY <1>3, <1>4 DEF PartOfBatch

LEMMA PlainCrash ==
    ASSUME IInv, JInv, Crash
    PROVE  InOrder' /\ Kept' /\ NoneAhead'
<1>. USE DEF IInv, JInv, LogSide
<1>0. /\ batch' = <<>> /\ queue' = <<>> /\ cur' = 0 /\ handed' = {} /\ issued' = issued
      /\ pc'[Owner] = "down" /\ \A a \in Appenders : pc'[a] = "idle"
  BY OwnerApart DEF Crash, Callers
<1>1. InOrder' /\ InFiles' \subseteq InFiles \cup Range(batch) \cup {Torn}
  <2>1. CASE files' = files
    <3>1. InFiles' = InFiles
      BY <2>1 DEF InFiles
    <3>2. InOrder'
      BY <1>0, <2>1, Ordering DEF InOrder
    <3>. QED  BY <3>1, <3>2
  <2>2. CASE files' # files
    <3>1. PICK part \in PartOfBatch : files' = [files EXCEPT ![cur] = @ \o part]
      BY <2>2 DEF Crash
    <3>2. batch # <<>>
      BY <2>2 DEF Crash
    <3>3. /\ part \in Seq(Records) /\ Range(part) \subseteq Range(batch) \cup {Torn} /\ Increasing(part)
      BY PartialBatch, PartialOrder DEF LogTypes, InOrder
    <3>4. cur \in 1..Len(files)
      BY <3>2 DEF LogTypes, WriterOK
    <3>5. InOrder' /\ InFiles' = InFiles \cup Range(part)
      BY <1>0, <3>1, <3>3, <3>4, WrittenOrder
    <3>. QED  BY <3>3, <3>5
  <2>. QED  BY <2>1, <2>2
<1>2. Standing' \subseteq Standing \cup {Torn}
  <2>1. InQueue' = {} /\ Range(batch') = {}
    BY <1>0, EmptyRange DEF InQueue
  <2>. QED  BY <1>1, <2>1 DEF Standing
<1>3. NoneAhead'
  BY <1>0, <1>2, StillNoneAhead
<1>4. Kept'
  BY <1>0 DEF Kept
<1>. QED  BY <1>1, <1>3, <1>4

LEMMA InitJInv == Init => JInv
<1>. SUFFICES ASSUME Init PROVE JInv
  OBVIOUS
<1>1. /\ files = <<>> /\ batch = <<>> /\ queue = <<>> /\ cur = 0 /\ handed = {} /\ buffer = Off /\ ticking = FALSE
      /\ importing = {} /\ pc[Owner] = "down" /\ \A c \in Callers : hand[c] = <<>>
      /\ \A c \in Callers \ {Owner} : pc[c] = "idle"
  BY OwnerApart DEF Init
<1>2. Timer \in Callers \ {Owner}
  BY RedoLogAssumption DEF Callers
<1>3. Range(<<>>) = {} /\ DOMAIN <<>> = {}
  BY EmptyRange
<1>4. InFiles = {} /\ Standing = {}
  BY <1>1, <1>3 DEF InFiles, InQueue, Standing
<1>5. NoBatches
  BY <1>1, <1>2 DEF NoBatches
<1>6. InOrder
  BY <1>1, <1>3, Ordering DEF InOrder
<1>7. Kept /\ NoneAhead
  BY <1>1, <1>4 DEF Kept, NoneAhead
<1>. QED  BY <1>5, <1>6, <1>7 DEF JInv

LEMMA NextJInv == Plain /\ IInv /\ JInv /\ [Next]_vars => JInv'
<1>. SUFFICES ASSUME Plain, IInv, JInv, [Next]_vars PROVE JInv'
  OBVIOUS
<1>1. CASE Next
  <2>1. NoBatches'
    BY <1>1, PlainBatches DEF JInv
  <2>2. InOrder' /\ Kept' /\ NoneAhead'
    BY <1>1, PlainSteps, PlainOpening, PlainShutdown, PlainAppending, PlainWriting, PlainCrash DEF JInv
  <2>. QED  BY <2>1, <2>2 DEF JInv
<1>2. CASE UNCHANGED vars
  <2>1. UNCHANGED <<files, batch, queue, cur, handed, issued, pc, flushed, buffer, hand, ticking, importing>>
    BY <1>2 DEF vars, diskVars, writerVars, sharedVars, batchVars, callerVars, histVars
  <2>2. InOrder' /\ InFiles' = InFiles /\ Standing' = Standing
    BY <2>1, SameOrder DEF JInv
  <2>. QED  BY <2>1, <2>2 DEF JInv, NoBatches, Kept, NoneAhead
<1>. QED  BY <1>1, <1>2

THEOREM AlwaysJInv ==
    ASSUME Importers = {}, "write" \notin Faults
    PROVE  Spec => []JInv
<1>1. Plain
  BY DEF Plain
<1>2. IInv /\ JInv /\ [Next]_vars => JInv'
  BY <1>1, NextJInv
<1>. QED  BY <1>2, InitJInv, AlwaysIInv, PTL DEF Spec

\* What the channel holds.
LEMMA Queued ==
    ASSUME IInv
    PROVE  /\ QueuedEntries \in Seq(Ops) /\ Range(QueuedEntries) = InQueue
           /\ InOrder => Increasing(QueuedEntries)
<1>. DEFINE es == [i \in DOMAIN queue |-> queue[i].entries]
<1>0. queue \in Seq(Messages) /\ DOMAIN queue = 1..Len(queue) /\ Len(queue) \in Nat
  BY DEF IInv, LogSide, LogTypes
<1>1. \A i \in 1..Len(queue) : queue[i].entries \in Seq(Ops)
  <2>1. \A i \in 1..Len(queue) : queue[i] \in Messages
    BY <1>0
  <2>. QED  BY <2>1 DEF Messages
<1>2. es \in Seq(Seq(Ops)) /\ Len(es) = Len(queue) /\ \A i \in 1..Len(queue) : es[i] = queue[i].entries
  <2>1. es = [i \in 1..Len(queue) |-> queue[i].entries]
    BY <1>0
  <2>2. es \in [1..Len(queue) -> Seq(Ops)]
    BY <1>1, <2>1
  <2>. QED  BY <1>0, <2>1, <2>2
<1>3. QueuedEntries = FlattenSeq(es)
  BY DEF QueuedEntries
<1>. HIDE DEF es
<1>4. QueuedEntries \in Seq(Ops) /\ Range(QueuedEntries) = Parts(es, Len(es))
      /\ (OrderedParts(es) => Increasing(QueuedEntries))
  BY <1>2, <1>3, Flattened
<1>5. Parts(es, Len(es)) = InQueue
  BY <1>0, <1>2 DEF Parts, InQueue
<1>6. InOrder => OrderedParts(es)
  BY <1>0, <1>2 DEF InOrder, OrderedParts
<1>. QED  BY <1>4, <1>5, <1>6

\* Whatever the order of appends, rotations, failed rotations and renewals,
\* an entry that append gave to the log is on its way to the writer, in a
\* file replay reads, or has its blocks in the data file.
THEOREM EntriesNotDropped ==
    ASSUME Importers = {}, "write" \notin Faults
    PROVE  Spec => []NothingDropped
<1>1. ASSUME IInv, JInv PROVE NothingDropped
  <2>1. Range(QueuedEntries) = InQueue
    BY <1>1, Queued
  <2>2. handed # {} => InFiles = Logged
    BY <1>1, AllReadable DEF JInv, Kept
  <2>3. handed \subseteq Recoverable \cup Range(batch) \cup Range(QueuedEntries)
    BY <1>1, <2>1, <2>2 DEF JInv, Kept, Standing, Recoverable
  <2>. QED  BY <2>3 DEF NothingDropped
<1>2. IInv /\ JInv => NothingDropped
  BY <1>1
<1>. QED  BY <1>2, AlwaysIInv, AlwaysJInv, PTL

\* From the oldest file to the tail of the channel the operations of each
\* thread stand in the order it did them, none twice, also after rotations
\* that failed half way and after a death in the middle of a write.
THEOREM EntriesInOrder ==
    ASSUME Importers = {}, "write" \notin Faults
    PROVE  Spec => []ReplayInOrder
<1>1. ASSUME IInv, JInv PROVE ReplayInOrder
  <2>. DEFINE old == FlattenSeq(files)
              line == FlattenSeq(files) \o batch \o QueuedEntries
  <2>0. files \in Seq(Seq(Records)) /\ batch \in Seq(Records) /\ DOMAIN files = 1..Len(files) /\ InOrder
    BY <1>1 DEF IInv, LogSide, LogTypes, Records, JInv
  <2>1. old \in Seq(Records) /\ Range(old) = InFiles /\ Increasing(old)
    <3>1. OrderedParts(files) /\ Parts(files, Len(files)) = InFiles
      BY <2>0 DEF InOrder, OrderedParts, Parts, InFiles
    <3>. QED  BY <2>0, <3>1, Flattened
  <2>2. QueuedEntries \in Seq(Records) /\ Range(QueuedEntries) = InQueue /\ Increasing(QueuedEntries)
    <3>1. QueuedEntries \in Seq(Ops)
      BY <1>1, Queued
    <3>2. QueuedEntries \in Seq(Records)
      BY <3>1 DEF Records
    <3>. QED  BY <1>1, <2>0, <3>2, Queued
  <2>. HIDE DEF old
  <2>3. Before(old, batch) /\ Before(old, QueuedEntries) /\ Before(batch, QueuedEntries)
    BY <2>0, <2>1, <2>2 DEF InOrder, Before, InFiles, InQueue
  <2>. DEFINE first == old \o batch
  <2>4. first \in Seq(Records) /\ Range(first) = Range(old) \cup Range(batch) /\ Increasing(first)
    <3>1. Increasing(batch)
      BY <2>0 DEF InOrder
    <3>. QED  BY <2>0, <2>1, <2>3, <3>1, RangeConcat, IncreasingConcat
  <2>. HIDE DEF first
  <2>5. Before(first, QueuedEntries)
    BY <2>3, <2>4 DEF Before
  <2>6. Increasing(first \o QueuedEntries)
    BY <2>2, <2>4, <2>5, IncreasingConcat
  <2>7. Increasing(line)
    BY <2>6 DEF first, old
  <2>. QED  BY <2>7 DEF ReplayInOrder, Increasing, Precedes
<1>2. IInv /\ JInv => ReplayInOrder
  BY <1>1
<1>. QED  BY <1>2, AlwaysIInv, AlwaysJInv, PTL

-----------------------------------------------------------------------------
(***************************************************************************)
(* What is reported durable, with one thread that appends and imports.     *)
(* The writes and rotations of a flush succeed, a renewal may fail.        *)
(***************************************************************************)
Solo == (\A a, b \in Appenders : a = b) /\ Faults \subseteq {"renew"}

InHands == UNION {Range(hand[c]) : c \in Callers}

\* Batch mode is on exactly during an import; only then the checker runs and
\* entries are held back.
ModeOK ==
    /\ importing = {} <=> buffer = Off
    /\ \A c \in Callers : hand[c] # <<>> => pc[c] = "batch"
    /\ pc[Timer] \in {"idle", "take", "batch", "flush", "done"}
    /\ pc[Timer] # "idle" => why[Timer] = "timer"
    /\ buffer = Off =>
          /\ batched = {} /\ pc[Timer] = "idle"
          /\ \A a \in Appenders : pc[a] \in {"idle", "append", "send", "wait"}
    /\ buffer # Off => \A a \in Appenders : pc[a] \notin {"send", "wait"}

\* While the graph is open no file is torn and no flush has failed, and the
\* done flags are of callers that wait for them.
Healthy ==
    /\ pc[Owner] = "replayed" => flushed \subseteq live
    /\ pc[Owner] \notin {"idle", "stopped"} => answered \subseteq {Owner}
    /\ Opened => error = FALSE /\ Torn \notin InFiles /\ \A c \in answered : pc[c] = "done"

Quiet == queue = <<>> /\ step = "recv" /\ batch = <<>>

EntryOf(a) == Message("entry", <<Op(a)>>, a)
FlushOf(c) == Message("flush", <<>>, c)

\* The entry of a waiting append: sent, or taken by the writer, or in a file.
OneEntry(a) ==
    \/ queue = <<EntryOf(a)>> /\ step = "recv" /\ batch = <<>> /\ a \in observed
    \/ /\ queue = <<>> /\ step \in {"flush", "sweep", "remove"} /\ batch = <<Op(a)>>
       /\ task = EntryOf(a) /\ a \in observed
    \/ Quiet /\ a \notin observed /\ Op(a) \in Recoverable

\* Without batch mode the log has nothing but that entry.
Direct ==
    /\ (\A a \in Appenders : pc[a] # "wait") => Quiet
    /\ \A a \in Appenders : /\ pc[a] = "send" => a \in observed
                            /\ pc[a] = "wait" => OneEntry(a)

\* In batch mode a message is a flush somebody waits for, or a batch whose
\* sender will send its flush or has sent it since.
Awaited(c) == pc[c] = "done" /\ c \notin answered

Sent ==
    /\ \A k \in DOMAIN queue :
          \/ \E c \in Callers : queue[k] = FlushOf(c) /\ Awaited(c)
          \/ /\ queue[k].kind = "batch"
             /\ \/ pc[queue[k].from] = "flush"
                \/ \E l \in DOMAIN queue : k < l /\ queue[l] = FlushOf(queue[k].from)
    /\ \A c \in Callers, k, l \in DOMAIN queue :
          queue[k] = FlushOf(c) /\ queue[l] = FlushOf(c) => k = l

Taken ==
    step # "recv" =>
        \/ /\ task.kind = "batch" /\ batch # <<>> /\ step \in {"flush", "sweep", "remove"}
        \/ \E c \in Callers :
              /\ task = FlushOf(c) /\ Awaited(c) /\ \A k \in DOMAIN queue : queue[k] # FlushOf(c)
              /\ step \in {"flush", "sweep", "remove"} \/ (step = "answer" /\ batch = <<>>)

\* The writer holds entries back only while a flush is still to come.
Held ==
    batch # <<>> =>
        \/ step # "recv" /\ \E c \in Callers : task = FlushOf(c)
        \/ \E c \in Callers : pc[c] = "flush" \/ \E k \in DOMAIN queue : queue[k] = FlushOf(c)

\* What the import has handed to the log stands on the way to a file or in
\* one; the buffer is empty once its thread has taken the entries.
Collected ==
    /\ batched \subseteq Recoverable \cup Range(batch) \cup InQueue \cup InHands
                     \cup (IF buffer = Off THEN {} ELSE Range(buffer))
    /\ buffer # Off =>
          \A a \in Appenders : pc[a] \in {"batch", "flush", "done", "clear"} => buffer = <<>>

LogServes ==
    Opened => /\ buffer = Off => Direct
              /\ buffer # Off => Sent /\ Taken /\ Held

AInv == ModeOK /\ Healthy /\ LogServes /\ Collected /\ AckedSurvives

\* A step of the program never makes an operation unrecoverable.
LEMMA CrashKeeps ==
    ASSUME IInv, Crash
    PROVE  Recoverable \subseteq Recoverable'
<1>. USE DEF IInv, LogSide
<1>1. CASE files' = files
  BY <1>1, SameFiles DEF Recoverable, Crash
<1>2. CASE files' # files
  <2>1. PICK part \in PartOfBatch : files' = [files EXCEPT ![cur] = @ \o part]
    BY <1>2 DEF Crash
  <2>2. cur \in 1..Len(files) /\ part \in Seq(Records)
    BY <1>2, <2>1, PartialBatch DEF Crash, LogTypes, WriterOK
  <2>3. Logged \subseteq Logged'
    BY <2>1, <2>2, WrittenFile DEF LogTypes
  <2>. QED  BY <2>3 DEF Recoverable, Crash
<1>. QED  BY <1>1, <1>2

LEMMA OwnerStarts ==
    ASSUME IInv, Next, ~Crash
    PROVE  pc'[Owner] # "down"
<1>. USE RedoLogAssumption, OwnerApart DEF IInv, CallerSide, CallerTypes, Goto
<1>1. CASE Opening \/ Shutdown \/ Tick
  BY <1>1 DEF Opening, Replay, FlushBlocks, SendRenew, Shutdown, Tick, CallersOK
<1>2. CASE pc[Owner] = "down"
  <2>1. ~Shutdown /\ ~Tick
    BY <1>2 DEF Shutdown, Tick, CallersOK
  <2>2. ~Writing /\ ~Failing
    BY <1>2 DEF OpeningOK, LogSide, Writing, Failing, Receive, FlushNothing, Rotate, Sweep, RemoveOld, WriteBatch,
       Answer, TrimOne, Renewed, RotateFails, WriteFails, RenewFails
  <2>3. ASSUME NEW a \in Appenders PROVE ~Apply(a) /\ ~Appending(a)
    <3>1. a \in Callers \ {Owner} /\ pc[a] = "idle"
      BY <1>2 DEF Callers, CallersOK
    <3>. QED  BY <1>2, <3>1 DEF Apply, Opened, Appending, Push, Aged, ReadEpoch, Send, Return
  <2>4. ASSUME NEW c \in Callers PROVE ~Flushing(c)
    <3>1. pc[c] = "idle" \/ pc[c] = "down"
      BY <1>2 DEF CallersOK
    <3>. QED  BY <3>1 DEF Flushing, Take, SendBatch, SendFlush, Flushed
  <2>5. ASSUME NEW i \in Importers PROVE ~Importing(i)
    <3>1. i \in Callers \ {Owner} /\ pc[i] = "idle"
      BY <1>2 DEF Callers, CallersOK
    <3>. QED  BY <1>2, <3>1 DEF Importing, StartBatch, EndBatch, Clear, Opened
  <2>. QED  BY <1>1, <2>1, <2>2, <2>3, <2>4, <2>5 DEF Next
<1>3. CASE pc[Owner] # "down"
  <2>1. CASE Writing \/ Failing
    <3>1. pc' = pc
      BY <2>1 DEF Writing, Failing, Receive, FlushNothing, Rotate, Sweep, RemoveOld, WriteBatch,
       Answer, TrimOne, Renewed, RotateFails, WriteFails, RenewFails, callerVars
    <3>. QED  BY <1>3, <3>1
  <2>2. ASSUME NEW a \in Appenders, Apply(a) \/ Appending(a) PROVE pc'[Owner] = pc[Owner]
    BY <2>2 DEF Apply, Appending, Push, Aged, ReadEpoch, Send, Return
  <2>3. ASSUME NEW c \in Callers, Flushing(c) PROVE pc'[Owner] # "down"
    <3>1. CASE c # Owner
      <4>1. \E l : pc' = [pc EXCEPT ![c] = l]
        BY <2>3 DEF Flushing, Take, SendBatch, SendFlush, Flushed
      <4>. QED  BY <1>3, <3>1, <4>1
    <3>2. CASE c = Owner
      BY <2>3, <3>2 DEF Flushing, Take, SendBatch, SendFlush, Flushed, CallersOK, OnOk, OnError
    <3>. QED  BY <3>1, <3>2
  <2>4. ASSUME NEW i \in Importers, Importing(i) PROVE pc'[Owner] = pc[Owner]
    BY <2>4 DEF Importing, StartBatch, EndBatch, Clear, callerVars
  <2>. QED  BY <1>1, <1>3, <2>1, <2>2, <2>3, <2>4 DEF Next
<1>. QED  BY <1>2, <1>3

LEMMA FlushedGrows ==
    ASSUME IInv, Next, Healthy
    PROVE  flushed \subseteq flushed'
<1>1. CASE Opening
  BY <1>1 DEF Opening, Replay, FlushBlocks, SendRenew, diskVars, Healthy
<1>2. CASE Shutdown \/ Tick \/ Crash
  BY <1>2 DEF Shutdown, Tick, Crash, diskVars
<1>3. CASE Writing
  BY <1>3 DEF Writing, Receive, FlushNothing, Rotate, Sweep, RemoveOld, WriteBatch, Answer, TrimOne, Renewed, diskVars
<1>4. CASE Failing
  BY <1>4 DEF Failing, RotateFails, WriteFails, RenewFails, diskVars
<1>5. ASSUME NEW a \in Appenders, Apply(a) \/ Appending(a) PROVE UNCHANGED flushed
  BY <1>5 DEF Apply, Appending, Push, Aged, ReadEpoch, Send, Return, diskVars
<1>6. ASSUME NEW c \in Callers, Flushing(c) PROVE UNCHANGED flushed
  BY <1>6 DEF Flushing, Take, SendBatch, SendFlush, Flushed, diskVars
<1>7. ASSUME NEW i \in Importers, Importing(i) PROVE UNCHANGED flushed
  BY <1>7 DEF Importing, StartBatch, EndBatch, Clear, diskVars
<1>. QED  BY <1>1, <1>2, <1>3, <1>4, <1>5, <1>6, <1>7 DEF Next

LEMMA NothingLost ==
    ASSUME IInv, Healthy, Next
    PROVE  Recoverable \subseteq Recoverable'
<1>1. flushed \subseteq flushed'
  BY FlushedGrows
<1>2. CASE Crash
  BY <1>2, CrashKeeps
<1>3. CASE ~Crash
  <2>1. Logged \ Logged' \subseteq flushed
    BY <1>3, OwnerStarts, NextTrims
  <2>. QED  BY <1>1, <2>1 DEF Recoverable
<1>. QED  BY <1>2, <1>3

LEMMA CallerKinds ==
    /\ Timer \in Callers \ {Owner} /\ Timer \notin Appenders
    /\ \A a \in Appenders : a \in Callers \ {Owner} /\ a # Timer
    /\ \A c \in Callers \ {Owner} : c = Timer \/ c \in Appenders
    /\ \A i \in Importers : i \in Appenders
BY RedoLogAssumption DEF Callers

\* Batch mode depends on the callers other than the owner alone.
LEMMA SameMode ==
    ASSUME ModeOK, UNCHANGED <<importing, buffer, hand, batched>>,
           \A c \in Callers \ {Owner} : pc'[c] = pc[c] /\ why'[c] = why[c],
           pc[Owner] # "batch"
    PROVE  ModeOK'
<1>1. \A a \in Appenders : pc'[a] = pc[a]
  BY CallerKinds
<1>2. pc'[Timer] = pc[Timer] /\ why'[Timer] = why[Timer]
  BY CallerKinds
<1>3. \A c \in Callers : hand'[c] # <<>> => pc'[c] = "batch"
  BY DEF ModeOK
<1>. QED  BY <1>1, <1>2, <1>3 DEF ModeOK

LEMMA ModeWriting ==
    ASSUME IInv, ModeOK, Writing \/ Failing
    PROVE  ModeOK' /\ UNCHANGED <<batchVars, callerVars, histVars>>
<1>1. UNCHANGED <<batchVars, callerVars, histVars>>
  BY DEF Writing, Failing, Receive, FlushNothing, Rotate, Sweep, RemoveOld, WriteBatch,
       Answer, TrimOne, Renewed, RotateFails, WriteFails, RenewFails
<1>. QED  BY <1>1 DEF ModeOK, batchVars, callerVars, histVars

LEMMA ModeOwner ==
    ASSUME IInv, ModeOK, Opening \/ Shutdown \/ SendFlush(Owner) \/ Flushed(Owner)
    PROVE  ModeOK'
<1>1. UNCHANGED <<importing, buffer, hand, batched>> /\ pc[Owner] # "batch"
  BY DEF Opening, Replay, FlushBlocks, SendRenew, Shutdown, SendFlush, Flushed, batchVars, histVars,
     IInv, CallerSide, CallersOK
<1>2. \A c \in Callers \ {Owner} : pc'[c] = pc[c] /\ why'[c] = why[c]
  BY DEF Opening, Replay, FlushBlocks, SendRenew, Shutdown, SendFlush, Flushed, Goto, Because, IInv,
     CallerSide, CallerTypes, callerVars
<1>. QED  BY <1>1, <1>2, SameMode

LEMMA ModeCrash ==
    ASSUME Crash
    PROVE  ModeOK'
<1>1. /\ \A c \in Callers : hand'[c] = <<>>
      /\ \A c \in Callers \ {Owner} : pc'[c] = "idle"
      /\ importing' = {} /\ buffer' = Off /\ batched' = {}
  BY DEF Crash
<1>. QED  BY <1>1, CallerKinds DEF ModeOK

\* A caller other than the owner goes on: nothing else moves.
LEMMA OneMoves ==
    ASSUME IInv, NEW c \in Callers, NEW l, Goto(c, l)
    PROVE  pc'[c] = l /\ \A d \in Callers : d # c => pc'[d] = pc[d]
BY DEF IInv, CallerSide, CallerTypes, Goto

LEMMA OneBecause ==
    ASSUME IInv, NEW c \in Callers, NEW w, Because(c, w)
    PROVE  why'[c] = w /\ \A d \in Callers : d # c => why'[d] = why[d]
BY DEF IInv, CallerSide, CallerTypes, Because

\* An appender is the only one.
LEMMA OnlyOne ==
    ASSUME Solo, NEW a \in Appenders
    PROVE  Appenders = {a}
BY DEF Solo

LEMMA ModeAppender ==
    ASSUME IInv, ModeOK, Solo, NEW a \in Appenders,
           Apply(a) \/ Aged(a) \/ ReadEpoch(a) \/ Send(a) \/ Return(a)
    PROVE  ModeOK'
<1>. USE CallerKinds
<1>1. UNCHANGED <<importing, buffer, hand, batched>>
  BY DEF Apply, Aged, ReadEpoch, Send, Return, batchVars, histVars
<1>2. pc[a] # "batch" /\ a \in Callers /\ Appenders = {a}
  BY OnlyOne DEF Apply, Aged, ReadEpoch, Send, Return
<1>3. \E l : /\ Goto(a, l)
             /\ buffer = Off => l \in {"append", "send", "wait", "idle"}
             /\ buffer # Off => l \in {"append", "take", "idle"}
  <2>1. CASE Apply(a)
    BY <2>1 DEF Apply
  <2>2. CASE Aged(a)
    BY <2>2 DEF Aged
  <2>3. CASE ReadEpoch(a)
    BY <2>3 DEF ReadEpoch
  <2>4. CASE Send(a)
    BY <2>4 DEF Send, ModeOK
  <2>5. CASE Return(a)
    BY <2>5 DEF Return
  <2>. QED  BY <2>1, <2>2, <2>3, <2>4, <2>5
<1>4. PICK l : /\ Goto(a, l)
               /\ buffer = Off => l \in {"append", "send", "wait", "idle"}
               /\ buffer # Off => l \in {"append", "take", "idle"}
  BY <1>3
<1>5. pc'[a] = l /\ \A d \in Callers : d # a => pc'[d] = pc[d]
  BY <1>2, <1>4, OneMoves
<1>6. why'[Timer] = why[Timer]
  <2>1. CASE Aged(a)
    BY <1>2, <2>1, OneBecause DEF Aged
  <2>2. CASE ~Aged(a)
    BY <2>2 DEF Apply, ReadEpoch, Send, Return
  <2>. QED  BY <2>1, <2>2
<1>7. pc'[Timer] = pc[Timer]
  BY <1>5
<1>8. \A c \in Callers : hand'[c] # <<>> => pc'[c] = "batch"
  BY <1>1, <1>2, <1>5 DEF ModeOK
<1>. QED  BY <1>1, <1>2, <1>4, <1>5, <1>6, <1>7, <1>8 DEF ModeOK

LEMMA ModePush ==
    ASSUME IInv, ModeOK, Solo, NEW a \in Appenders, Push(a)
    PROVE  ModeOK' /\ buffer # Off
<1>. USE CallerKinds
<1>1. buffer # Off /\ a \in Callers /\ Appenders = {a} /\ pc[a] # "batch"
  BY OnlyOne DEF Push, ModeOK
<1>2. pc'[a] = "idle" /\ \A d \in Callers : d # a => pc'[d] = pc[d]
  BY <1>1, OneMoves DEF Push
<1>3. buffer' # Off
  <2>1. buffer \in Seq(Ops) /\ Op(a) \in Ops
    BY <1>1, WorkingOp DEF IInv, CallerSide, CallerTypes, Push, Working
  <2>2. Append(buffer, Op(a)) \in Seq(Ops)
    BY <2>1
  <2>. QED  BY <1>1, <2>2, RedoLogAssumption DEF Push
<1>4. UNCHANGED <<importing, hand, why>>
  BY DEF Push
<1>. QED  BY <1>1, <1>2, <1>3, <1>4 DEF ModeOK

LEMMA ModeImport ==
    ASSUME IInv, ModeOK, Solo, NEW i \in Importers, StartBatch(i) \/ EndBatch(i)
    PROVE  ModeOK'
<1>. USE CallerKinds
<1>1. i \in Callers /\ Appenders = {i}
  BY OnlyOne
<1>2. CASE StartBatch(i)
  <2>1. buffer' # Off
    <3>1. <<>> \in Seq(Ops)
      OBVIOUS
    <3>. QED  BY <1>2, <3>1, RedoLogAssumption DEF StartBatch
  <2>2. importing' # {} /\ UNCHANGED <<hand, pc, why>> /\ pc[i] = "idle"
    BY <1>2 DEF StartBatch, callerVars
  <2>. QED  BY <1>1, <2>1, <2>2 DEF ModeOK
<1>3. CASE EndBatch(i)
  <2>1. buffer # Off /\ UNCHANGED <<importing, buffer, hand, batched>> /\ pc[i] = "idle"
    BY <1>3 DEF EndBatch, ModeOK, batchVars, histVars
  <2>2. pc'[i] = "take" /\ \A d \in Callers : d # i => pc'[d] = pc[d]
    BY <1>1, <1>3, OneMoves DEF EndBatch
  <2>3. \A d \in Callers : d # i => why'[d] = why[d]
    BY <1>1, <1>3, OneBecause DEF EndBatch
  <2>4. \A c \in Callers : hand'[c] # <<>> => pc'[c] = "batch"
    BY <2>1, <2>2 DEF ModeOK
  <2>. QED  BY <1>1, <2>1, <2>2, <2>3, <2>4 DEF ModeOK
<1>. QED  BY <1>2, <1>3

LEMMA ModeClear ==
    ASSUME IInv, ModeOK, Solo, NEW i \in Importers, Clear(i)
    PROVE  ModeOK'
<1>. USE CallerKinds
<1>1. i \in Callers /\ Appenders = {i}
  BY OnlyOne
<1>2. /\ buffer' = Off /\ importing' = {}
      /\ pc[Timer] = "idle" /\ UNCHANGED hand
  BY <1>1, RedoLogAssumption DEF Clear, IInv, CallerSide, CallerTypes
<1>3. batched' = {}
  <2>1. batched \subseteq Ops /\ \A o \in Ops : o[1] = i
    BY <1>1 DEF IInv, CallerSide, CallerTypes, Ops
  <2>. QED  BY <2>1 DEF Clear
<1>4. pc[i] = "clear" /\ pc'[i] = "idle" /\ \A d \in Callers : d # i => pc'[d] = pc[d]
  BY <1>1, OneMoves DEF Clear
<1>5. \A c \in Callers : hand'[c] # <<>> => pc'[c] = "batch"
  BY <1>2, <1>4 DEF ModeOK
<1>. QED  BY <1>1, <1>2, <1>3, <1>4, <1>5 DEF ModeOK

LEMMA ModeTick ==
    ASSUME IInv, ModeOK, Tick
    PROVE  ModeOK'
<1>. USE CallerKinds
<1>1. buffer # Off /\ UNCHANGED <<importing, buffer, hand, batched>> /\ pc[Timer] = "idle"
  BY DEF Tick, batchVars, histVars
<1>2. pc'[Timer] = "take" /\ \A d \in Callers : d # Timer => pc'[d] = pc[d]
  BY OneMoves DEF Tick
<1>3. why'[Timer] = "timer"
  BY OneBecause DEF Tick
<1>4. \A c \in Callers : hand'[c] # <<>> => pc'[c] = "batch"
  BY <1>1, <1>2 DEF ModeOK
<1>. QED  BY <1>1, <1>2, <1>3, <1>4 DEF ModeOK

LEMMA ModeFlushing ==
    ASSUME IInv, ModeOK, Solo, NEW c \in Callers \ {Owner}, Flushing(c)
    PROVE  ModeOK' /\ buffer # Off
<1>. USE CallerKinds
<1>1. buffer # Off /\ pc[c] \in {"take", "batch", "flush", "done"}
  <2>1. pc[c] \in {"take", "batch", "flush", "done"}
    BY DEF Flushing, Take, SendBatch, SendFlush, Flushed
  <2>2. c = Timer \/ c \in Appenders
    OBVIOUS
  <2>. QED  BY <2>1, <2>2 DEF ModeOK
<1>2. c = Timer => why[c] = "timer"
  BY <1>1 DEF ModeOK
<1>3. why[c] \in {"age", "end", "timer"}
  BY <1>1 DEF IInv, CallerSide, CallersOK
<1>4. \E l : /\ Goto(c, l) /\ l \in {"push", "clear", "idle", "batch", "flush", "done"}
             /\ c = Timer => l \in {"idle", "batch", "flush", "done"}
             /\ hand'[c] # <<>> => l = "batch"
             /\ l = "batch" \/ UNCHANGED buffer
  <2>1. CASE Take(c)
    <3>1. CASE buffer \in {Off, <<>>}
      <4>1. hand'[c] = <<>>
        BY <2>1, <3>1 DEF Take, ModeOK
      <4>. QED  BY <1>2, <1>3, <2>1, <3>1, <4>1 DEF Take, OnOk
    <3>2. CASE buffer \notin {Off, <<>>}
      BY <2>1, <3>2 DEF Take
    <3>. QED  BY <3>1, <3>2
  <2>2. CASE SendBatch(c)
    BY <2>2 DEF SendBatch, IInv, CallerSide, CallerTypes
  <2>3. CASE SendFlush(c)
    BY <2>3 DEF SendFlush, ModeOK, batchVars
  <2>4. CASE Flushed(c)
    BY <1>2, <1>3, <2>4 DEF Flushed, ModeOK, batchVars, OnOk, OnError
  <2>. QED  BY <2>1, <2>2, <2>3, <2>4 DEF Flushing
<1>5. PICK l : /\ Goto(c, l) /\ l \in {"push", "clear", "idle", "batch", "flush", "done"}
               /\ c = Timer => l \in {"idle", "batch", "flush", "done"}
               /\ hand'[c] # <<>> => l = "batch"
               /\ l = "batch" \/ UNCHANGED buffer
  BY <1>4
<1>6. pc'[c] = l /\ \A d \in Callers : d # c => pc'[d] = pc[d]
  BY <1>5, OneMoves
<1>7. UNCHANGED <<importing, batched>> /\ \A d \in Callers : d # c => hand'[d] = hand[d]
  BY DEF Flushing, Take, SendBatch, SendFlush, Flushed, batchVars, histVars, IInv, CallerSide, CallerTypes
<1>8. why'[Timer] = why[Timer]
  <2>1. CASE Flushed(c)
    <3>1. Because(c, IF error /\ why[c] = "end" THEN "failed" ELSE why[c])
      BY <2>1 DEF Flushed
    <3>. QED  BY <1>2, <3>1, OneBecause
  <2>2. CASE ~Flushed(c)
    BY <2>2 DEF Flushing, Take, SendBatch, SendFlush
  <2>. QED  BY <2>1, <2>2
<1>9. buffer' # Off
  <2>1. <<>> \in Seq(Ops)
    OBVIOUS
  <2>2. buffer' = buffer \/ buffer' = <<>>
    BY DEF Flushing, Take, SendBatch, SendFlush, Flushed, batchVars
  <2>. QED  BY <1>1, <2>1, <2>2, RedoLogAssumption
<1>10. \A d \in Callers : hand'[d] # <<>> => pc'[d] = "batch"
  BY <1>5, <1>6, <1>7 DEF ModeOK
<1>11. pc'[Timer] \in {"idle", "take", "batch", "flush", "done"} /\ (pc'[Timer] # "idle" => why'[Timer] = "timer")
  <2>1. CASE c = Timer
    BY <1>2, <1>5, <1>6, <1>8, <2>1
  <2>2. CASE c # Timer
    BY <1>6, <1>8, <2>2 DEF ModeOK
  <2>. QED  BY <2>1, <2>2
<1>12. \A a \in Appenders : pc'[a] \notin {"send", "wait"}
  BY <1>1, <1>5, <1>6 DEF ModeOK
<1>. QED  BY <1>1, <1>7, <1>9, <1>10, <1>11, <1>12 DEF ModeOK

LEMMA NextMode ==
    ASSUME IInv, ModeOK, Solo, Next
    PROVE  ModeOK'
<1>1. ASSUME NEW c \in Callers, Flushing(c) PROVE ModeOK'
  <2>1. CASE c = Owner
    <3>1. ~Take(Owner) /\ ~SendBatch(Owner)
      BY OwnerApart DEF Take, SendBatch, IInv, CallerSide, CallersOK
    <3>. QED  BY <1>1, <2>1, <3>1, ModeOwner DEF Flushing
  <2>2. CASE c # Owner
    BY <1>1, <2>2, ModeFlushing
  <2>. QED  BY <2>1, <2>2
<1>2. ASSUME NEW a \in Appenders, Apply(a) \/ Appending(a) PROVE ModeOK'
  BY <1>2, ModeAppender, ModePush DEF Appending
<1>3. ASSUME NEW i \in Importers, Importing(i) PROVE ModeOK'
  BY <1>3, ModeImport, ModeClear DEF Importing
<1>. QED  BY <1>1, <1>2, <1>3, ModeOwner, ModeTick, ModeWriting, ModeCrash DEF Next

\* The records of a sequence of files.
HeldIn(fs) == UNION {Range(fs[k]) : k \in DOMAIN fs}

LEMMA HeldRecords ==
    ASSUME NEW fs \in Seq(Seq(Records))
    PROVE  /\ \A k \in 1..Len(fs) : Range(fs[k]) \subseteq HeldIn(fs)
           /\ \A r \in HeldIn(fs) : \E k \in 1..Len(fs) : r \in Range(fs[k])
           /\ Torn \notin HeldIn(fs) => ReadOf(fs) = HeldIn(fs)
<1>1. DOMAIN fs = 1..Len(fs) /\ \A k \in 1..Len(fs) : fs[k] \in Seq(Records)
  OBVIOUS
<1>. DEFINE held(k) == Range(fs[k])
<1>2. HeldIn(fs) = UNION {held(k) : k \in 1..Len(fs)}
  BY <1>1 DEF HeldIn
<1>3. /\ \A k \in 1..Len(fs) : held(k) \subseteq HeldIn(fs)
      /\ \A r \in HeldIn(fs) : \E k \in 1..Len(fs) : r \in held(k)
  <2>. HIDE DEF held
  <2>. QED  BY <1>2
<1>4. ASSUME Torn \notin HeldIn(fs), NEW k \in 1..Len(fs) PROVE Readable(fs[k]) = fs[k]
  <2>1. \A i \in 1..Len(fs[k]) : fs[k][i] # Torn
    BY <1>1, <1>3, <1>4, InRange
  <2>. QED  BY <1>1, <2>1, ReadableRecords
<1>5. Torn \notin HeldIn(fs) => ReadOf(fs) = HeldIn(fs)
  BY <1>1, <1>4 DEF ReadOf, HeldIn
<1>. QED  BY <1>3, <1>5

\* Creating, deleting and writing a file adds what is written at most; what is
\* written is read when nothing is torn.
LEMMA UntornAdded ==
    ASSUME IInv, Torn \notin InFiles, files' = Append(files, <<>>)
    PROVE  Torn \notin InFiles'
<1>1. files \in Seq(Seq(Records)) /\ files' \in Seq(Seq(Records))
  BY AddedFile DEF IInv, LogSide, LogTypes
<1>2. \A k \in 1..Len(files') : files'[k] = <<>> \/ (k \in 1..Len(files) /\ files'[k] = files[k])
  BY <1>1
<1>3. InFiles = HeldIn(files) /\ InFiles' = HeldIn(files')
  BY DEF InFiles, HeldIn
<1>. QED  BY <1>1, <1>2, <1>3, HeldRecords, EmptyRange

LEMMA UntornDropped ==
    ASSUME IInv, Torn \notin InFiles, NEW i \in 1..Len(files), files' = RemoveAt(files, i)
    PROVE  Torn \notin InFiles'
<1>1. files \in Seq(Seq(Records))
  BY DEF IInv, LogSide, LogTypes
<1>2. /\ files' \in Seq(Seq(Records)) /\ Len(files') = Len(files) - 1
      /\ \A k \in 1..(Len(files) - 1) : files'[k] = IF k < i THEN files[k] ELSE files[k + 1]
  BY <1>1, Removed
<1>3. ASSUME NEW k \in 1..Len(files') PROVE \E l \in 1..Len(files) : files'[k] = files[l]
  <2>1. k \in 1..Len(files) /\ k + 1 \in 1..Len(files) /\ k \in 1..(Len(files) - 1)
    BY <1>1, <1>2
  <2>. QED  BY <1>2, <2>1
<1>4. InFiles = HeldIn(files) /\ InFiles' = HeldIn(files')
  BY DEF InFiles, HeldIn
<1>. QED  BY <1>1, <1>2, <1>3, <1>4, HeldRecords

LEMMA UntornWritten ==
    ASSUME IInv, Torn \notin InFiles, WriteBatch
    PROVE  Torn \notin InFiles' /\ Range(batch) \subseteq Logged'
<1>1. /\ files \in Seq(Seq(Records)) /\ cur \in 1..Len(files) /\ batch \in Seq(Records)
      /\ files' = [files EXCEPT ![cur] = @ \o batch] /\ Torn \notin Range(batch)
  <2>1. Torn \notin Range(batch)
    BY RedoLogAssumption, StandingIs
  <2>. QED  BY <2>1 DEF WriteBatch, IInv, LogSide, LogTypes, WriterOK, Records
<1>2. files[cur] \in Seq(Records) /\ files[cur] \o batch \in Seq(Records)
  BY <1>1
<1>3. /\ files' \in Seq(Seq(Records)) /\ Len(files') = Len(files)
      /\ files'[cur] = files[cur] \o batch
      /\ \A k \in 1..Len(files) : k # cur => files'[k] = files[k]
  BY <1>1, <1>2
<1>4. Range(files'[cur]) = Range(files[cur]) \cup Range(batch)
  BY <1>1, <1>2, <1>3, RangeConcat
<1>5. InFiles = HeldIn(files) /\ InFiles' = HeldIn(files')
  BY DEF InFiles, HeldIn
<1>6. Torn \notin HeldIn(files')
  <2>1. ASSUME NEW k \in 1..Len(files') PROVE Torn \notin Range(files'[k])
    <3>1. Torn \notin Range(files[k])
      BY <1>1, <1>3, <1>5, HeldRecords
    <3>. QED  BY <1>1, <1>3, <1>4, <3>1
  <2>. QED  BY <1>3, <2>1, HeldRecords
<1>7. Range(batch) \subseteq HeldIn(files')
  BY <1>1, <1>3, <1>4, HeldRecords
<1>. QED  BY <1>3, <1>5, <1>6, <1>7, HeldRecords, LoggedIsRead

\* Before and after the graph is open only its owner and the writer move.
LEMMA ClosedSteps ==
    ASSUME IInv, Next, ~Opened
    PROVE  Opening \/ Shutdown \/ Writing \/ Failing \/ Crash \/ SendFlush(Owner) \/ Flushed(Owner)
<1>. USE RedoLogAssumption, OwnerApart, CallerKinds DEF IInv, CallerSide, CallersOK, Opened
<1>1. ~Tick
  BY DEF Tick
<1>2. ASSUME NEW a \in Appenders PROVE ~Apply(a) /\ ~Appending(a)
  <2>1. pc[a] = "idle"
    OBVIOUS
  <2>. QED  BY <2>1 DEF Apply, Appending, Push, Aged, ReadEpoch, Send, Return
<1>3. ASSUME NEW c \in Callers, Flushing(c) PROVE SendFlush(Owner) \/ Flushed(Owner)
  <2>1. CASE c = Owner
    BY <1>3, <2>1 DEF Flushing, Take, SendBatch
  <2>2. CASE c # Owner
    <3>1. pc[c] = "idle"
      BY <2>2
    <3>. QED  BY <1>3, <3>1 DEF Flushing, Take, SendBatch, SendFlush, Flushed
  <2>. QED  BY <2>1, <2>2
<1>4. ASSUME NEW i \in Importers PROVE ~Importing(i)
  <2>1. pc[i] = "idle"
    OBVIOUS
  <2>. QED  BY <2>1 DEF Importing, StartBatch, EndBatch, Clear
<1>. QED  BY <1>1, <1>2, <1>3, <1>4 DEF Next

LEMMA NextReplayed ==
    ASSUME IInv, Healthy, Next, pc'[Owner] = "replayed"
    PROVE  flushed' \subseteq live'
<1>. USE OwnerApart, RedoLogAssumption
<1>1. CASE Replay
  BY <1>1 DEF Replay, Recoverable
<1>2. CASE pc[Owner] = "replayed"
  <2>1. ~Writing /\ ~Failing
    BY <1>2 DEF IInv, OpeningOK, LogSide, Writing, Failing, Receive, FlushNothing, Rotate, Sweep, RemoveOld, WriteBatch,
       Answer, TrimOne, Renewed, RotateFails, WriteFails, RenewFails
  <2>2. ~Opened
    BY <1>2 DEF Opened
  <2>3. FALSE
    BY <1>2, <2>1, <2>2, ClosedSteps DEF Opening, Replay, FlushBlocks, SendRenew, Shutdown, SendFlush, Flushed, Crash,
       Goto, IInv, CallerSide, CallerTypes
  <2>. QED  BY <2>3
<1>3. CASE ~Replay /\ pc[Owner] # "replayed"
  <2>1. CASE ~Opened
    <3>1. CASE Writing \/ Failing
      <4>1. UNCHANGED pc
        BY <3>1 DEF Writing, Failing, Receive, FlushNothing, Rotate, Sweep, RemoveOld, WriteBatch,
           Answer, TrimOne, Renewed, RotateFails, WriteFails, RenewFails, callerVars
      <4>. QED  BY <1>3, <4>1
    <3>2. CASE ~Writing /\ ~Failing
      <4>1. CASE Flushed(Owner)
        <5>1. why[Owner] \in {"sync", "renew"}
          BY <4>1 DEF Flushed, IInv, CallerSide, CallersOK
        <5>2. \E l \in {"trim", "idle", "shut"} : Goto(Owner, l)
          BY <4>1, <5>1 DEF Flushed, OnOk, OnError
        <5>. QED  BY <1>3, <5>2, OneMoves
      <4>2. CASE FlushBlocks \/ SendRenew \/ Shutdown \/ SendFlush(Owner) \/ Crash
        <5>1. CASE Crash
          BY <1>3, <5>1 DEF Crash
        <5>2. CASE ~Crash
          <6>1. \E l \in {"flush", "done", "stopped"} : Goto(Owner, l)
            BY <4>2, <5>2 DEF FlushBlocks, SendRenew, Shutdown, SendFlush
          <6>. QED  BY <1>3, <6>1, OneMoves
        <5>. QED  BY <5>1, <5>2
      <4>. QED  BY <1>3, <2>1, <3>2, <4>1, <4>2, ClosedSteps DEF Opening
    <3>. QED  BY <3>1, <3>2
  <2>2. CASE Opened /\ ~Crash
    <3>1. pc[Owner] = "idle"
      BY <2>2 DEF Opened
    <3>2. CASE Writing \/ Failing
      <4>1. UNCHANGED pc
        BY <3>2 DEF Writing, Failing, Receive, FlushNothing, Rotate, Sweep, RemoveOld, WriteBatch,
           Answer, TrimOne, Renewed, RotateFails, WriteFails, RenewFails, callerVars
      <4>. QED  BY <1>3, <4>1
    <3>3. ~Opening
      BY <3>1 DEF Opening, Replay, FlushBlocks, SendRenew
    <3>4. CASE Shutdown \/ Tick
      BY <3>1, <3>4 DEF Shutdown, Tick, Goto, IInv, CallerSide, CallerTypes
    <3>5. ASSUME NEW a \in Appenders, Apply(a) \/ Appending(a) PROVE pc'[Owner] = pc[Owner]
      BY <3>5 DEF Apply, Appending, Push, Aged, ReadEpoch, Send, Return, Goto, IInv, CallerSide, CallerTypes
    <3>6. ASSUME NEW c \in Callers, Flushing(c) PROVE pc'[Owner] = pc[Owner]
      <4>1. c # Owner
        BY <3>1, <3>6 DEF Flushing, Take, SendBatch, SendFlush, Flushed
      <4>2. \E l : Goto(c, l)
        BY <3>6 DEF Flushing, Take, SendBatch, SendFlush, Flushed
      <4>. QED  BY <4>1, <4>2, OneMoves
    <3>7. ASSUME NEW i \in Importers, Importing(i) PROVE pc'[Owner] = pc[Owner]
      BY <3>7 DEF Importing, StartBatch, EndBatch, Clear, callerVars, Goto, IInv, CallerSide, CallerTypes
    <3>. QED  BY <1>3, <2>2, <3>1, <3>2, <3>3, <3>4, <3>5, <3>6, <3>7 DEF Next
  <2>3. CASE Crash
    BY <2>3 DEF Crash
  <2>. QED  BY <2>1, <2>2, <2>3
<1>. QED  BY <1>1, <1>2, <1>3

\* What the writer does while the graph is open.
LEMMA OpenWriting ==
    ASSUME IInv, Solo, Opened, Writing \/ Failing
    PROVE  Receive \/ FlushNothing \/ Rotate \/ Sweep \/ RemoveOld \/ WriteBatch \/ Answer
<1>1. step # "trim"
  BY DEF Opened, IInv, LogSide, OpeningOK
<1>. QED  BY <1>1 DEF Writing, Failing, TrimOne, Renewed, RenewFails, RotateFails, WriteFails, Solo

LEMMA UntornWriting ==
    ASSUME IInv, Solo, Opened, Healthy, Writing \/ Failing
    PROVE  Torn \notin InFiles' /\ error' = FALSE
<1>1. Torn \notin InFiles /\ error = FALSE
  BY DEF Healthy
<1>2. CASE Receive \/ FlushNothing \/ Sweep \/ Answer
  BY <1>1, <1>2 DEF Receive, FlushNothing, Sweep, Answer, Advance, InFiles, diskVars, sharedVars
<1>3. CASE Rotate
  BY <1>1, <1>3, UntornAdded DEF Rotate, sharedVars
<1>4. CASE RemoveOld
  <2>1. cur \in 1..Len(files) /\ files' = RemoveAt(files, cur) /\ error' = error
    BY <1>4 DEF RemoveOld, IInv, LogSide, LogTypes, WriterOK, sharedVars
  <2>. QED  BY <1>1, <2>1, UntornDropped
<1>5. CASE WriteBatch
  BY <1>1, <1>5, UntornWritten DEF WriteBatch, Advance
<1>. QED  BY <1>2, <1>3, <1>4, <1>5, OpenWriting

\* The done flags the writer sets.
LEMMA AnsweredWriting ==
    ASSUME IInv, Solo, Healthy, LogServes, Writing \/ Failing
    PROVE  /\ pc[Owner] \notin {"idle", "stopped"} => answered' \subseteq {Owner}
           /\ Opened => \A c \in answered' : pc[c] = "done"
<1>1. CASE UNCHANGED answered
  BY <1>1 DEF Healthy
<1>2. CASE Renewed \/ RenewFails
  <2>1. pc[Owner] \notin {"idle", "stopped"} /\ step = "trim" /\ answered' = answered \cup {task.from}
    BY <1>2 DEF Renewed, RenewFails, IInv, LogSide, OpeningOK
  <2>2. task = Asked
    BY <2>1 DEF IInv, LogSide, CallerSide, CallersOK, OpeningOK
  <2>3. task.from = Owner
    BY <2>2 DEF Asked, Message
  <2>. QED  BY <2>1, <2>3 DEF Healthy, Opened
<1>3. CASE Answer /\ answered' # answered
  <2>1. step = "answer" /\ task.kind = "flush" /\ answered' = answered \cup {task.from}
    BY <1>3 DEF Answer
  <2>2. ASSUME pc[Owner] \notin {"idle", "stopped"} PROVE answered' \subseteq {Owner}
    <3>1. task = Asked
      BY <2>1, <2>2 DEF IInv, LogSide, CallerSide, CallersOK, OpeningOK
    <3>2. task.from = Owner
      BY <3>1 DEF Asked, Message
    <3>. QED  BY <2>1, <2>2, <3>2 DEF Healthy
  <2>3. ASSUME Opened PROVE \A c \in answered' : pc[c] = "done"
    <3>1. buffer # Off
      BY <2>1, <2>3 DEF LogServes, Direct, Quiet, OneEntry
    <3>2. PICK c \in Callers : task = FlushOf(c) /\ Awaited(c)
      BY <2>1, <2>3, <3>1 DEF LogServes, Taken
    <3>3. task.from = c
      BY <3>2 DEF FlushOf, Message
    <3>. QED  BY <2>1, <2>3, <3>2, <3>3 DEF Healthy, Awaited
  <2>. QED  BY <2>2, <2>3
<1>. QED
  BY <1>1, <1>2, <1>3 DEF Writing, Failing, Receive, FlushNothing, Rotate, Sweep, RemoveOld, WriteBatch,
     TrimOne, RotateFails, WriteFails, Advance, sharedVars, writerVars

LEMMA HealthyWriting ==
    ASSUME IInv, Solo, Healthy, LogServes, Next, Writing \/ Failing
    PROVE  Healthy'
<1>1. UNCHANGED pc
  BY DEF Writing, Failing, Receive, FlushNothing, Rotate, Sweep, RemoveOld, WriteBatch,
           Answer, TrimOne, Renewed, RotateFails, WriteFails, RenewFails, callerVars
<1>2. Opened' => Opened
  BY <1>1 DEF Opened
<1>. QED  BY <1>1, <1>2, NextReplayed, UntornWriting, AnsweredWriting DEF Healthy

\* The owner opens the graph, or ends with it.
LEMMA HealthyClosed ==
    ASSUME IInv, Solo, Healthy, Next, Opening \/ Shutdown \/ SendFlush(Owner) \/ Flushed(Owner)
    PROVE  Healthy'
<1>0. pc'[Owner] = "replayed" => flushed' \subseteq live'
  BY NextReplayed
<1>1. CASE Opening \/ Shutdown \/ SendFlush(Owner)
  <2>1. pc[Owner] \notin {"idle", "stopped"} \/ pc'[Owner] = "stopped"
    BY <1>1, OwnerApart DEF Opening, Replay, FlushBlocks, SendRenew, Shutdown, SendFlush, Goto, IInv, CallerSide, CallerTypes
  <2>2. answered' = answered /\ pc'[Owner] # "idle"
    BY <1>1, OwnerApart DEF Opening, Replay, FlushBlocks, SendRenew, Shutdown, SendFlush, Goto, sharedVars,
       IInv, CallerSide, CallerTypes
  <2>. QED  BY <1>0, <2>1, <2>2 DEF Healthy, Opened
<1>2. CASE Flushed(Owner)
  <2>1. pc[Owner] = "done" /\ Owner \in answered /\ answered' = {} /\ error' = error /\ files' = files
    BY <1>2 DEF Flushed, Healthy, diskVars
  <2>2. ASSUME Opened' PROVE Torn \notin InFiles' /\ error = FALSE
    <3>1. pc'[Owner] = IF error THEN OnError[why[Owner]] ELSE OnOk[why[Owner]]
      BY <1>2, OwnerApart, OneMoves DEF Flushed
    <3>2. why[Owner] = "renew" /\ ~error
      BY <2>1, <2>2, <3>1, OwnerApart DEF Opened, OnOk, OnError, IInv, CallerSide, CallersOK
    <3>3. files = <<(<<>>)>>
      BY <2>1, <3>2, OwnerApart DEF IInv, LogSide, OpeningOK, CallerSide, CallersOK
    <3>4. DOMAIN files' = {1} /\ files'[1] = <<>>
      BY <2>1, <3>3
    <3>5. InFiles' = {}
      BY <3>4, EmptyRange DEF InFiles
    <3>. QED  BY <3>2, <3>5 DEF IInv, LogSide, LogTypes
  <2>. QED  BY <1>0, <2>1, <2>2 DEF Healthy
<1>. QED  BY <1>1, <1>2

LEMMA HealthyCrash ==
    ASSUME Crash
    PROVE  Healthy'
BY OwnerApart DEF Crash, Healthy, Opened

\* Another caller goes on, while the graph is open.
LEMMA HealthyCallers ==
    ASSUME IInv, Healthy, Opened, UNCHANGED <<files, error>>, answered' \subseteq answered, pc'[Owner] = "idle",
           \A c \in answered' : pc'[c] = pc[c]
    PROVE  Healthy'
<1>1. InFiles' = InFiles
  BY DEF InFiles
<1>. QED  BY <1>1 DEF Healthy, Opened

LEMMA NextHealthy ==
    ASSUME IInv, Solo, Healthy, LogServes, Next
    PROVE  Healthy'
<1>1. CASE ~Opened
  BY <1>1, ClosedSteps, HealthyWriting, HealthyClosed, HealthyCrash
<1>2. CASE Opened
  <2>. USE <1>2, CallerKinds, OwnerApart
  <2>0. pc[Owner] = "idle" /\ \A c \in answered : c \in Callers /\ pc[c] = "done"
    BY DEF Opened, Healthy, IInv, LogSide, LogTypes
  <2>1. ~Opening /\ ~SendFlush(Owner) /\ ~Flushed(Owner)
    BY <2>0 DEF Opening, Replay, FlushBlocks, SendRenew, SendFlush, Flushed
  <2>2. CASE Tick
    <3>1. pc[Timer] = "idle" /\ pc'[Owner] = "idle" /\ \A c \in Callers : c # Timer => pc'[c] = pc[c]
      BY <2>0, <2>2, OneMoves DEF Tick
    <3>2. UNCHANGED <<files, error, answered>>
      BY <2>2 DEF Tick, diskVars, sharedVars
    <3>. QED  BY <2>0, <3>1, <3>2, HealthyCallers
  <2>3. ASSUME NEW a \in Appenders, Apply(a) \/ Appending(a) PROVE Healthy'
    <3>1. pc[a] # "done" /\ \E l : Goto(a, l)
      BY <2>3 DEF Apply, Appending, Push, Aged, ReadEpoch, Send, Return
    <3>2. pc'[Owner] = "idle" /\ \A c \in Callers : c # a => pc'[c] = pc[c]
      BY <2>0, <3>1, OneMoves
    <3>3. UNCHANGED <<files, error, answered>>
      BY <2>3 DEF Apply, Appending, Push, Aged, ReadEpoch, Send, Return, diskVars, sharedVars
    <3>. QED  BY <2>0, <3>1, <3>2, <3>3, HealthyCallers
  <2>4. ASSUME NEW c \in Callers, Flushing(c) PROVE Healthy'
    <3>1. c # Owner /\ \E l : Goto(c, l)
      BY <2>0, <2>4 DEF Flushing, Take, SendBatch, SendFlush, Flushed
    <3>2. pc'[Owner] = "idle" /\ \A d \in Callers : d # c => pc'[d] = pc[d]
      BY <2>0, <3>1, OneMoves
    <3>3. UNCHANGED <<files, error>> /\ answered' \subseteq answered /\ c \notin answered'
      BY <2>0, <2>4 DEF Flushing, Take, SendBatch, SendFlush, Flushed, diskVars, sharedVars
    <3>. QED  BY <2>0, <3>2, <3>3, HealthyCallers
  <2>5. ASSUME NEW i \in Importers, Importing(i) PROVE Healthy'
    <3>1. pc[i] # "done" /\ (pc' = pc \/ \E l : Goto(i, l))
      BY <2>5 DEF Importing, StartBatch, EndBatch, Clear, callerVars
    <3>2. pc'[Owner] = "idle" /\ \A c \in Callers : c # i => pc'[c] = pc[c]
      BY <2>0, <3>1, OneMoves
    <3>3. UNCHANGED <<files, error, answered>>
      BY <2>5 DEF Importing, StartBatch, EndBatch, Clear, diskVars, sharedVars
    <3>. QED  BY <2>0, <3>1, <3>2, <3>3, HealthyCallers
  <2>. QED  BY <2>1, <2>2, <2>3, <2>4, <2>5, HealthyWriting, HealthyClosed, HealthyCrash DEF Next
<1>. QED  BY <1>1, <1>2

LEMMA MessagesAre ==
    /\ \A c \in Callers : /\ FlushOf(c) \in Messages /\ FlushOf(c).kind = "flush"
                          /\ FlushOf(c).entries = <<>> /\ FlushOf(c).from = c
    /\ \A a \in Appenders : EntryOf(a).kind = "entry" /\ EntryOf(a).entries = <<Op(a)>>
BY DEF FlushOf, EntryOf, Message, Messages

\* Without batch mode.
LEMMA DirectWriting ==
    ASSUME IInv, Solo, Healthy, Opened, Direct, Writing \/ Failing
    PROVE  Direct'
<1>1. UNCHANGED <<pc, issued>>
  BY DEF Writing, Failing, Receive, FlushNothing, Rotate, Sweep, RemoveOld, WriteBatch,
     Answer, TrimOne, Renewed, RotateFails, WriteFails, RenewFails, callerVars
<1>2. \A a \in Appenders : Op(a)' = Op(a) /\ EntryOf(a)' = EntryOf(a)
  BY <1>1 DEF Op, EntryOf, Message
<1>3. ~Quiet
  BY OpenWriting DEF Quiet, Receive, FlushNothing, Rotate, Sweep, RemoveOld, WriteBatch, Answer
<1>4. PICK a \in Appenders : pc[a] = "wait" /\ Appenders = {a}
  BY <1>3, OnlyOne DEF Direct
<1>5. OneEntry(a)
  BY <1>4 DEF Direct
<1>6. OneEntry(a)'
  <2>1. CASE queue = <<EntryOf(a)>> /\ step = "recv" /\ batch = <<>> /\ a \in observed
    <3>1. Receive
      BY <2>1, OpenWriting DEF FlushNothing, Rotate, Sweep, RemoveOld, WriteBatch, Answer
    <3>2. queue' = <<>> /\ task' = EntryOf(a) /\ observed' = observed
      BY <2>1, <3>1 DEF Receive, sharedVars
    <3>3. batch' = <<>> \o <<Op(a)>> /\ step' = "flush"
      BY <2>1, <3>1, <3>2, MessagesAre DEF Receive
    <3>4. batch' = <<Op(a)>>
      BY <3>3
    <3>. QED  BY <1>2, <2>1, <3>2, <3>3, <3>4 DEF OneEntry
  <2>2. CASE /\ queue = <<>> /\ step \in {"flush", "sweep", "remove"} /\ batch = <<Op(a)>>
             /\ task = EntryOf(a) /\ a \in observed
    <3>1. Rotate \/ Sweep \/ RemoveOld \/ WriteBatch
      <4>1. batch # <<>>
        BY <2>2
      <4>. QED  BY <2>2, <4>1, OpenWriting DEF FlushNothing, Receive, Answer
    <3>2. CASE Rotate \/ Sweep \/ RemoveOld
      <4>1. UNCHANGED <<queue, batch, task, observed>> /\ step' \in {"flush", "sweep", "remove"}
        BY <3>2 DEF Rotate, Sweep, RemoveOld, sharedVars
      <4>. QED  BY <1>2, <2>2, <4>1 DEF OneEntry
    <3>3. CASE WriteBatch
      <4>1. queue' = <<>> /\ batch' = <<>> /\ observed' = {}
        BY <2>2, <3>3 DEF WriteBatch, Advance
      <4>2. step' = "recv"
        BY <2>2, <3>3, <1>4, MessagesAre DEF WriteBatch, AfterFlush
      <4>3. Op(a) \in Range(batch)
        <5>1. batch[1] = Op(a) /\ 1 \in DOMAIN batch
          BY <2>2
        <5>. QED  BY <5>1 DEF Range
      <4>4. Op(a) \in Logged'
        BY <3>3, <4>3, UntornWritten DEF Healthy
      <4>. QED  BY <1>2, <4>1, <4>2, <4>4 DEF OneEntry, Quiet, Recoverable
    <3>. QED  BY <3>1, <3>2, <3>3
  <2>. QED  BY <1>3, <1>5, <2>1, <2>2 DEF OneEntry
<1>. QED  BY <1>1, <1>4, <1>6 DEF Direct

LEMMA DirectAppender ==
    ASSUME IInv, Solo, Healthy, Opened, Direct, NEW a \in Appenders,
           Apply(a) \/ ReadEpoch(a) \/ Send(a) \/ Return(a)
    PROVE  Direct'
<1>1. a \in Callers /\ Appenders = {a}
  BY CallerKinds, OnlyOne
<1>2. CASE Apply(a)
  <2>1. pc'[a] = "append" /\ Quiet
    BY <1>1, <1>2, OneMoves DEF Apply, Direct
  <2>2. UNCHANGED <<queue, step, batch>>
    BY <1>2 DEF Apply, writerVars
  <2>. QED  BY <1>1, <2>1, <2>2 DEF Direct, Quiet
<1>3. CASE ReadEpoch(a)
  <2>1. pc'[a] = "send" /\ Quiet /\ a \in observed'
    BY <1>1, <1>3, OneMoves DEF ReadEpoch, Direct
  <2>2. UNCHANGED <<queue, step, batch>>
    BY <1>3 DEF ReadEpoch, writerVars
  <2>. QED  BY <1>1, <2>1, <2>2 DEF Direct, Quiet
<1>4. CASE Send(a)
  <2>1. pc'[a] = "wait" /\ Quiet /\ a \in observed
    BY <1>1, <1>4, OneMoves DEF Send, Direct
  <2>2. queue' = Append(queue, EntryOf(a)) /\ UNCHANGED <<step, batch, observed, issued>>
    BY <1>4 DEF Send, EntryOf, writerVars, sharedVars
  <2>3. queue' = <<EntryOf(a)>> /\ EntryOf(a)' = EntryOf(a)
    BY <2>1, <2>2 DEF Quiet, EntryOf, Message, Op
  <2>. QED  BY <1>1, <2>1, <2>2, <2>3 DEF Direct, Quiet, OneEntry
<1>5. CASE Return(a)
  <2>1. a \notin observed /\ pc[a] = "wait" /\ pc'[a] = "idle"
    BY <1>1, <1>5, OneMoves DEF Return, Healthy
  <2>2. Quiet
    BY <2>1 DEF Direct, OneEntry
  <2>3. UNCHANGED <<queue, step, batch>>
    BY <1>5 DEF Return, writerVars
  <2>. QED  BY <1>1, <2>1, <2>2, <2>3 DEF Direct, Quiet
<1>. QED  BY <1>2, <1>3, <1>4, <1>5

LEMMA BatchModeStarts ==
    ASSUME Quiet, UNCHANGED <<queue, step, batch>>
    PROVE  Sent' /\ Taken' /\ Held'
BY DEF Quiet, Sent, Taken, Held

LEMMA StartServes ==
    ASSUME IInv, Solo, ModeOK, LogServes, NEW i \in Importers, StartBatch(i)
    PROVE  LogServes'
<1>1. Appenders = {i} /\ Opened /\ pc[i] = "idle" /\ i \notin importing /\ UNCHANGED <<queue, step, batch>>
  BY OnlyOne, CallerKinds DEF StartBatch, writerVars
<1>2. importing = {}
  BY <1>1, RedoLogAssumption DEF IInv, CallerSide, CallerTypes
<1>3. buffer = Off
  BY <1>2 DEF ModeOK
<1>4. Quiet
  BY <1>1, <1>3 DEF LogServes, Direct
<1>5. buffer' # Off
  <2>1. <<>> \in Seq(Ops)
    OBVIOUS
  <2>. QED  BY <1>3, <2>1, RedoLogAssumption DEF StartBatch
<1>. QED  BY <1>1, <1>4, <1>5, BatchModeStarts DEF LogServes

LEMMA OpenedServes ==
    ASSUME IInv, ModeOK, Flushed(Owner)
    PROVE  LogServes'
<1>. SUFFICES ASSUME Opened' PROVE LogServes'
  BY DEF LogServes
<1>1. pc[Owner] = "done" /\ Owner \in answered
  BY DEF Flushed
<1>2. Quiet
  BY <1>1, OwnerApart DEF Quiet, IInv, LogSide, OpeningOK
<1>3. UNCHANGED <<queue, step, batch, buffer>>
  BY DEF Flushed, writerVars, batchVars
<1>4. buffer = Off
  BY <1>1 DEF ModeOK, IInv, CallerSide, CallersOK
<1>5. \A a \in Appenders : pc'[a] = "idle"
  <2>1. \A a \in Appenders : pc[a] = "idle"
    BY <1>1, CallerKinds DEF IInv, CallerSide, CallersOK
  <2>2. \E l : Goto(Owner, l)
    BY DEF Flushed
  <2>. QED  BY <2>1, <2>2, OneMoves, CallerKinds, OwnerApart
<1>. QED  BY <1>2, <1>3, <1>4, <1>5 DEF LogServes, Direct, Quiet

\* In batch mode.
LEMMA QueueIs ==
    ASSUME IInv
    PROVE  /\ queue \in Seq(Messages) /\ DOMAIN queue = 1..Len(queue) /\ Len(queue) \in Nat
           /\ \A k \in 1..Len(queue) : queue[k] \in Messages /\ queue[k].from \in Callers
<1>1. queue \in Seq(Messages)
  BY DEF IInv, LogSide, LogTypes
<1>2. \A k \in 1..Len(queue) : queue[k] \in Messages
  BY <1>1
<1>3. \A m \in Messages : m.from \in Callers
  BY DEF Messages
<1>. QED  BY <1>1, <1>2, <1>3

LEMMA BatchKept ==
    ASSUME IInv, Sent, Taken, Held, UNCHANGED <<queue, step, task, batch>>,
           \A d \in Callers : (Awaited(d) => Awaited(d)') /\ (pc[d] = "flush" => pc'[d] = "flush")
    PROVE  Sent' /\ Taken' /\ Held'
<1>. USE QueueIs
<1>1. \A d \in Callers : FlushOf(d)' = FlushOf(d)
  BY DEF FlushOf, Message
<1>2. Sent'
  <2>1. ASSUME NEW k \in 1..Len(queue)
        PROVE  \/ \E c \in Callers : queue[k] = FlushOf(c) /\ Awaited(c)'
               \/ /\ queue[k].kind = "batch"
                  /\ \/ pc'[queue[k].from] = "flush"
                     \/ \E l \in 1..Len(queue) : k < l /\ queue[l] = FlushOf(queue[k].from)
    BY DEF Sent
  <2>. QED  BY <1>1, <2>1 DEF Sent
<1>3. Taken'
  BY <1>1 DEF Taken
<1>4. Held'
  BY <1>1 DEF Held
<1>. QED  BY <1>2, <1>3, <1>4

\* What the channel holds once a message was given to it.
LEMMA QueueGrows ==
    ASSUME IInv, NEW m \in Messages, queue' = Append(queue, m)
    PROVE  /\ Len(queue') = Len(queue) + 1 /\ DOMAIN queue' = 1..(Len(queue) + 1)
           /\ queue'[Len(queue) + 1] = m
           /\ \A k \in 1..Len(queue) : k \in 1..(Len(queue) + 1) /\ queue'[k] = queue[k] /\ k < Len(queue) + 1
           /\ \A k \in 1..(Len(queue) + 1) : k \in 1..Len(queue) \/ k = Len(queue) + 1
BY QueueIs

LEMMA SendBatchServes ==
    ASSUME IInv, Healthy, Opened, Sent, Taken, Held, NEW c \in Callers, SendBatch(c)
    PROVE  Sent' /\ Taken' /\ Held'
<1>. USE QueueIs, MessagesAre
<1>. DEFINE m == Message("batch", hand[c], c)
<1>1. m \in Messages /\ m.kind = "batch" /\ m.from = c /\ \A d \in Callers : m # FlushOf(d)
  <2>1. m \in Messages /\ m.kind = "batch" /\ m.from = c
    BY DEF Message, Messages, IInv, CallerSide, CallerTypes
  <2>. QED  BY <2>1
<1>2. queue' = Append(queue, m) /\ UNCHANGED <<step, task, batch, answered>>
  BY DEF SendBatch, writerVars, sharedVars
<1>3. pc[c] = "batch" /\ pc'[c] = "flush" /\ \A d \in Callers : d # c => pc'[d] = pc[d]
  BY OneMoves DEF SendBatch
<1>. HIDE DEF m
<1>4. /\ Len(queue') = Len(queue) + 1 /\ DOMAIN queue' = 1..(Len(queue) + 1)
      /\ queue'[Len(queue) + 1] = m
      /\ \A k \in 1..Len(queue) : k \in 1..(Len(queue) + 1) /\ queue'[k] = queue[k] /\ k < Len(queue) + 1
      /\ \A k \in 1..(Len(queue) + 1) : k \in 1..Len(queue) \/ k = Len(queue) + 1
  BY <1>1, <1>2, QueueGrows
<1>5. \A d \in Callers : (Awaited(d) => Awaited(d)') /\ (pc[d] = "flush" => pc'[d] = "flush")
  BY <1>2, <1>3 DEF Awaited
<1>6. \A d \in Callers : FlushOf(d)' = FlushOf(d)
  BY DEF FlushOf, Message
<1>7. Sent'
  <2>1. ASSUME NEW k \in 1..(Len(queue) + 1)
        PROVE  \/ \E d \in Callers : queue'[k] = FlushOf(d) /\ Awaited(d)'
               \/ /\ queue'[k].kind = "batch"
                  /\ \/ pc'[queue'[k].from] = "flush"
                     \/ \E l \in 1..(Len(queue) + 1) : k < l /\ queue'[l] = FlushOf(queue'[k].from)
    <3>1. CASE k = Len(queue) + 1
      BY <1>1, <1>3, <1>4, <3>1
    <3>2. CASE k \in 1..Len(queue)
      <4>1. queue'[k] = queue[k] /\ queue[k].from \in Callers
        BY <1>4, <3>2
      <4>2. CASE \E d \in Callers : queue[k] = FlushOf(d) /\ Awaited(d)
        BY <1>5, <4>1, <4>2
      <4>3. CASE /\ queue[k].kind = "batch"
                 /\ \/ pc[queue[k].from] = "flush"
                    \/ \E l \in 1..Len(queue) : k < l /\ queue[l] = FlushOf(queue[k].from)
        BY <1>4, <1>5, <4>1, <4>3
      <4>. QED  BY <3>2, <4>2, <4>3 DEF Sent
    <3>. QED  BY <1>4, <3>1, <3>2
  <2>2. ASSUME NEW d \in Callers, NEW k \in 1..(Len(queue) + 1), NEW l \in 1..(Len(queue) + 1),
               queue'[k] = FlushOf(d), queue'[l] = FlushOf(d)
        PROVE  k = l
    <3>1. k \in 1..Len(queue) /\ l \in 1..Len(queue)
      BY <1>1, <1>4, <2>2
    <3>. QED  BY <1>4, <2>2, <3>1 DEF Sent
  <2>. QED  BY <1>4, <1>6, <2>1, <2>2 DEF Sent
<1>8. Taken'
  <2>1. ASSUME NEW d \in Callers, \A k \in 1..Len(queue) : queue[k] # FlushOf(d)
        PROVE  \A k \in DOMAIN queue' : queue'[k] # FlushOf(d)
    BY <1>1, <1>4, <2>1
  <2>. QED  BY <1>2, <1>5, <1>6, <2>1 DEF Taken
<1>9. Held'
  BY <1>2, <1>4, <1>5, <1>6 DEF Held
<1>. QED  BY <1>7, <1>8, <1>9

LEMMA SendFlushServes ==
    ASSUME IInv, Healthy, Opened, Sent, Taken, Held, NEW c \in Callers, SendFlush(c)
    PROVE  Sent' /\ Taken' /\ Held'
<1>. USE QueueIs, MessagesAre
<1>1. \A d \in Callers : FlushOf(d)' = FlushOf(d) /\ (d # c => FlushOf(d) # FlushOf(c))
  <2>1. \A d \in Callers : FlushOf(d).from = d
    BY MessagesAre
  <2>. QED  BY <2>1 DEF FlushOf, Message
<1>2. queue' = Append(queue, FlushOf(c)) /\ UNCHANGED <<step, task, batch, answered>>
  BY DEF SendFlush, writerVars, sharedVars, FlushOf
<1>3. pc[c] = "flush" /\ pc'[c] = "done" /\ \A d \in Callers : d # c => pc'[d] = pc[d]
  BY OneMoves DEF SendFlush
<1>4. /\ Len(queue') = Len(queue) + 1 /\ DOMAIN queue' = 1..(Len(queue) + 1)
      /\ queue'[Len(queue) + 1] = FlushOf(c)
      /\ \A k \in 1..Len(queue) : k \in 1..(Len(queue) + 1) /\ queue'[k] = queue[k] /\ k < Len(queue) + 1
      /\ \A k \in 1..(Len(queue) + 1) : k \in 1..Len(queue) \/ k = Len(queue) + 1
      /\ Len(queue) + 1 \in 1..(Len(queue) + 1)
  BY <1>2, QueueGrows
<1>5. Awaited(c)' /\ ~Awaited(c) /\ \A d \in Callers : Awaited(d) => Awaited(d)'
  BY <1>2, <1>3 DEF Awaited, Healthy
<1>6. \A k \in 1..Len(queue) : queue[k] # FlushOf(c)
  BY <1>1, <1>5 DEF Sent
<1>7. Sent'
  <2>1. ASSUME NEW k \in 1..(Len(queue) + 1)
        PROVE  \/ \E d \in Callers : queue'[k] = FlushOf(d) /\ Awaited(d)'
               \/ /\ queue'[k].kind = "batch"
                  /\ \/ pc'[queue'[k].from] = "flush"
                     \/ \E l \in 1..(Len(queue) + 1) : k < l /\ queue'[l] = FlushOf(queue'[k].from)
    <3>1. CASE k = Len(queue) + 1
      BY <1>4, <1>5, <3>1
    <3>2. CASE k \in 1..Len(queue)
      <4>1. queue'[k] = queue[k] /\ queue[k].from \in Callers
        BY <1>4, <3>2
      <4>2. CASE \E d \in Callers : queue[k] = FlushOf(d) /\ Awaited(d)
        BY <1>5, <4>1, <4>2
      <4>3. CASE queue[k].kind = "batch" /\ pc[queue[k].from] = "flush"
        <5>1. CASE queue[k].from = c
          BY <1>4, <3>2, <4>1, <4>3, <5>1
        <5>2. CASE queue[k].from # c
          BY <1>3, <4>1, <4>3, <5>2
        <5>. QED  BY <5>1, <5>2
      <4>4. CASE queue[k].kind = "batch" /\ \E l \in 1..Len(queue) : k < l /\ queue[l] = FlushOf(queue[k].from)
        BY <1>4, <4>1, <4>4
      <4>. QED  BY <3>2, <4>2, <4>3, <4>4 DEF Sent
    <3>. QED  BY <1>4, <3>1, <3>2
  <2>2. ASSUME NEW d \in Callers, NEW k \in 1..(Len(queue) + 1), NEW l \in 1..(Len(queue) + 1),
               queue'[k] = FlushOf(d), queue'[l] = FlushOf(d)
        PROVE  k = l
    <3>1. CASE d = c
      BY <1>4, <1>6, <2>2, <3>1
    <3>2. CASE d # c
      <4>1. k \in 1..Len(queue) /\ l \in 1..Len(queue)
        BY <1>1, <1>4, <2>2, <3>2
      <4>. QED  BY <1>4, <2>2, <4>1 DEF Sent
    <3>. QED  BY <3>1, <3>2
  <2>. QED  BY <1>1, <1>4, <2>1, <2>2 DEF Sent
<1>8. Taken'
  <2>1. ASSUME NEW d \in Callers, Awaited(d), \A k \in 1..Len(queue) : queue[k] # FlushOf(d)
        PROVE  \A k \in DOMAIN queue' : queue'[k] # FlushOf(d)
    BY <1>1, <1>4, <1>5, <2>1
  <2>. QED  BY <1>1, <1>2, <1>5, <2>1 DEF Taken
<1>9. Held'
  <2>1. (\E d \in Callers : pc[d] = "flush" \/ \E k \in 1..Len(queue) : queue[k] = FlushOf(d)) =>
            \E d \in Callers : pc'[d] = "flush" \/ \E k \in DOMAIN queue' : queue'[k] = FlushOf(d)
    BY <1>3, <1>4
  <2>. QED  BY <1>1, <1>2, <2>1 DEF Held
<1>. QED  BY <1>7, <1>8, <1>9

LEMMA ReceiveServes ==
    ASSUME IInv, Sent, Taken, Held, Receive
    PROVE  Sent' /\ Taken' /\ Held'
<1>. USE QueueIs, MessagesAre
<1>1. /\ task' = queue[1] /\ queue' = Tail(queue) /\ 1 \in 1..Len(queue) /\ queue[1] \in Messages
      /\ DOMAIN queue' = 1..(Len(queue) - 1)
      /\ \A k \in 1..(Len(queue) - 1) : queue'[k] = queue[k + 1] /\ k + 1 \in 1..Len(queue) /\ k + 1 # 1
      /\ \A l \in 1..Len(queue) : l > 1 => l - 1 \in 1..(Len(queue) - 1) /\ queue'[l - 1] = queue[l]
  BY DEF Receive
<1>2. /\ step = "recv" /\ UNCHANGED <<pc, answered>> /\ batch' = batch \o task'.entries
      /\ step' = IF task'.kind = "batch" /\ Len(batch') < BatchSize THEN "recv" ELSE "flush"
  BY DEF Receive, callerVars, sharedVars
<1>3. \A d \in Callers : FlushOf(d)' = FlushOf(d) /\ Awaited(d)' = Awaited(d)
  BY <1>2 DEF FlushOf, Message, Awaited
<1>4. Sent'
  <2>1. ASSUME NEW k \in 1..(Len(queue) - 1)
        PROVE  \/ \E d \in Callers : queue'[k] = FlushOf(d) /\ Awaited(d)
               \/ /\ queue'[k].kind = "batch"
                  /\ \/ pc[queue'[k].from] = "flush"
                     \/ \E l \in 1..(Len(queue) - 1) : k < l /\ queue'[l] = FlushOf(queue'[k].from)
    <3>1. queue'[k] = queue[k + 1] /\ k + 1 \in 1..Len(queue)
      BY <1>1
    <3>2. ASSUME NEW l \in 1..Len(queue), k + 1 < l PROVE l - 1 \in 1..(Len(queue) - 1) /\ k < l - 1 /\ queue'[l - 1] = queue[l]
      BY <1>1, <3>2
    <3>. QED  BY <3>1, <3>2 DEF Sent
  <2>2. ASSUME NEW d \in Callers, NEW k \in 1..(Len(queue) - 1), NEW l \in 1..(Len(queue) - 1),
               queue'[k] = FlushOf(d), queue'[l] = FlushOf(d)
        PROVE  k = l
    <3>1. k + 1 = l + 1
      BY <1>1, <2>2 DEF Sent
    <3>. QED  BY <3>1
  <2>3. ASSUME NEW k \in 1..(Len(queue) - 1)
        PROVE  \/ \E d \in Callers : queue'[k] = FlushOf(d) /\ Awaited(d)'
               \/ /\ queue'[k].kind = "batch"
                  /\ \/ pc'[queue'[k].from] = "flush"
                     \/ \E l \in 1..(Len(queue) - 1) : k < l /\ queue'[l] = FlushOf(queue'[k].from)
    BY <1>2, <1>3, <2>1
  <2>4. DOMAIN queue' = 1..(Len(queue) - 1)
    BY <1>1
  <2>5. \A k \in DOMAIN queue' :
            \/ \E d \in Callers : queue'[k] = FlushOf(d) /\ Awaited(d)'
            \/ /\ queue'[k].kind = "batch"
               /\ \/ pc'[queue'[k].from] = "flush"
                  \/ \E l \in DOMAIN queue' : k < l /\ queue'[l] = FlushOf(queue'[k].from)
    BY <2>3, <2>4
  <2>6. \A d \in Callers, k, l \in DOMAIN queue' : queue'[k] = FlushOf(d) /\ queue'[l] = FlushOf(d) => k = l
    BY <2>2, <2>4
  <2>7. \A d \in Callers : FlushOf(d)' = FlushOf(d)
    BY <1>3
  <2>. QED  BY <2>5, <2>6, <2>7 DEF Sent, FlushOf, Message
<1>5. CASE \E c \in Callers : queue[1] = FlushOf(c) /\ Awaited(c)
  <2>1. PICK c \in Callers : queue[1] = FlushOf(c) /\ Awaited(c)
    BY <1>5
  <2>2. step' = "flush" /\ task' = FlushOf(c)
    BY <1>1, <1>2, <2>1
  <2>3. \A k \in DOMAIN queue' : queue'[k] # FlushOf(c)
    BY <1>1, <2>1 DEF Sent
  <2>4. Taken'
    BY <1>3, <2>1, <2>2, <2>3 DEF Taken
  <2>5. Held'
    BY <1>3, <2>2 DEF Held
  <2>. QED  BY <1>4, <2>4, <2>5
<1>6. CASE /\ queue[1].kind = "batch"
           /\ \/ pc[queue[1].from] = "flush"
              \/ \E l \in 1..Len(queue) : 1 < l /\ queue[l] = FlushOf(queue[1].from)
  <2>1. Taken'
    <3>1. batch' \in Seq(Ops)
      <4>1. queue[1].entries \in Seq(Ops) /\ batch \in Seq(Ops)
        BY <1>1 DEF Messages, IInv, LogSide, LogTypes
      <4>. QED  BY <1>1, <1>2, <4>1
    <3>2. step' # "recv" => batch' # <<>> /\ step' = "flush"
      <4>1. step' # "recv" => step' = "flush" /\ ~(Len(batch') < BatchSize)
        BY <1>1, <1>2, <1>6
      <4>2. Len(<<>>) < BatchSize
        BY RedoLogAssumption
      <4>. QED  BY <4>1, <4>2
    <3>. QED  BY <1>1, <1>6, <3>2 DEF Taken
  <2>2. Held'
    <3>0. queue[1].from \in Callers
      BY <1>1
    <3>1. \E c \in Callers : pc[c] = "flush" \/ \E k \in DOMAIN queue' : queue'[k] = FlushOf(c)
      <4>1. CASE pc[queue[1].from] = "flush"
        BY <3>0, <4>1
      <4>2. CASE \E l \in 1..Len(queue) : 1 < l /\ queue[l] = FlushOf(queue[1].from)
        <5>1. PICK l \in 1..Len(queue) : 1 < l /\ queue[l] = FlushOf(queue[1].from)
          BY <4>2
        <5>2. l - 1 \in DOMAIN queue' /\ queue'[l - 1] = FlushOf(queue[1].from)
          BY <1>1, <5>1
        <5>. QED  BY <3>0, <5>2
      <4>. QED  BY <1>6, <4>1, <4>2
    <3>. QED  BY <1>2, <1>3, <3>1 DEF Held
  <2>. QED  BY <1>4, <2>1, <2>2
<1>. QED  BY <1>1, <1>5, <1>6 DEF Sent

LEMMA AnswerServes ==
    ASSUME IInv, Sent, Taken, Held, Answer
    PROVE  Sent' /\ Taken' /\ Held'
<1>. USE QueueIs, MessagesAre
<1>1. step = "answer" /\ UNCHANGED <<queue, batch, pc>>
  BY DEF Answer, callerVars
<1>2. PICK c \in Callers : /\ task = FlushOf(c) /\ batch = <<>> /\ \A k \in DOMAIN queue : queue[k] # FlushOf(c)
  BY <1>1 DEF Taken
<1>3. step' = "recv" /\ answered' = answered \cup {c}
  BY <1>2 DEF Answer
<1>4. \A d \in Callers : FlushOf(d)' = FlushOf(d) /\ (d # c => Awaited(d)' = Awaited(d))
  BY <1>1, <1>3 DEF FlushOf, Message, Awaited
<1>5. Sent'
  <2>1. ASSUME NEW k \in 1..Len(queue)
        PROVE  \/ \E d \in Callers : queue[k] = FlushOf(d) /\ Awaited(d)'
               \/ /\ queue[k].kind = "batch"
                  /\ \/ pc'[queue[k].from] = "flush"
                     \/ \E l \in 1..Len(queue) : k < l /\ queue[l] = FlushOf(queue[k].from)
    BY <1>1, <1>2, <1>4 DEF Sent
  <2>. QED  BY <1>1, <1>4, <2>1 DEF Sent
<1>. QED  BY <1>1, <1>2, <1>3, <1>5 DEF Taken, Held

LEMMA WriterServes ==
    ASSUME IInv, Solo, Opened, Sent, Taken, Held, Writing \/ Failing
    PROVE  Sent' /\ Taken' /\ Held'
<1>. USE QueueIs, MessagesAre
<1>1. CASE FlushNothing \/ WriteBatch
  <2>1. /\ step = "flush" /\ batch' = <<>> /\ step' = AfterFlush
        /\ UNCHANGED <<queue, task, pc, answered>> /\ (FlushNothing => batch = <<>>)
    BY <1>1 DEF FlushNothing, WriteBatch, callerVars
  <2>2. \A d \in Callers : FlushOf(d)' = FlushOf(d) /\ Awaited(d)' = Awaited(d)
    BY <2>1 DEF FlushOf, Message, Awaited
  <2>3. Sent'
    <3>1. ASSUME NEW k \in 1..Len(queue)
          PROVE  \/ \E d \in Callers : queue[k] = FlushOf(d) /\ Awaited(d)'
                 \/ /\ queue[k].kind = "batch"
                    /\ \/ pc'[queue[k].from] = "flush"
                       \/ \E l \in 1..Len(queue) : k < l /\ queue[l] = FlushOf(queue[k].from)
      BY <2>1, <2>2 DEF Sent
    <3>. QED  BY <2>1, <2>2, <3>1 DEF Sent
  <2>4. Taken'
    <3>1. CASE task.kind = "batch"
      BY <2>1, <3>1 DEF AfterFlush, Taken
    <3>2. CASE task.kind # "batch"
      <4>1. PICK c \in Callers : task = FlushOf(c) /\ Awaited(c) /\ \A k \in DOMAIN queue : queue[k] # FlushOf(c)
        BY <2>1, <3>2 DEF Taken
      <4>2. step' = "answer"
        BY <2>1, <4>1 DEF AfterFlush
      <4>. QED  BY <2>1, <2>2, <4>1, <4>2 DEF Taken
    <3>. QED  BY <3>1, <3>2
  <2>. QED  BY <2>1, <2>3, <2>4 DEF Held
<1>2. CASE Rotate \/ Sweep \/ RemoveOld
  <2>1. /\ step \in {"flush", "sweep", "remove"} /\ step' \in {"flush", "sweep", "remove"}
        /\ UNCHANGED <<queue, task, pc, answered, batch>>
    BY <1>2 DEF Rotate, Sweep, RemoveOld, callerVars, sharedVars
  <2>2. \A d \in Callers : FlushOf(d)' = FlushOf(d) /\ Awaited(d)' = Awaited(d)
    BY <2>1 DEF FlushOf, Message, Awaited
  <2>3. Sent'
    <3>1. ASSUME NEW k \in 1..Len(queue)
          PROVE  \/ \E d \in Callers : queue[k] = FlushOf(d) /\ Awaited(d)'
                 \/ /\ queue[k].kind = "batch"
                    /\ \/ pc'[queue[k].from] = "flush"
                       \/ \E l \in 1..Len(queue) : k < l /\ queue[l] = FlushOf(queue[k].from)
      BY <2>1, <2>2 DEF Sent
    <3>. QED  BY <2>1, <2>2, <3>1 DEF Sent
  <2>4. Taken'
    BY <2>1, <2>2 DEF Taken
  <2>5. Held'
    BY <2>1, <2>2 DEF Held
  <2>. QED  BY <2>3, <2>4, <2>5
<1>. QED  BY <1>1, <1>2, ReceiveServes, AnswerServes, OpenWriting

\* When an import ends nothing is left on the way.
LEMMA BatchModeEnds ==
    ASSUME IInv, Solo, ModeOK, Opened, Sent, Taken, Held, NEW i \in Importers, Clear(i)
    PROVE  Quiet
<1>. USE QueueIs, MessagesAre
<1>1. \A c \in Callers : pc[c] \notin {"flush", "done"}
  <2>1. pc[i] = "clear" /\ pc[Timer] = "idle" /\ pc[Owner] = "idle" /\ Appenders = {i}
    BY CallerKinds, OnlyOne DEF Clear, Opened
  <2>. QED  BY <2>1, CallerKinds
<1>2. \A c \in Callers, k \in 1..Len(queue) : queue[k] # FlushOf(c)
  BY <1>1 DEF Sent, Awaited
<1>3. \A k \in 1..Len(queue) : FALSE
  BY <1>1, <1>2 DEF Sent, Awaited
<1>4. queue = <<>>
  <2>1. Len(queue) = 0
    BY <1>3
  <2>. QED  BY <2>1
<1>5. batch = <<>>
  BY <1>1, <1>4 DEF Held, Taken, Awaited
<1>6. step = "recv"
  BY <1>1, <1>5 DEF Taken, Awaited
<1>. QED  BY <1>4, <1>5, <1>6 DEF Quiet

LEMMA ClearServes ==
    ASSUME IInv, Solo, ModeOK, LogServes, NEW i \in Importers, Clear(i)
    PROVE  LogServes' /\ (Opened => Quiet)
<1>1. pc[i] = "clear" /\ buffer # Off /\ Appenders = {i} /\ i \in Callers
  BY CallerKinds, OnlyOne DEF Clear, ModeOK
<1>2. Opened => Quiet
  BY <1>1, BatchModeEnds DEF LogServes
<1>3. pc'[i] = "idle" /\ \A d \in Callers : d # i => pc'[d] = pc[d]
  BY <1>1, OneMoves DEF Clear
<1>4. buffer' = Off /\ UNCHANGED <<queue, step, batch>> /\ (Opened' <=> Opened)
  BY <1>3, CallerKinds, OwnerApart DEF Clear, writerVars, Opened
<1>. QED  BY <1>1, <1>2, <1>3, <1>4 DEF LogServes, Direct, Quiet

\* The steps of a caller that leave the log and the mode alone.
LEMMA CallerServes ==
    ASSUME IInv, ModeOK, Healthy, LogServes, NEW c \in Callers, NEW l, Goto(c, l),
           buffer # Off, UNCHANGED <<queue, step, task, batch>>, buffer' # Off,
           pc[c] # "flush",
           (answered' = answered /\ pc[c] # "done") \/ (c \in answered /\ answered' = answered \ {c}),
           c # Owner
    PROVE  LogServes'
<1>1. pc'[c] = l /\ \A d \in Callers : d # c => pc'[d] = pc[d]
  BY OneMoves
<1>2. Opened' <=> Opened
  BY <1>1, OwnerApart DEF Opened
<1>3. \A d \in Callers : (Awaited(d) => Awaited(d)') /\ (pc[d] = "flush" => pc'[d] = "flush")
  BY <1>1 DEF Awaited
<1>. QED  BY <1>2, <1>3, BatchKept DEF LogServes

LEMMA NextServes ==
    ASSUME IInv, Solo, ModeOK, Healthy, LogServes, Next, ModeOK'
    PROVE  LogServes'
<1>. USE CallerKinds, OwnerApart
<1>1. CASE Opening \/ Shutdown \/ SendFlush(Owner) \/ Crash
  <2>1. pc'[Owner] # "idle"
    BY <1>1 DEF Opening, Replay, FlushBlocks, SendRenew, Shutdown, SendFlush, Crash, Goto, IInv, CallerSide, CallerTypes
  <2>. QED  BY <2>1 DEF LogServes, Opened
<1>2. CASE Writing \/ Failing
  <2>1. UNCHANGED <<pc, buffer>>
    BY <1>2, ModeWriting DEF callerVars, batchVars
  <2>2. Opened' <=> Opened
    BY <2>1 DEF Opened
  <2>. QED  BY <1>2, <2>1, <2>2, DirectWriting, WriterServes DEF LogServes
<1>3. CASE Tick
  <2>1. /\ Goto(Timer, "take") /\ buffer # Off /\ UNCHANGED <<queue, step, task, batch, answered, buffer>>
        /\ pc[Timer] = "idle"
    BY <1>3 DEF Tick, writerVars, sharedVars, batchVars
  <2>. QED  BY <2>1, CallerServes
<1>4. ASSUME NEW a \in Appenders, Apply(a) \/ Appending(a) PROVE LogServes'
  <2>1. CASE buffer = Off
    <3>1. Apply(a) \/ ReadEpoch(a) \/ Send(a) \/ Return(a)
      <4>1. ~Push(a) /\ ~Aged(a)
        BY <2>1 DEF ModeOK, Push, Aged
      <4>. QED  BY <1>4, <4>1 DEF Appending
    <3>2. buffer' = buffer /\ (Opened' <=> Opened)
      <4>1. buffer' = buffer /\ \E l : Goto(a, l)
        BY <3>1 DEF Apply, ReadEpoch, Send, Return, batchVars
      <4>. QED  BY <4>1, OneMoves DEF Opened
    <3>. QED  BY <2>1, <3>1, <3>2, DirectAppender DEF LogServes
  <2>2. CASE buffer # Off
    <3>1. Apply(a) \/ Push(a) \/ Aged(a)
      <4>1. ~ReadEpoch(a) /\ ~Send(a) /\ ~Return(a)
        BY <2>2 DEF ModeOK, ReadEpoch, Send, Return
      <4>. QED  BY <1>4, <4>1 DEF Appending
    <3>2. /\ \E l : Goto(a, l)
          /\ UNCHANGED <<queue, step, task, batch, answered>> /\ pc[a] \notin {"flush", "done"}
      BY <3>1 DEF Apply, Push, Aged, writerVars, sharedVars
    <3>3. buffer' # Off
      <4>1. CASE Push(a)
        <5>1. UNCHANGED importing
          BY <4>1 DEF Push
        <5>. QED  BY <2>2, <5>1 DEF ModeOK
      <4>2. CASE Apply(a) \/ Aged(a)
        BY <2>2, <4>2 DEF Apply, Aged, batchVars
      <4>. QED  BY <3>1, <4>1, <4>2
    <3>. QED  BY <2>2, <3>2, <3>3, CallerServes
  <2>. QED  BY <2>1, <2>2
<1>5. ASSUME NEW c \in Callers, c # Owner, Flushing(c) PROVE LogServes'
  <2>1. buffer # Off
    BY <1>5, ModeFlushing
  <2>2. buffer' # Off
    <3>1. UNCHANGED importing
      BY <1>5 DEF Flushing, Take, SendBatch, SendFlush, Flushed, batchVars
    <3>. QED  BY <2>1, <3>1 DEF ModeOK
  <2>3. CASE Take(c)
    <3>1. /\ \E l : Goto(c, l)
          /\ UNCHANGED <<queue, step, task, batch, answered>> /\ pc[c] \notin {"flush", "done"}
      BY <2>3 DEF Take, writerVars, sharedVars
    <3>. QED  BY <1>5, <2>1, <2>2, <3>1, CallerServes
  <2>4. CASE Flushed(c)
    <3>1. /\ \E l : Goto(c, l)
          /\ UNCHANGED <<queue, step, task, batch>> /\ pc[c] = "done"
          /\ c \in answered /\ answered' = answered \ {c}
      BY <2>4 DEF Flushed, writerVars
    <3>. QED  BY <1>5, <2>1, <2>2, <3>1, CallerServes
  <2>5. CASE SendBatch(c) \/ SendFlush(c)
    <3>1. \E l : Goto(c, l)
      BY <2>5 DEF SendBatch, SendFlush
    <3>2. Opened' <=> Opened
      BY <1>5, <3>1, OneMoves DEF Opened
    <3>. QED  BY <2>1, <2>2, <2>5, <3>2, SendBatchServes, SendFlushServes DEF LogServes
  <2>. QED  BY <1>5, <2>3, <2>4, <2>5 DEF Flushing
<1>6. ASSUME NEW i \in Importers, Importing(i) PROVE LogServes'
  <2>1. CASE EndBatch(i)
    <3>1. /\ Goto(i, "take") /\ i # Owner /\ pc[i] = "idle" /\ i \in importing
          /\ UNCHANGED <<queue, step, task, batch, answered, buffer>>
      BY <2>1 DEF EndBatch, writerVars, sharedVars, batchVars
    <3>2. buffer # Off
      BY <3>1 DEF ModeOK
    <3>. QED  BY <3>1, <3>2, CallerServes
  <2>. QED  BY <1>6, <2>1, StartServes, ClearServes DEF Importing
<1>7. ASSUME NEW c \in Callers, Flushing(c) PROVE LogServes'
  <2>1. CASE c = Owner
    <3>1. ~Take(Owner) /\ ~SendBatch(Owner)
      BY DEF Take, SendBatch, IInv, CallerSide, CallersOK
    <3>. QED  BY <1>1, <1>7, <2>1, <3>1, OpenedServes DEF Flushing
  <2>. QED  BY <1>5, <1>7, <2>1
<1>. QED  BY <1>1, <1>2, <1>3, <1>4, <1>6, <1>7 DEF Next

\* What a channel holds.
EntriesIn(q) == UNION {Range(q[k].entries) : k \in DOMAIN q}

LEMMA EntriesInIs ==
    ASSUME NEW q
    PROVE  /\ \A k \in DOMAIN q : Range(q[k].entries) \subseteq EntriesIn(q)
           /\ \A r \in EntriesIn(q) : \E k \in DOMAIN q : r \in Range(q[k].entries)
<1>. DEFINE sent(k) == Range(q[k].entries)
<1>1. EntriesIn(q) = UNION {sent(k) : k \in DOMAIN q}
  BY DEF EntriesIn
<1>. SUFFICES /\ \A k \in DOMAIN q : sent(k) \subseteq EntriesIn(q)
              /\ \A r \in EntriesIn(q) : \E k \in DOMAIN q : r \in sent(k)
  OBVIOUS
<1>. HIDE DEF sent
<1>. QED  BY <1>1

LEMMA InQueueIs == InQueue = EntriesIn(queue) /\ InQueue' = EntriesIn(queue')
BY DEF InQueue, EntriesIn

LEMMA InHandsIs ==
    /\ \A c \in Callers : Range(hand[c]) \subseteq InHands /\ Range(hand'[c]) \subseteq InHands'
    /\ \A r \in InHands : \E c \in Callers : r \in Range(hand[c])
<1>. DEFINE had(c) == Range(hand[c])
            has(c) == Range(hand'[c])
<1>1. InHands = UNION {had(c) : c \in Callers} /\ InHands' = UNION {has(c) : c \in Callers}
  BY DEF InHands
<1>. SUFFICES /\ \A c \in Callers : had(c) \subseteq InHands /\ has(c) \subseteq InHands'
              /\ \A r \in InHands : \E c \in Callers : r \in had(c)
  OBVIOUS
<1>. HIDE DEF had, has
<1>. QED  BY <1>1

LEMMA InQueueGrows ==
    ASSUME IInv, NEW m \in Messages, queue' = Append(queue, m)
    PROVE  InQueue \subseteq InQueue' /\ Range(m.entries) \subseteq InQueue'
<1>1. /\ DOMAIN queue' = 1..(Len(queue) + 1) /\ queue'[Len(queue) + 1] = m
      /\ \A k \in 1..Len(queue) : k \in 1..(Len(queue) + 1) /\ queue'[k] = queue[k]
      /\ Len(queue) + 1 \in 1..(Len(queue) + 1) /\ DOMAIN queue = 1..Len(queue)
  BY QueueGrows, QueueIs
<1>2. ASSUME NEW r \in InQueue PROVE r \in InQueue'
  <2>1. PICK k \in 1..Len(queue) : r \in Range(queue[k].entries)
    BY <1>1, EntriesInIs, InQueueIs
  <2>. QED  BY <1>1, <2>1, EntriesInIs, InQueueIs
<1>3. Range(m.entries) \subseteq InQueue'
  <2>1. Range(queue'[Len(queue) + 1].entries) \subseteq EntriesIn(queue')
    BY <1>1, EntriesInIs
  <2>. QED  BY <1>1, <2>1, InQueueIs
<1>. QED  BY <1>2, <1>3

\* Nothing that was collected moves.
LEMMA CollectedSame ==
    ASSUME Collected, Recoverable \subseteq Recoverable', UNCHANGED <<batch, hand, buffer, batched>>,
           InQueue \subseteq InQueue', buffer # Off,
           \A a \in Appenders : pc'[a] \in {"batch", "flush", "done", "clear"} =>
                                    pc[a] \in {"batch", "flush", "done", "clear"}
    PROVE  Collected'
<1>1. InHands' = InHands
  BY DEF InHands
<1>. QED  BY <1>1 DEF Collected

LEMMA CollectedWriting ==
    ASSUME IInv, Solo, Healthy, Opened, Collected, Recoverable \subseteq Recoverable', buffer # Off,
           Writing \/ Failing
    PROVE  Collected'
<1>1. UNCHANGED <<hand, buffer, batched, pc>>
  BY ModeWriting DEF Writing, Failing, Receive, FlushNothing, Rotate, Sweep, RemoveOld, WriteBatch,
     Answer, TrimOne, Renewed, RotateFails, WriteFails, RenewFails, batchVars, callerVars, histVars
<1>2. InHands' = InHands
  BY <1>1 DEF InHands
<1>3. CASE FlushNothing \/ Rotate \/ Sweep \/ RemoveOld \/ Answer
  <2>1. UNCHANGED <<batch, queue>>
    BY <1>3 DEF FlushNothing, Rotate, Sweep, RemoveOld, Answer
  <2>2. InQueue' = InQueue
    BY <2>1 DEF InQueue
  <2>. QED  BY <1>1, <2>1, <2>2, CollectedSame
<1>4. CASE WriteBatch
  <2>1. Range(batch) \subseteq Logged' /\ queue' = queue
    BY <1>4, UntornWritten DEF Healthy, WriteBatch
  <2>2. InQueue' = InQueue
    BY <2>1 DEF InQueue
  <2>. QED  BY <1>1, <1>2, <2>1, <2>2 DEF Collected, Recoverable
<1>5. CASE Receive
  <2>1. /\ queue[1] \in Messages /\ batch' = batch \o queue[1].entries /\ DOMAIN queue = 1..Len(queue)
        /\ \A l \in 1..Len(queue) : l > 1 => l - 1 \in DOMAIN queue' /\ queue'[l - 1] = queue[l]
    <3>1. queue \in Seq(Messages) /\ queue # <<>> /\ queue' = Tail(queue) /\ Head(queue) = queue[1] /\ 1 \in 1..Len(queue)
      BY <1>5, QueueIs DEF Receive
    <3>2. queue[1] \in Messages /\ DOMAIN queue = 1..Len(queue)
      BY <3>1, QueueIs
    <3>3. \A l \in 1..Len(queue) : l > 1 => l - 1 \in DOMAIN queue' /\ queue'[l - 1] = queue[l]
      BY <3>1
    <3>4. batch' = batch \o queue[1].entries
      BY <1>5, <3>1 DEF Receive
    <3>. QED  BY <3>2, <3>3, <3>4
  <2>2. Range(batch') = Range(batch) \cup Range(queue[1].entries)
    <3>1. batch \in Seq(Ops) /\ queue[1].entries \in Seq(Ops)
      BY <2>1 DEF Messages, IInv, LogSide, LogTypes
    <3>. QED  BY <2>1, <3>1, RangeConcat
  <2>3. InQueue \subseteq InQueue' \cup Range(queue[1].entries)
    <3>1. ASSUME NEW r \in InQueue PROVE r \in InQueue' \cup Range(queue[1].entries)
      <4>1. PICK k \in 1..Len(queue) : r \in Range(queue[k].entries)
        BY <2>1, EntriesInIs, InQueueIs
      <4>2. CASE k = 1
        BY <4>1, <4>2
      <4>3. CASE k > 1
        <5>1. Range(queue'[k - 1].entries) \subseteq EntriesIn(queue')
          BY <2>1, <4>3, EntriesInIs
        <5>. QED  BY <2>1, <4>1, <4>3, <5>1, InQueueIs
      <4>. QED  BY <4>2, <4>3
    <3>. QED  BY <3>1
  <2>. QED  BY <1>1, <1>2, <2>2, <2>3 DEF Collected
<1>. QED  BY <1>3, <1>4, <1>5, OpenWriting

LEMMA CollectedPush ==
    ASSUME IInv, Solo, ModeOK, Collected, Recoverable \subseteq Recoverable', NEW a \in Appenders, Push(a)
    PROVE  Collected'
<1>1. buffer # Off /\ Appenders = {a} /\ pc'[a] = "idle"
  BY CallerKinds, OnlyOne, ModePush, OneMoves DEF Push
<1>2. buffer \in Seq(Ops) /\ Op(a) \in Ops
  BY <1>1, WorkingOp DEF IInv, CallerSide, CallerTypes, Push, Working
<1>3. buffer' = Append(buffer, Op(a)) /\ buffer' # Off
  <2>1. Append(buffer, Op(a)) \in Seq(Ops)
    BY <1>2
  <2>. QED  BY <1>1, <2>1, RedoLogAssumption DEF Push
<1>4. Range(buffer') = Range(buffer) \cup {Op(a)}
  <2>1. buffer' = buffer \o <<Op(a)>> /\ <<Op(a)>> \in Seq(Ops)
    BY <1>2, <1>3
  <2>2. Range(<<Op(a)>>) = {Op(a)}
    BY DEF Range
  <2>3. Range(buffer \o <<Op(a)>>) = Range(buffer) \cup Range(<<Op(a)>>)
    BY <1>2, <2>1, RangeConcat
  <2>. QED  BY <2>1, <2>2, <2>3
<1>5. batched' \subseteq batched \cup {Op(a)} /\ UNCHANGED <<batch, queue, hand>>
  BY DEF Push, writerVars
<1>6. InQueue' = InQueue /\ InHands' = InHands
  BY <1>5 DEF InQueue, InHands
<1>. QED  BY <1>1, <1>3, <1>4, <1>5, <1>6 DEF Collected

LEMMA CollectedFlushing ==
    ASSUME IInv, Solo, ModeOK, Healthy, Opened, Collected, Recoverable \subseteq Recoverable',
           NEW c \in Callers \ {Owner}, Flushing(c)
    PROVE  Collected'
<1>1. buffer # Off
  BY ModeFlushing
<1>2. UNCHANGED <<batch, batched>> /\ \E l : Goto(c, l)
  BY DEF Flushing, Take, SendBatch, SendFlush, Flushed, writerVars, histVars
<1>3. \A d \in Callers : d # c => pc'[d] = pc[d]
  BY <1>2, OneMoves
<1>4. CASE Take(c) /\ buffer = <<>>
  <2>1. UNCHANGED <<queue, hand, buffer>>
    BY <1>4 DEF Take
  <2>2. InQueue' = InQueue /\ InHands' = InHands
    BY <2>1 DEF InQueue, InHands
  <2>. QED  BY <1>1, <1>2, <1>4, <2>1, <2>2 DEF Collected
<1>5. CASE Take(c) /\ buffer # <<>>
  <2>1. pc[c] = "take" /\ queue' = queue /\ buffer' = <<>> /\ hand' = [hand EXCEPT ![c] = buffer]
    BY <1>1, <1>5 DEF Take
  <2>2. hand[c] = <<>> /\ hand'[c] = buffer /\ \A d \in Callers : d # c => hand'[d] = hand[d]
    BY <2>1 DEF ModeOK, IInv, CallerSide, CallerTypes
  <2>3. ASSUME NEW r \in InHands PROVE r \in InHands'
    <3>1. PICK d \in Callers : r \in Range(hand[d])
      BY InHandsIs
    <3>2. d # c
      BY <2>2, <3>1, EmptyRange
    <3>. QED  BY <2>2, <3>1, <3>2, InHandsIs
  <2>4. Range(buffer) \subseteq InHands'
    BY <2>2, InHandsIs
  <2>5. InQueue' = InQueue
    BY <2>1 DEF InQueue
  <2>. QED  BY <1>1, <1>2, <2>1, <2>3, <2>4, <2>5 DEF Collected
<1>6. CASE SendBatch(c)
  <2>. DEFINE m == Message("batch", hand[c], c)
  <2>1. /\ m \in Messages /\ m.entries = hand[c] /\ queue' = Append(queue, m) /\ hand' = [hand EXCEPT ![c] = <<>>]
        /\ buffer' = buffer /\ pc[c] = "batch"
    BY <1>6 DEF SendBatch, Message, Messages, IInv, CallerSide, CallerTypes
  <2>. HIDE DEF m
  <2>2. InQueue \subseteq InQueue' /\ Range(hand[c]) \subseteq InQueue'
    BY <2>1, InQueueGrows
  <2>3. \A d \in Callers : d # c => hand'[d] = hand[d]
    BY <2>1 DEF IInv, CallerSide, CallerTypes
  <2>4. ASSUME NEW r \in InHands PROVE r \in InHands' \cup InQueue'
    <3>1. PICK d \in Callers : r \in Range(hand[d])
      BY InHandsIs
    <3>. QED  BY <2>2, <2>3, <3>1, InHandsIs
  <2>5. \A a \in Appenders : pc'[a] \in {"batch", "flush", "done", "clear"} =>
                                 pc[a] \in {"batch", "flush", "done", "clear"}
    BY <1>3, <2>1, CallerKinds
  <2>. QED  BY <1>1, <1>2, <2>1, <2>2, <2>4, <2>5 DEF Collected
<1>7. CASE SendFlush(c) \/ Flushed(c)
  <2>1. UNCHANGED <<hand, buffer>> /\ pc[c] \in {"flush", "done"}
    BY <1>7 DEF SendFlush, Flushed, batchVars
  <2>2. InQueue \subseteq InQueue'
    <3>1. CASE SendFlush(c)
      BY <3>1, InQueueGrows, MessagesAre DEF SendFlush, FlushOf
    <3>2. CASE Flushed(c)
      BY <3>2 DEF Flushed, InQueue
    <3>. QED  BY <1>7, <3>1, <3>2
  <2>3. \A a \in Appenders : pc'[a] \in {"batch", "flush", "done", "clear"} =>
                                 pc[a] \in {"batch", "flush", "done", "clear"}
    BY <1>3, <2>1, CallerKinds
  <2>. QED  BY <1>1, <1>2, <2>1, <2>2, <2>3, CollectedSame
<1>. QED  BY <1>4, <1>5, <1>6, <1>7 DEF Flushing

\* Outside batch mode there is nothing collected.
LEMMA CollectedOff ==
    ASSUME ModeOK', buffer' = Off
    PROVE  Collected'
BY DEF ModeOK, Collected

LEMMA NextCollected ==
    ASSUME IInv, Solo, ModeOK, Healthy, Collected, Next, ModeOK'
    PROVE  Collected'
<1>. USE CallerKinds, OwnerApart
<1>0. Recoverable \subseteq Recoverable'
  BY NothingLost
<1>1. CASE buffer = Off
  <2>1. ASSUME NEW i \in Importers, StartBatch(i) PROVE Collected'
    <3>1. batched' = {} /\ buffer' = <<>>
      BY <1>1, <2>1 DEF StartBatch, ModeOK, histVars
    <3>. QED  BY <3>1 DEF Collected
  <2>2. CASE \A i \in Importers : ~StartBatch(i)
    <3>1. buffer' = Off
      <4>1. CASE Writing \/ Failing
        BY <1>1, <4>1, ModeWriting DEF batchVars
      <4>2. CASE Opening \/ Shutdown \/ Tick \/ Crash
        BY <1>1, <4>2 DEF Opening, Replay, FlushBlocks, SendRenew, Shutdown, Tick, Crash, batchVars
      <4>3. ASSUME NEW a \in Appenders, Apply(a) \/ Appending(a) PROVE buffer' = Off
        BY <1>1, <4>3 DEF Apply, Appending, Push, Aged, ReadEpoch, Send, Return, batchVars
      <4>4. ASSUME NEW c \in Callers, Flushing(c) PROVE buffer' = Off
        BY <1>1, <4>4 DEF Flushing, Take, SendBatch, SendFlush, Flushed, batchVars
      <4>5. ASSUME NEW i \in Importers, EndBatch(i) \/ Clear(i) PROVE buffer' = Off
        BY <1>1, <4>5 DEF EndBatch, Clear, batchVars
      <4>. QED  BY <2>2, <4>1, <4>2, <4>3, <4>4, <4>5 DEF Next, Importing
    <3>. QED  BY <3>1, CollectedOff
  <2>. QED  BY <2>1, <2>2
<1>2. CASE buffer # Off
  <2>0. Opened /\ importing # {}
    BY <1>2 DEF ModeOK, Opened, IInv, CallerSide, CallersOK
  <2>1. ~Opening /\ ~Shutdown /\ ~SendFlush(Owner) /\ ~Flushed(Owner)
    BY <2>0 DEF Opening, Replay, FlushBlocks, SendRenew, Shutdown, SendFlush, Flushed, Opened
  <2>2. CASE Crash
    BY <2>2, CollectedOff DEF Crash
  <2>3. CASE Writing \/ Failing
    BY <1>0, <1>2, <2>0, <2>3, CollectedWriting
  <2>4. CASE Tick
    <3>1. UNCHANGED <<batch, queue, hand, buffer, batched>> /\ Goto(Timer, "take")
      BY <2>4 DEF Tick, writerVars, batchVars, histVars
    <3>2. \A a \in Appenders : pc'[a] = pc[a]
      BY <3>1, OneMoves
    <3>3. InQueue' = InQueue
      BY <3>1 DEF InQueue
    <3>. QED  BY <1>0, <1>2, <3>1, <3>2, <3>3, CollectedSame
  <2>5. ASSUME NEW a \in Appenders, Apply(a) \/ Appending(a) PROVE Collected'
    <3>1. CASE Push(a)
      BY <1>0, <3>1, CollectedPush
    <3>2. CASE ~Push(a)
      <4>1. Apply(a) \/ Aged(a)
        BY <1>2, <2>5, <3>2 DEF Appending, ModeOK, ReadEpoch, Send, Return
      <4>2. /\ UNCHANGED <<batch, queue, hand, buffer, batched>>
            /\ \E l \in {"append", "take"} : Goto(a, l)
        BY <4>1 DEF Apply, Aged, writerVars, batchVars, histVars
      <4>3. \A b \in Appenders : pc'[b] \in {"batch", "flush", "done", "clear"} => pc'[b] = pc[b]
        BY <4>2, OneMoves
      <4>4. InQueue' = InQueue
        BY <4>2 DEF InQueue
      <4>. QED  BY <1>0, <1>2, <4>2, <4>3, <4>4, CollectedSame
    <3>. QED  BY <3>1, <3>2
  <2>6. ASSUME NEW c \in Callers, Flushing(c) PROVE Collected'
    <3>1. c # Owner
      BY <2>0, <2>6 DEF Opened, Flushing, Take, SendBatch, SendFlush, Flushed
    <3>. QED  BY <1>0, <2>0, <2>6, <3>1, CollectedFlushing
  <2>7. ASSUME NEW i \in Importers, Importing(i) PROVE Collected'
    <3>1. CASE StartBatch(i)
      <4>1. i \notin importing /\ importing \subseteq Importers /\ Appenders = {i}
        BY <3>1, OnlyOne DEF StartBatch, IInv, CallerSide, CallerTypes
      <4>. QED  BY <2>0, <4>1, RedoLogAssumption
    <3>2. CASE EndBatch(i)
      <4>1. UNCHANGED <<batch, queue, hand, buffer, batched>> /\ Goto(i, "take")
        BY <3>2 DEF EndBatch, writerVars, batchVars, histVars
      <4>2. \A b \in Appenders : pc'[b] \in {"batch", "flush", "done", "clear"} => pc'[b] = pc[b]
        BY <4>1, OneMoves
      <4>3. InQueue' = InQueue
        BY <4>1 DEF InQueue
      <4>. QED  BY <1>0, <1>2, <4>1, <4>2, <4>3, CollectedSame
    <3>3. CASE Clear(i)
      BY <3>3, CollectedOff DEF Clear
    <3>. QED  BY <2>7, <3>1, <3>2, <3>3 DEF Importing
  <2>. QED  BY <2>1, <2>2, <2>3, <2>4, <2>5, <2>6, <2>7 DEF Next
<1>. QED  BY <1>1, <1>2

\* What is newly reported is found again.
LEMMA NextAcked ==
    ASSUME IInv, Solo, AInv, Next
    PROVE  AckedSurvives'
<1>. USE CallerKinds, OwnerApart
<1>0. Recoverable \subseteq Recoverable' /\ acked \subseteq Recoverable
  BY NothingLost DEF AInv, AckedSurvives
<1>. SUFFICES acked' \subseteq Recoverable'
  BY DEF AckedSurvives
<1>1. ASSUME NEW a \in Appenders, Return(a) PROVE acked' \subseteq Recoverable'
  <2>1. pc[a] = "wait" /\ Opened /\ acked' \subseteq acked \cup {Op(a)}
    BY <1>1 DEF Return, Opened, IInv, CallerSide, CallersOK
  <2>2. buffer = Off /\ error = FALSE
    BY <2>1 DEF AInv, ModeOK, Healthy
  <2>3. a \notin observed
    BY <1>1, <2>2 DEF Return
  <2>4. Op(a) \in Recoverable
    BY <2>1, <2>2, <2>3 DEF AInv, LogServes, Direct, OneEntry
  <2>. QED  BY <1>0, <2>1, <2>4
<1>2. ASSUME NEW i \in Importers, Clear(i) PROVE acked' \subseteq Recoverable'
  <2>1. /\ pc[i] = "clear" /\ pc[Timer] = "idle" /\ Opened /\ Appenders = {i}
        /\ acked' \subseteq acked \cup batched
    BY <1>2, OnlyOne DEF Clear, Opened, IInv, CallerSide, CallersOK
  <2>2. buffer # Off /\ buffer = <<>>
    BY <2>1 DEF AInv, ModeOK, Collected
  <2>3. Quiet
    BY <1>2, <2>1, ClearServes DEF AInv
  <2>4. InHands = {}
    <3>1. \A c \in Callers : pc[c] # "batch"
      BY <2>1 DEF Opened
    <3>2. \A c \in Callers : hand[c] = <<>>
      BY <3>1 DEF AInv, ModeOK
    <3>. QED  BY <3>2, EmptyRange, InHandsIs
  <2>5. InQueue = {} /\ Range(batch) = {} /\ Range(buffer) = {}
    BY <2>2, <2>3, EmptyRange DEF Quiet, InQueue
  <2>6. batched \subseteq Recoverable
    BY <2>2, <2>4, <2>5 DEF AInv, Collected
  <2>. QED  BY <1>0, <2>1, <2>6
<1>3. CASE acked' = acked
  BY <1>0, <1>3
<1>4. CASE /\ \A a \in Appenders : ~Return(a)
           /\ \A i \in Importers : ~Clear(i)
  <2>1. CASE Opening \/ Shutdown \/ Tick \/ Writing \/ Failing \/ Crash
    BY <1>3, <2>1, ModeWriting DEF Opening, Replay, FlushBlocks, SendRenew, Shutdown, Tick, Crash, histVars, AInv
  <2>2. ASSUME NEW a \in Appenders, Apply(a) \/ Appending(a) PROVE acked' = acked
    BY <1>4, <2>2 DEF Apply, Appending, Push, Aged, ReadEpoch, Send, histVars
  <2>3. ASSUME NEW c \in Callers, Flushing(c) PROVE acked' = acked
    BY <2>3 DEF Flushing, Take, SendBatch, SendFlush, Flushed, histVars
  <2>4. ASSUME NEW i \in Importers, Importing(i) PROVE acked' = acked
    BY <1>4, <2>4 DEF Importing, StartBatch, EndBatch, histVars
  <2>. QED  BY <1>3, <2>1, <2>2, <2>3, <2>4 DEF Next
<1>. QED  BY <1>1, <1>2, <1>4

LEMMA InitAInv == Init => AInv
<1>. SUFFICES ASSUME Init PROVE AInv
  OBVIOUS
<1>. USE CallerKinds, OwnerApart
<1>1. /\ pc[Owner] = "down" /\ \A c \in Callers \ {Owner} : pc[c] = "idle"
      /\ \A c \in Callers : hand[c] = <<>>
      /\ importing = {} /\ buffer = Off /\ batched = {} /\ acked = {} /\ answered = {}
  BY DEF Init
<1>2. ModeOK
  BY <1>1 DEF ModeOK
<1>. QED  BY <1>1, <1>2 DEF AInv, Healthy, LogServes, Collected, AckedSurvives, Opened

LEMMA StutterAInv ==
    ASSUME AInv, UNCHANGED vars
    PROVE  AInv'
<1>1. UNCHANGED <<flushed, files, live, cur, batch, task, step, error, observed, queue, answered,
                  buffer, hand, importing, pc, why, issued, acked, batched>>
  BY DEF vars, diskVars, writerVars, sharedVars, batchVars, callerVars, histVars
<1>2. /\ Recoverable' = Recoverable /\ InFiles' = InFiles /\ InQueue' = InQueue /\ InHands' = InHands
      /\ Quiet' = Quiet /\ Opened' = Opened
      /\ \A a \in Appenders : Op(a)' = Op(a) /\ EntryOf(a)' = EntryOf(a)
      /\ \A c \in Callers : Awaited(c)' = Awaited(c)
  BY <1>1 DEF Recoverable, Logged, InFiles, InQueue, InHands, Quiet, Opened, Op, EntryOf, Message, Awaited
<1>3. ModeOK' /\ Healthy' /\ Collected' /\ AckedSurvives'
  BY <1>1, <1>2 DEF AInv, ModeOK, Healthy, Collected, AckedSurvives
<1>4. \A a \in Appenders : OneEntry(a)' = OneEntry(a)
  BY <1>1, <1>2 DEF OneEntry
<1>5. LogServes'
  <2>1. Direct => Direct'
    BY <1>1, <1>2, <1>4 DEF Direct
  <2>2. Sent /\ Taken /\ Held => Sent' /\ Taken' /\ Held'
    BY <1>1, <1>2 DEF Sent, Taken, Held, FlushOf, Message
  <2>. QED  BY <1>1, <1>2, <2>1, <2>2 DEF AInv, LogServes
<1>. QED  BY <1>3, <1>5 DEF AInv

LEMMA NextAInv == Solo /\ IInv /\ AInv /\ [Next]_vars => AInv'
<1>. SUFFICES ASSUME Solo, IInv, AInv, [Next]_vars PROVE AInv'
  OBVIOUS
<1>1. CASE Next
  <2>. USE <1>1
  <2>0. ModeOK /\ Healthy /\ LogServes /\ Collected
    BY DEF AInv
  <2>1. ModeOK'
    BY <2>0, NextMode
  <2>2. Healthy'
    BY <2>0, NextHealthy
  <2>3. LogServes'
    BY <2>0, <2>1, NextServes
  <2>4. Collected'
    BY <2>0, <2>1, NextCollected
  <2>5. AckedSurvives'
    BY NextAcked
  <2>. QED  BY <2>1, <2>2, <2>3, <2>4, <2>5 DEF AInv
<1>2. CASE UNCHANGED vars
  BY <1>2, StutterAInv
<1>. QED  BY <1>1, <1>2

\* With one thread that appends and imports, an operation reported durable,
\* by append or by the end_batch of its import, is found again by the next
\* start whenever the process dies: while the checker thread flushes the same
\* buffer, in the middle of a rotation, of replay or of a renewal that fails.
THEOREM ReportedSurvives ==
    ASSUME \A a, b \in Appenders : a = b, Faults \subseteq {"renew"}
    PROVE  Spec => []AckedSurvives
<1>1. Solo
  BY DEF Solo
<1>2. IInv /\ AInv /\ [Next]_vars => AInv'
  BY <1>1, NextAInv
<1>3. AInv => AckedSurvives
  BY DEF AInv
<1>. QED  BY <1>2, <1>3, InitAInv, AlwaysIInv, PTL DEF Spec

=============================================================================
