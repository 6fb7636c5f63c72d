------------------------ MODULE BroadcastQueueProofs ------------------------
(***************************************************************************)
(* Proofs about the broadcast queue, for any number of workers, handlers,  *)
(* messages, failed appends and restarts, and files of any size: what      *)
(* enqueue took has arrived or can be read from a file, and messages first *)
(* arrive in the order in which they were queued.  Both hold while no      *)
(* request is served before the lists are rebuilt and no crash comes       *)
(* between the text of a line and its end.                                 *)
(***************************************************************************)
EXTENDS BroadcastQueue, FiniteSetTheorems, SequenceTheorems, WellFoundedInduction, TLAPS

-----------------------------------------------------------------------------
(***************************************************************************)
(* A finite set of numbers can be listed in order.                         *)
(***************************************************************************)
LEMMA MinimalElement ==
    ASSUME NEW R, NEW S, NEW T, T \subseteq S, T # {}, IsWellFoundedOn(R, S)
    PROVE  \E n \in T : \A m \in T : ~(<<m, n>> \in R)
BY WFMin, Zenon

LEMMA LeastBy ==
    ASSUME NEW R, NEW T \in SUBSET Nat, T # {}, IsWellFoundedOn(R, Nat),
           \A m, n \in Nat : m < n => <<m, n>> \in R
    PROVE  \E n \in T : \A m \in T : n <= m
<1>1. T \subseteq Nat
  OBVIOUS
<1>2. PICK n \in T : \A m \in T : ~(<<m, n>> \in R)
  BY <1>1, MinimalElement, Zenon
<1>3. ASSUME NEW m \in T PROVE n <= m
  <2>1. m \in Nat /\ n \in Nat
    OBVIOUS
  <2>2. ~(m < n)
    BY <1>2, <2>1, Zenon
  <2>. QED  BY <2>1, <2>2
<1>. QED  BY <1>3

LEMMA LeastNumber ==
    ASSUME NEW T \in SUBSET Nat, T # {}
    PROVE  \E n \in T : \A m \in T : n <= m
<1>1. \A m, n \in Nat : m < n => <<m, n>> \in OpToRel(<, Nat)
  BY DEF OpToRel
<1>. QED  BY <1>1, NatLessThanWellFounded, LeastBy, Zenon

Rising(q) == \A i, j \in DOMAIN q : i < j => q[i] < q[j]
Listing(S, q) == q \in SetToSeqs(S) /\ Rising(q)

\* The least element goes in front of a listing of the others.
LEMMA ListLeastFirst ==
    ASSUME NEW S \in SUBSET Nat, IsFiniteSet(S), NEW m \in S, \A k \in S : m <= k,
           NEW rest, Listing(S \ {m}, rest)
    PROVE  \E q : Listing(S, q)
<1>. DEFINE c == Cardinality(S)
            q == [i \in 1..c |-> IF i = 1 THEN m ELSE rest[i - 1]]
<1>1. c \in Nat /\ Cardinality(S \ {m}) = c - 1
  BY FS_CardinalityType, FS_RemoveElement
<1>2. /\ rest \in [1..(c - 1) -> S \ {m}]
      /\ \A i, j \in 1..(c - 1) : i # j => rest[i] # rest[j]
      /\ \A i, j \in 1..(c - 1) : i < j => rest[i] < rest[j]
  BY <1>1 DEF Listing, SetToSeqs, Rising
<1>. HIDE DEF c
<1>3. \A i \in 1..c : i # 1 => i - 1 \in 1..(c - 1)
  BY <1>1
<1>4. q \in [1..c -> S]
  BY <1>2, <1>3
<1>5. \A i, j \in 1..c : i # j => q[i] # q[j]
  BY <1>1, <1>2, <1>3
<1>6. ASSUME NEW i \in 1..c, NEW j \in 1..c, i < j PROVE q[i] < q[j]
  <2>1. j # 1 /\ j - 1 \in 1..(c - 1) /\ rest[j - 1] \in S \ {m}
    BY <1>1, <1>2, <1>6
  <2>2. CASE i = 1
    <3>1. /\ rest[j - 1] \in S /\ rest[j - 1] # m
          /\ rest[j - 1] \in Nat /\ m \in Nat
      BY <2>1
    <3>2. m <= rest[j - 1]
      BY <3>1
    <3>3. m < rest[j - 1]
      BY <3>1, <3>2
    <3>. QED  BY <2>1, <2>2, <3>3
  <2>3. CASE i # 1
    <3>1. i - 1 \in 1..(c - 1) /\ i - 1 < j - 1
      BY <1>1, <1>6, <2>3
    <3>. QED  BY <1>2, <2>1, <2>3, <3>1
  <2>. QED  BY <2>2, <2>3
<1>7. Listing(S, q)
  BY <1>4, <1>5, <1>6 DEF Listing, SetToSeqs, Rising, c
<1>. QED  BY <1>7

LEMMA ListingExists ==
    ASSUME NEW S \in SUBSET Nat, IsFiniteSet(S)
    PROVE  \E q : Listing(S, q)
<1>. DEFINE Unlisted(n) == \E T \in SUBSET Nat : /\ IsFiniteSet(T) /\ Cardinality(T) = n
                                                 /\ ~\E q : Listing(T, q)
            Bad == {n \in Nat : Unlisted(n)}
<1>1. ASSUME Bad # {} PROVE FALSE
  <2>1. PICK n \in Bad : \A k \in Bad : n <= k
    BY <1>1, LeastNumber
  <2>2. PICK T \in SUBSET Nat : IsFiniteSet(T) /\ Cardinality(T) = n /\ ~\E q : Listing(T, q)
    BY <2>1
  <2>3. CASE T = {}
    <3>1. Cardinality(T) = 0
      BY <2>3, FS_EmptySet
    <3>2. [i \in 1..0 |-> 0] \in SetToSeqs(T) /\ Rising([i \in 1..0 |-> 0])
      BY <3>1 DEF SetToSeqs, Rising
    <3>. QED  BY <2>2, <3>2 DEF Listing
  <2>4. CASE T # {}
    <3>1. PICK m \in T : \A k \in T : m <= k
      BY <2>4, LeastNumber
    <3>2. IsFiniteSet(T \ {m}) /\ Cardinality(T \ {m}) = n - 1 /\ n - 1 \in Nat
      <4>1. n # 0
        BY <2>2, <2>4, FS_EmptySet
      <4>. QED  BY <2>2, <4>1, FS_RemoveElement
    <3>3. n - 1 \notin Bad
      BY <2>1, <3>2
    <3>4. PICK rest : Listing(T \ {m}, rest)
      BY <3>2, <3>3
    <3>. QED  BY <2>2, <3>1, <3>4, ListLeastFirst
  <2>. QED  BY <2>3, <2>4
<1>2. Cardinality(S) \in Nat
  BY FS_CardinalityType
<1>. QED  BY <1>1, <1>2

LEMMA AscendingLists ==
    ASSUME NEW S \in SUBSET Nat, IsFiniteSet(S)
    PROVE  /\ Ascending(S) \in [1..Cardinality(S) -> S] /\ Cardinality(S) \in Nat
           /\ Rising(Ascending(S)) /\ Range(Ascending(S)) = S
<1>. DEFINE q == Ascending(S)
            c == Cardinality(S)
<1>1. \E p \in SetToSeqs(S) : Rising(p)
  BY ListingExists DEF Listing
<1>2. q \in SetToSeqs(S) /\ Rising(q)
  BY <1>1 DEF Ascending, Rising
<1>3. c \in Nat /\ q \in [1..c -> S] /\ \A i, j \in 1..c : i # j => q[i] # q[j]
  BY <1>2, FS_CardinalityType DEF SetToSeqs
<1>. HIDE DEF q
<1>4. q \in Injection(1..c, S)
  BY <1>3 DEF Injection, IsInjective
<1>5. Cardinality(1..c) = c
  BY <1>3, FS_Interval
<1>6. q \in Surjection(1..c, S)
  <2>. DEFINE D == 1..c
  <2>1. q \in Injection(D, S) /\ Cardinality(D) = Cardinality(S)
    BY <1>4, <1>5
  <2>. HIDE DEF D
  <2>2. q \in Surjection(D, S)
    BY <2>1, FS_Injection
  <2>. QED  BY <2>2 DEF D
<1>7. Range(q) = S
  <2>1. DOMAIN q = 1..c /\ \A i \in 1..c : q[i] \in S
    BY <1>3
  <2>2. \A s \in S : \E i \in 1..c : q[i] = s
    BY <1>6 DEF Surjection
  <2>. QED  BY <2>1, <2>2 DEF Range
<1>. QED  BY <1>2, <1>3, <1>7 DEF q

\* The numbers 1..n in order are themselves: the first that is not would be too
\* large, and so would every later one.
LEMMA AscendingInterval ==
    ASSUME NEW n \in Nat
    PROVE  Ascending(1..n) = [i \in 1..n |-> i]
<1>. DEFINE q == Ascending(1..n)
<1>1. 1..n \in SUBSET Nat /\ IsFiniteSet(1..n) /\ Cardinality(1..n) = n
  BY FS_Interval
<1>2. q \in [1..n -> 1..n] /\ Rising(q)
  BY <1>1, AscendingLists
<1>. HIDE DEF q
<1>3. \A i, j \in 1..n : i < j => q[i] < q[j]
  BY <1>2 DEF Rising
<1>4. \A i \in 1..n : i <= q[i]
  <2>. DEFINE Low == {i \in 1..n : q[i] < i}
  <2>1. ASSUME Low # {} PROVE FALSE
    <3>1. Low \in SUBSET Nat
      OBVIOUS
    <3>2. PICK i \in Low : \A j \in Low : i <= j
      BY <2>1, <3>1, LeastNumber
    <3>3. q[i] \in 1..n /\ q[i] < i /\ i \in 1..n
      BY <1>2, <3>2
    <3>4. q[q[i]] < q[i]
      BY <1>3, <3>3
    <3>5. q[i] \in Low
      BY <3>3, <3>4
    <3>. QED  BY <3>2, <3>3, <3>5
  <2>2. ASSUME NEW i \in 1..n PROVE i <= q[i]
    <3>1. ~(q[i] < i)
      BY <2>1
    <3>2. i \in Nat /\ q[i] \in Nat
      BY <1>2
    <3>. QED  BY <3>1, <3>2
  <2>. QED  BY <2>2
<1>5. \A i \in 1..n : q[i] <= i
  <2>. DEFINE High == {k \in 0..n : \E i \in 1..n : i = n - k /\ i < q[i]}
  <2>1. ASSUME High # {} PROVE FALSE
    <3>1. High \in SUBSET Nat
      OBVIOUS
    <3>2. PICK k \in High : \A l \in High : k <= l
      BY <2>1, <3>1, LeastNumber
    <3>3. PICK i \in 1..n : i = n - k /\ i < q[i]
      BY <3>2
    <3>4. q[i] \in 1..n
      BY <1>2
    <3>5. q[i] < q[q[i]]
      BY <1>3, <3>3, <3>4
    <3>6. n - q[i] \in 0..n /\ n - q[i] < k
      BY <3>2, <3>3, <3>4
    <3>7. n - q[i] \in High
      BY <3>4, <3>5, <3>6
    <3>. QED  BY <3>2, <3>6, <3>7
  <2>2. ASSUME NEW i \in 1..n, i < q[i] PROVE FALSE
    <3>1. n - i \in High
      BY <2>2
    <3>. QED  BY <2>1, <3>1
  <2>. QED  BY <1>2, <2>2
<1>6. \A i \in 1..n : q[i] = i
  <2>1. \A i \in 1..n : q[i] \in Int /\ i \in Int
    BY <1>2
  <2>. QED  BY <1>4, <1>5, <2>1
<1>. QED  BY <1>2, <1>6 DEF q

-----------------------------------------------------------------------------
(***************************************************************************)
(* The inductive invariant.  For one worker, F are its files, Q the list   *)
(* of them, E the messages queued for it and D those that arrived.         *)
(***************************************************************************)
Single == {line \in Seq(Messages) : Len(line) = 1}
FileStates == [lines : Seq(Single), open : BOOLEAN]
ProgressStates == [file : Nat, consumed : Nat, written : Nat]

Types ==
    /\ files \in [Nodes -> Seq(FileStates \cup {Gone})]
    /\ queue \in [Nodes -> Seq(ProgressStates)]
    /\ queued \in [Nodes -> Seq(Messages)] /\ delivered \in [Nodes -> Seq(Messages)]
    /\ sent \in [Handlers -> 0..MaxMessages]
    /\ phase \in {"scan", "read", "visit", "deliver", "count"}
    /\ round \subseteq Nodes

Existing(F) == {k \in DOMAIN F : F[k] # Gone}
Says(F, k, i) == F[k].lines[i][1]

\* The text of a line that is being written, which nobody has read.
Loose(F, k, i) == F[k].open /\ i = Len(F[k].lines)

\* The list of a worker names files that exist, oldest first.
ListOK(F, Q) ==
    /\ \A p \in DOMAIN Q : Q[p].file \in Existing(F)
    /\ \A p, q \in DOMAIN Q : p < q => Q[p].file < Q[q].file

Listed(F, Q) == \A k \in Existing(F) : \E p \in DOMAIN Q : Q[p].file = k

Once(E) == \A a, b \in DOMAIN E : a # b => E[a] # E[b]

\* What stands in the files was queued, in the order in which it stands.
Placed(F, E) ==
    \A k \in Existing(F) : \A i \in DOMAIN F[k].lines :
        Loose(F, k, i) \/ Says(F, k, i) \in Range(E)

Before(k, i, l, j) == k < l \/ (k = l /\ i < j)

InFileOrder(F, E) ==
    \A k, l \in Existing(F) : \A i \in DOMAIN F[k].lines, j \in DOMAIN F[l].lines :
        Before(k, i, l, j)
        => \A a, b \in DOMAIN E : E[a] = Says(F, k, i) /\ E[b] = Says(F, l, j) => a < b

\* What was queued has arrived or stands in a file.
Kept(F, E, D) ==
    \A a \in DOMAIN E :
        \/ E[a] \in Range(D)
        \/ \E k \in Existing(F) : \E i \in DOMAIN F[k].lines : E[a] = Says(F, k, i)

\* What counts as consumed has arrived.
Consumed(F, Q, D) ==
    \A p \in DOMAIN Q : \A i \in 1..Q[p].consumed :
        i \in DOMAIN F[Q[p].file].lines /\ Says(F, Q[p].file, i) \in Range(D)

InTurn(E, D) ==
    \A i, j \in DOMAIN E, d \in DOMAIN D :
        i < j /\ D[d] = E[j] => \E c \in 1..(d - 1) : D[c] = E[i]

WorkerOK(F, Q, E, D) ==
    /\ ListOK(F, Q) /\ Once(E)
    /\ Placed(F, E) /\ InFileOrder(F, E)
    /\ Range(D) \subseteq Range(E) /\ Kept(F, E, D) /\ Consumed(F, Q, D) /\ InTurn(E, D)

Workers == \A n \in Nodes : WorkerOK(files[n], queue[n], queued[n], delivered[n])

\* Messages are numbered, and the one that is being appended is a new one.
Numbered ==
    \A n \in Nodes : \A a \in DOMAIN queued[n] :
        /\ queued[n][a][2] <= sent[queued[n][a][1]]
        /\ pen # NoPen => queued[n][a] # Entry

\* An append goes to the last file of the list; no other file has an open line.
PenOK ==
    pen # NoPen =>
        /\ pen \in [by : Handlers, node : Nodes, stage : {"text", "newline"}]
        /\ sent[pen.by] \in 1..MaxMessages
        /\ phase \notin {"scan", "read"}
        /\ queue[pen.node] # <<>>
        /\ pen.stage = "newline" =>
              LET f == files[pen.node][Current]
              IN  f.lines # <<>> /\ Last(f.lines)[1] = Entry

OneOpen ==
    \A n \in Nodes : \A k \in Existing(files[n]) :
        files[n][k].open = (pen # NoPen /\ pen.stage = "newline" /\ pen.node = n /\ k = Current)

\* Where the rebuild stands.
Rebuild ==
    /\ phase \in {"scan", "read"} => \A n \in Nodes : queue[n] = <<>>
    /\ phase = "scan" => found = {}
    /\ phase = "read" =>
          /\ found \cap listed = {} /\ found \cup listed \subseteq Nodes \X Nat
          /\ \A n \in Nodes, k \in Nat : k \in Existing(files[n]) <=> <<n, k>> \in found \cup listed
    /\ phase \notin {"scan", "read"} => \A n \in Nodes : Listed(files[n], queue[n])

\* What is in hand is the first entry of the worker that does not count as consumed.
HandOK ==
    phase \in {"deliver", "count"} =>
        /\ target \in Nodes /\ queue[target] # <<>>
        /\ LET k == queue[target][1].file
               i == queue[target][1].consumed + 1
           IN  /\ i \in DOMAIN files[target][k].lines
               /\ hand = Says(files[target], k, i)
               /\ hand \in Range(queued[target])
               /\ phase = "count" => hand \in Range(delivered[target])

IInv == Types /\ Workers /\ Numbered /\ PenOK /\ OneOpen /\ Rebuild /\ HandOK

-----------------------------------------------------------------------------
(***************************************************************************)
(* What the types give.                                                    *)
(***************************************************************************)
LEMMA NotGone ==
    ASSUME NEW f \in FileStates
    PROVE  f # Gone
<1>1. f.lines \in Seq(Single) /\ f.open \in BOOLEAN /\ f = [lines |-> f.lines, open |-> f.open]
  BY DEF FileStates
<1>2. \A i \in DOMAIN f.lines : f.lines[i] \in Seq(Messages)
  BY <1>1 DEF Single
<1>3. f.lines \in Seq(Seq(Messages))
  BY <1>1, <1>2
<1>. QED  BY <1>1, <1>3, BroadcastQueueAssumption

LEMMA LineOf ==
    ASSUME NEW e \in Messages
    PROVE  <<e>> \in Single /\ <<e>>[1] = e
BY DEF Single

LEMMA FileFacts ==
    ASSUME NEW F \in Seq(FileStates \cup {Gone}), NEW k \in Existing(F)
    PROVE  /\ k \in Nat /\ k \in 1..Len(F) /\ F[k] \in FileStates
           /\ F[k].lines \in Seq(Single) /\ F[k].open \in BOOLEAN
           /\ DOMAIN F[k].lines = 1..Len(F[k].lines) /\ Len(F[k].lines) \in Nat
           /\ \A i \in DOMAIN F[k].lines : Says(F, k, i) \in Messages
<1>1. k \in 1..Len(F) /\ F[k] \in FileStates
  BY DEF Existing
<1>2. F[k].lines \in Seq(Single) /\ F[k].open \in BOOLEAN
  BY <1>1 DEF FileStates
<1>3. \A i \in DOMAIN F[k].lines : F[k].lines[i] \in Single
  BY <1>2
<1>4. \A x \in Single : x[1] \in Messages
  BY DEF Single
<1>. QED  BY <1>1, <1>2, <1>3, <1>4 DEF Says

\* Every line of a file holds one entry, so the entries are the lines.
LEMMA EntriesAreLines ==
    ASSUME Types, NEW n \in Nodes, NEW k \in Existing(files[n])
    PROVE  /\ Content(n, k) = files[n][k].lines /\ LineCount(n, k) = Len(files[n][k].lines)
           /\ DOMAIN Entries(n, k) = 1..Len(files[n][k].lines)
           /\ \A i \in 1..Len(files[n][k].lines) : Entries(n, k)[i] = Says(files[n], k, i)
<1>. DEFINE L == files[n][k].lines
<1>1. files[n] \in Seq(FileStates \cup {Gone})
  BY DEF Types
<1>2. L \in Seq(Single) /\ Len(L) \in Nat /\ DOMAIN L = 1..Len(L)
  BY <1>1, FileFacts
<1>3. Content(n, k) = L
  BY DEF Content, Existing
<1>4. LineCount(n, k) = Len(L)
  BY <1>3 DEF LineCount
<1>5. \A i \in DOMAIN L : Len(L[i]) = 1
  <2>1. \A i \in DOMAIN L : L[i] \in Single
    BY <1>2
  <2>. QED  BY <2>1 DEF Single
<1>. HIDE DEF L
<1>6. {i \in DOMAIN L : Len(L[i]) = 1} = 1..Len(L)
  BY <1>2, <1>5
<1>7. Ascending(1..Len(L)) = [i \in 1..Len(L) |-> i]
  BY <1>2, AscendingInterval
<1>8. Entries(n, k) = [j \in 1..Len(L) |-> L[[i \in 1..Len(L) |-> i][j]][1]]
  BY <1>3, <1>6, <1>7 DEF Entries
<1>. QED  BY <1>3, <1>4, <1>8 DEF L, Says

-----------------------------------------------------------------------------
(***************************************************************************)
(* What a step does to one worker.                                         *)
(***************************************************************************)
\* A file with one line more, e, which is not ended.
OneMore(f, g, e) ==
    /\ g.open /\ Len(g.lines) = Len(f.lines) + 1 /\ g.lines[Len(g.lines)][1] = e
    /\ \A i \in 1..Len(f.lines) : g.lines[i] = f.lines[i]

LEMMA WithTextAdds ==
    ASSUME NEW f \in FileStates, ~f.open, Entry \in Messages
    PROVE  WithText(f) \in FileStates /\ OneMore(f, WithText(f), Entry)
<1>. DEFINE line == <<Entry>>
            more == Append(f.lines, line)
<1>1. line \in Single /\ line[1] = Entry
  BY LineOf
<1>2. f.lines \in Seq(Single)
  BY DEF FileStates
<1>3. WithText(f) = [lines |-> more, open |-> TRUE]
  BY DEF WithText
<1>. HIDE DEF line
<1>4. /\ more \in Seq(Single) /\ Len(more) = Len(f.lines) + 1
      /\ more[Len(f.lines) + 1] = line /\ \A i \in 1..Len(f.lines) : more[i] = f.lines[i]
  BY <1>1, <1>2, AppendProperties
<1>. HIDE DEF more
<1>. QED  BY <1>1, <1>3, <1>4 DEF FileStates, OneMore

\* Text at the end of a file, which nobody has queued yet.
LEMMA TextIsPlaced ==
    ASSUME NEW F \in Seq(FileStates \cup {Gone}), NEW Q, NEW E, NEW D,
           WorkerOK(F, Q, E, D),
           NEW k \in Existing(F), ~F[k].open, NEW e, e \notin Range(E),
           NEW f \in FileStates, OneMore(F[k], f, e)
    PROVE  LET G == [F EXCEPT ![k] = f]
           IN  /\ G \in Seq(FileStates \cup {Gone}) /\ Existing(G) = Existing(F)
               /\ G[k] = f /\ \A l \in Existing(F) \ {k} : G[l] = F[l]
               /\ \A l \in Existing(F) : \A i \in DOMAIN F[l].lines :
                      i \in DOMAIN G[l].lines /\ Says(G, l, i) = Says(F, l, i)
               /\ WorkerOK(G, Q, E, D)
<1>. DEFINE G == [F EXCEPT ![k] = f]
            lines == F[k].lines
            more == f.lines
<1>2. lines \in Seq(Single) /\ Len(lines) \in Nat /\ DOMAIN lines = 1..Len(lines) /\ k \in 1..Len(F)
  BY FileFacts
<1>3. /\ Len(more) = Len(lines) + 1 /\ DOMAIN more = 1..(Len(lines) + 1)
      /\ more[Len(lines) + 1][1] = e /\ \A i \in 1..Len(lines) : more[i] = lines[i]
  <2>1. more \in Seq(Single)
    BY DEF FileStates
  <2>. QED  BY <1>2, <2>1 DEF OneMore
<1>5. f # Gone /\ f.open
  BY NotGone DEF OneMore
<1>7. /\ G \in Seq(FileStates \cup {Gone}) /\ DOMAIN G = DOMAIN F
      /\ G[k] = f /\ \A l \in DOMAIN F \ {k} : G[l] = F[l]
  BY <1>2
<1>. HIDE DEF G
<1>8. Existing(G) = Existing(F)
  BY <1>2, <1>5, <1>7 DEF Existing
<1>9. \A l \in Existing(F) \ {k} : G[l] = F[l]
  BY <1>7 DEF Existing
<1>10. \A l \in Existing(F) : \A i \in DOMAIN F[l].lines :
          i \in DOMAIN G[l].lines /\ Says(G, l, i) = Says(F, l, i)
  <2>1. \A i \in DOMAIN lines : i \in DOMAIN more /\ more[i] = lines[i]
    BY <1>2, <1>3
  <2>. QED  BY <1>7, <1>9, <2>1 DEF Says
<1>11. \A l \in Existing(F) : \A i \in DOMAIN G[l].lines :
          \/ i \in DOMAIN F[l].lines
          \/ l = k /\ Loose(G, l, i) /\ Says(G, l, i) = e
  BY <1>2, <1>3, <1>5, <1>7, <1>9 DEF Says, Loose
<1>12. \A l \in Existing(F) : \A i \in DOMAIN F[l].lines : Loose(F, l, i) => Loose(G, l, i)
  BY <1>9 DEF Loose
<1>13. Placed(G, E)
  <2>1. Placed(F, E)
    BY DEF WorkerOK
  <2>2. ASSUME NEW l \in Existing(F), NEW i \in DOMAIN G[l].lines
        PROVE  Loose(G, l, i) \/ Says(G, l, i) \in Range(E)
    <3>1. CASE i \in DOMAIN F[l].lines
      BY <2>1, <3>1, <1>10, <1>12 DEF Placed
    <3>. QED  BY <1>11, <3>1
  <2>. QED  BY <1>8, <2>2 DEF Placed
<1>14. InFileOrder(G, E)
  <2>1. InFileOrder(F, E)
    BY DEF WorkerOK
  <2>2. ASSUME NEW l \in Existing(F), NEW m \in Existing(F),
               NEW i \in DOMAIN G[l].lines, NEW j \in DOMAIN G[m].lines,
               Before(l, i, m, j), NEW a \in DOMAIN E, NEW b \in DOMAIN E,
               E[a] = Says(G, l, i), E[b] = Says(G, m, j)
        PROVE  a < b
    <3>1. E[a] # e /\ E[b] # e
      BY DEF Range
    <3>2. i \in DOMAIN F[l].lines /\ j \in DOMAIN F[m].lines
      BY <1>11, <2>2, <3>1
    <3>3. E[a] = Says(F, l, i) /\ E[b] = Says(F, m, j)
      BY <1>10, <2>2, <3>2
    <3>. QED  BY <2>1, <2>2, <3>2, <3>3 DEF InFileOrder
  <2>. QED  BY <1>8, <2>2 DEF InFileOrder
<1>15. Kept(G, E, D) /\ ListOK(G, Q)
  BY <1>8, <1>10 DEF WorkerOK, Kept, ListOK
<1>16. Consumed(G, Q, D)
  <2>1. \A p \in DOMAIN Q : Q[p].file \in Existing(F)
    BY DEF WorkerOK, ListOK
  <2>. QED  BY <2>1, <1>10 DEF WorkerOK, Consumed
<1>. QED  BY <1>7, <1>8, <1>9, <1>10, <1>13, <1>14, <1>15, <1>16 DEF WorkerOK, G

LEMMA ProgressCounts ==
    ASSUME NEW x \in ProgressStates
    PROVE  LET written == [x EXCEPT !.written = @ + 1]
               consumed == [x EXCEPT !.consumed = @ + 1]
           IN  /\ written \in ProgressStates
               /\ written.file = x.file /\ written.consumed = x.consumed
               /\ consumed \in ProgressStates
               /\ consumed.file = x.file /\ consumed.consumed = x.consumed + 1
BY DEF ProgressStates

LEMMA SameLines ==
    ASSUME NEW F, NEW G, NEW E,
           Existing(G) = Existing(F), \A l \in Existing(F) : G[l].lines = F[l].lines,
           InFileOrder(F, E)
    PROVE  InFileOrder(G, E)
<1>1. \A l \in Existing(F) : \A i : Says(G, l, i) = Says(F, l, i)
  BY DEF Says
<1>. QED  BY <1>1 DEF InFileOrder

\* The list does not tell how much was written.
LEMMA SameProgress ==
    ASSUME NEW F, NEW G, NEW Q, NEW P, NEW D,
           DOMAIN P = DOMAIN Q,
           \A p \in DOMAIN Q : P[p].file = Q[p].file /\ P[p].consumed = Q[p].consumed,
           Existing(G) = Existing(F), \A l \in Existing(F) : G[l].lines = F[l].lines,
           ListOK(F, Q), Consumed(F, Q, D)
    PROVE  ListOK(G, P) /\ Consumed(G, P, D) /\ (Listed(F, Q) => Listed(G, P))
<1>1. ListOK(G, P)
  BY DEF ListOK
<1>2. Consumed(G, P, D)
  BY DEF ListOK, Consumed, Says
<1>3. Listed(F, Q) => Listed(G, P)
  BY DEF Listed
<1>. QED  BY <1>1, <1>2, <1>3

OnlyOpen(F, k) == \A l \in Existing(F) : F[l].open = (l = k)
Ended(F, k) == [F EXCEPT ![k].open = FALSE]
Written(Q) == [Q EXCEPT ![Len(Q)].written = @ + 1]

IsQueued(F, D, G, P, R) ==
    /\ G \in Seq(FileStates \cup {Gone}) /\ P \in Seq(ProgressStates) /\ R \in Seq(Messages)
    /\ Existing(G) = Existing(F)
    /\ \A l \in Existing(F) : G[l].lines = F[l].lines /\ ~G[l].open
    /\ WorkerOK(G, P, R, D) /\ Listed(G, P)

\* The end of the line: the message is queued now, the last one of the worker.
LEMMA LineIsQueued ==
    ASSUME NEW F \in Seq(FileStates \cup {Gone}), NEW Q \in Seq(ProgressStates),
           NEW E \in Seq(Messages), NEW D \in Seq(Messages),
           WorkerOK(F, Q, E, D), Listed(F, Q), Q # <<>>,
           NEW k, k = Q[Len(Q)].file, F[k].lines # <<>>,
           OnlyOpen(F, k),
           NEW e \in Messages, e = Says(F, k, Len(F[k].lines)), e \notin Range(E)
    PROVE  IsQueued(F, D, Ended(F, k), Written(Q), Append(E, e))
<1>. DEFINE G == Ended(F, k)
            P == Written(Q)
            R == Append(E, e)
            n == Len(E) + 1
<1>1. /\ Len(Q) \in DOMAIN Q /\ DOMAIN Q = 1..Len(Q) /\ Len(Q) \in Nat
      /\ \A p \in DOMAIN Q : Q[p] \in ProgressStates
  BY EmptySeq, LenProperties
<1>2. /\ P \in Seq(ProgressStates) /\ DOMAIN P = DOMAIN Q
      /\ \A p \in DOMAIN Q : P[p].file = Q[p].file /\ P[p].consumed = Q[p].consumed
  <2>. DEFINE last == Q[Len(Q)]
              q == [last EXCEPT !.written = @ + 1]
  <2>1. q \in ProgressStates /\ q.file = Q[Len(Q)].file /\ q.consumed = Q[Len(Q)].consumed
    <3>1. last \in ProgressStates
      BY <1>1
    <3>. QED  BY <3>1, ProgressCounts
  <2>2. P = [Q EXCEPT ![Len(Q)] = q]
    BY DEF Written
  <2>. HIDE DEF q, P
  <2>3. P \in Seq(ProgressStates)
    BY <1>1, <2>1, <2>2
  <2>. QED  BY <1>1, <2>1, <2>2, <2>3
<1>3. /\ R \in Seq(Messages) /\ Len(E) \in Nat /\ DOMAIN E = 1..Len(E) /\ DOMAIN R = 1..n /\ n = Len(E) + 1
      /\ R[n] = e /\ \A a \in DOMAIN E : R[a] = E[a]
  BY AppendProperties, LenProperties
<1>4. k \in Existing(F) /\ k \in 1..Len(F) /\ F[k] \in FileStates
  BY <1>1, FileFacts DEF WorkerOK, ListOK
<1>. DEFINE f == [F[k] EXCEPT !.open = FALSE]
<1>5. f \in FileStates /\ f # Gone /\ f.lines = F[k].lines /\ ~f.open
  BY <1>4, NotGone DEF FileStates
<1>6. /\ G \in Seq(FileStates \cup {Gone}) /\ DOMAIN G = DOMAIN F
      /\ G[k] = f /\ \A l \in DOMAIN F \ {k} : G[l] = F[l]
  <2>1. G = [F EXCEPT ![k] = f]
    BY DEF Ended
  <2>. HIDE DEF f, G
  <2>. QED  BY <1>4, <1>5, <2>1
<1>. HIDE DEF f
<1>7. Existing(G) = Existing(F)
  BY <1>4, <1>5, <1>6 DEF Existing
<1>8. \A l \in Existing(F) : G[l].lines = F[l].lines /\ ~G[l].open
  <2>. HIDE DEF G
  <2>1. \A l \in Existing(F) : l # k => G[l] = F[l] /\ ~F[l].open
    BY <1>6 DEF Existing, OnlyOpen
  <2>. QED  BY <1>5, <1>6, <2>1
<1>. HIDE DEF G, P, R, f, n
<1>9. \A l \in Existing(F) : \A i : Says(G, l, i) = Says(F, l, i)
  BY <1>8 DEF Says
<1>10. Range(R) = Range(E) \cup {e}
  <2>1. DOMAIN R = DOMAIN E \cup {n}
    BY <1>3
  <2>2. R[n] = e /\ \A a \in DOMAIN E : R[a] = E[a]
    BY <1>3
  <2>. QED  BY <2>1, <2>2 DEF Range
<1>11. \A l \in Existing(F) : l <= k /\ l \in Nat
  <2>1. ASSUME NEW l \in Existing(F) PROVE l <= k /\ l \in Nat
    <3>1. PICK p \in DOMAIN Q : Q[p].file = l
      BY DEF Listed
    <3>2. p <= Len(Q) /\ p \in Nat
      BY <1>1
    <3>3. p < Len(Q) => l < k
      BY <1>1, <3>1 DEF WorkerOK, ListOK
    <3>4. l \in Nat /\ k \in Nat
      BY <1>1, <3>1 DEF ProgressStates
    <3>. QED  BY <1>1, <3>1, <3>2, <3>3, <3>4
  <2>. QED  BY <2>1
<1>12. \A l \in Existing(F) : \A i \in DOMAIN F[l].lines :
          \/ Says(F, l, i) \in Range(E)
          \/ l = k /\ i = Len(F[k].lines)
  BY DEF WorkerOK, Placed, Loose, OnlyOpen
<1>13. Placed(G, R)
  <2>1. \A l \in Existing(F) : \A i \in DOMAIN F[l].lines : Says(F, l, i) \in Range(R)
    BY <1>10, <1>12
  <2>. QED  BY <1>7, <1>8, <1>9, <2>1 DEF Placed
<1>14. InFileOrder(G, R)
  <2>1. InFileOrder(F, E)
    BY DEF WorkerOK
  <2>2. ASSUME NEW l \in Existing(F), NEW m \in Existing(F),
               NEW i \in DOMAIN F[l].lines, NEW j \in DOMAIN F[m].lines,
               Before(l, i, m, j), NEW a \in DOMAIN R, NEW b \in DOMAIN R,
               R[a] = Says(F, l, i), R[b] = Says(F, m, j)
        PROVE  a < b
    <3>1. i \in Nat /\ j \in Nat /\ j <= Len(F[m].lines) /\ Len(F[m].lines) \in Nat
      <4>1. DOMAIN F[l].lines = 1..Len(F[l].lines) /\ Len(F[l].lines) \in Nat
        BY FileFacts
      <4>2. DOMAIN F[m].lines = 1..Len(F[m].lines) /\ Len(F[m].lines) \in Nat
        BY FileFacts
      <4>. QED  BY <2>2, <4>1, <4>2
    <3>2. ~(l = k /\ i = Len(F[k].lines))
      BY <1>4, <1>11, <2>2, <3>1 DEF Before
    <3>3. R[a] \in Range(E)
      BY <1>12, <2>2, <3>2
    <3>4. a # n
      BY <1>3, <3>3
    <3>5. a \in DOMAIN E /\ R[a] = E[a] /\ a < n
      BY <1>3, <3>4
    <3>6. CASE b = n
      BY <3>5, <3>6
    <3>7. CASE b # n
      <4>1. b \in DOMAIN E /\ R[b] = E[b]
        <5>1. b \in 1..n /\ Len(E) \in Nat /\ n = Len(E) + 1
          BY <1>3, <2>2
        <5>2. b \in 1..Len(E)
          BY <3>7, <5>1
        <5>. QED  BY <1>3, <5>2
      <4>2. \A x, y \in DOMAIN E : E[x] = Says(F, l, i) /\ E[y] = Says(F, m, j) => x < y
        BY <2>1, <2>2 DEF InFileOrder
      <4>. QED  BY <2>2, <3>5, <4>1, <4>2
    <3>. QED  BY <3>6, <3>7
  <2>3. InFileOrder(F, R)
    BY <2>2 DEF InFileOrder
  <2>. QED  BY <1>7, <1>8, <2>3, SameLines
<1>15. Kept(G, R, D)
  <2>1. Len(F[k].lines) \in DOMAIN F[k].lines
    <3>1. F[k].lines \in Seq(Single)
      BY <1>4, FileFacts
    <3>. QED  BY <3>1, EmptySeq, LenProperties
  <2>2. ASSUME NEW a \in DOMAIN R
        PROVE  \/ R[a] \in Range(D)
               \/ \E l \in Existing(F) : \E i \in DOMAIN F[l].lines : R[a] = Says(F, l, i)
    <3>1. CASE a = n
      BY <1>3, <1>4, <2>1, <3>1
    <3>2. CASE a # n
      <4>1. a \in DOMAIN E /\ R[a] = E[a]
        BY <1>3, <3>2
      <4>. QED  BY <4>1 DEF WorkerOK, Kept
    <3>. QED  BY <3>1, <3>2
  <2>. QED  BY <1>7, <1>8, <1>9, <2>2 DEF Kept
<1>16. ListOK(G, P) /\ Listed(G, P) /\ Consumed(G, P, D)
  <2>1. ListOK(F, Q) /\ Consumed(F, Q, D)
    BY DEF WorkerOK
  <2>. QED  BY <1>2, <1>7, <1>8, <2>1, SameProgress
<1>18. Once(R)
  <2>1. \A a \in DOMAIN E : E[a] # e
    BY DEF Range
  <2>2. \A a, b \in DOMAIN E : a # b => E[a] # E[b]
    BY DEF WorkerOK, Once
  <2>3. \A a \in DOMAIN R : a = n \/ a \in DOMAIN E
    BY <1>3
  <2>. QED  BY <1>3, <2>1, <2>2, <2>3 DEF Once
<1>19. InTurn(R, D)
  <2>1. ASSUME NEW i \in DOMAIN R, NEW j \in DOMAIN R, NEW d \in DOMAIN D, i < j, D[d] = R[j]
        PROVE  \E c \in 1..(d - 1) : D[c] = R[i]
    <3>1. D[d] \in Range(E)
      BY DEF WorkerOK, Range
    <3>2. j # n
      BY <1>3, <2>1, <3>1
    <3>3. i \in DOMAIN E /\ j \in DOMAIN E /\ R[i] = E[i] /\ R[j] = E[j]
      BY <1>3, <2>1, <3>2
    <3>. QED  BY <2>1, <3>3 DEF WorkerOK, InTurn
  <2>. QED  BY <2>1 DEF InTurn
<1>20. Range(D) \subseteq Range(R)
  BY <1>10 DEF WorkerOK
<1>. QED
  BY <1>2, <1>3, <1>6, <1>7, <1>8, <1>13, <1>14, <1>15, <1>16, <1>18, <1>19, <1>20
  DEF WorkerOK, IsQueued, G, P, R

\* A new file, which is the last of the list.
LEMMA FileIsOpened ==
    ASSUME NEW F \in Seq(FileStates \cup {Gone}), NEW Q \in Seq(ProgressStates), NEW E, NEW D,
           WorkerOK(F, Q, E, D), Listed(F, Q),
           NEW f \in FileStates, DOMAIN f.lines = {},
           NEW x \in ProgressStates, x.file = Len(F) + 1, x.consumed = 0
    PROVE  LET G == Append(F, f)
               P == Append(Q, x)
           IN  /\ G \in Seq(FileStates \cup {Gone}) /\ P \in Seq(ProgressStates)
               /\ Existing(G) = Existing(F) \cup {Len(F) + 1}
               /\ G[Len(F) + 1] = f /\ \A k \in Existing(F) : G[k] = F[k]
               /\ P # <<>> /\ P[Len(P)] = x /\ Len(F) + 1 \notin Existing(F)
               /\ \A p \in DOMAIN Q : p \in DOMAIN P /\ P[p] = Q[p]
               /\ WorkerOK(G, P, E, D) /\ Listed(G, P)
<1>. DEFINE G == Append(F, f)
            P == Append(Q, x)
            n == Len(F) + 1
            last == Len(Q) + 1
<1>1. /\ G \in Seq(FileStates \cup {Gone}) /\ DOMAIN F = 1..Len(F) /\ Len(F) \in Nat
      /\ DOMAIN G = 1..n /\ G[n] = f /\ \A k \in DOMAIN F : G[k] = F[k]
  BY AppendProperties, LenProperties
<1>2. /\ P \in Seq(ProgressStates) /\ DOMAIN Q = 1..Len(Q) /\ Len(Q) \in Nat
      /\ DOMAIN P = 1..last /\ P[last] = x /\ \A p \in DOMAIN Q : P[p] = Q[p]
      /\ Len(P) = last
  BY AppendProperties, LenProperties
<1>3. P # <<>>
  BY <1>2, LenProperties, EmptySeq
<1>4. DOMAIN G = DOMAIN F \cup {n} /\ n \notin DOMAIN F
  BY <1>1
<1>5. /\ DOMAIN P = DOMAIN Q \cup {last} /\ last \notin DOMAIN Q
      /\ last \in Nat /\ \A p \in DOMAIN Q : p < last /\ p \in Nat
  BY <1>2
<1>6. \A k \in DOMAIN F : k < n
  BY <1>1
<1>7. x.file = n
  OBVIOUS
<1>. HIDE DEF G, P, n, last
<1>8. f # Gone
  BY NotGone
<1>9. Existing(G) = Existing(F) \cup {n} /\ n \notin Existing(F)
  BY <1>1, <1>4, <1>8 DEF Existing
<1>10. \A k \in Existing(F) : G[k] = F[k]
  BY <1>1 DEF Existing
<1>11. ListOK(G, P)
  <2>1. \A p \in DOMAIN P : P[p].file \in Existing(G)
    BY <1>2, <1>5, <1>7, <1>9 DEF WorkerOK, ListOK
  <2>2. ASSUME NEW p \in DOMAIN P, NEW q \in DOMAIN P, p < q PROVE P[p].file < P[q].file
    <3>1. p \in DOMAIN Q
      <4>1. p # last
        BY <1>5, <2>2
      <4>. QED  BY <1>5, <4>1
    <3>2. Q[p].file \in Existing(F) /\ P[p] = Q[p]
      BY <1>2, <3>1 DEF WorkerOK, ListOK
    <3>3. CASE q = last
      BY <1>2, <1>6, <1>7, <3>2, <3>3 DEF Existing
    <3>4. CASE q # last
      <4>1. q \in DOMAIN Q /\ P[q] = Q[q]
        BY <1>2, <1>5, <3>4
      <4>. QED  BY <2>2, <3>1, <3>2, <4>1 DEF WorkerOK, ListOK
    <3>. QED  BY <3>3, <3>4
  <2>. QED  BY <2>1, <2>2 DEF ListOK
<1>12. Listed(G, P)
  <2>1. ASSUME NEW k \in Existing(G) PROVE \E p \in DOMAIN P : P[p].file = k
    <3>1. CASE k = n
      BY <1>2, <1>5, <1>7, <3>1
    <3>2. CASE k # n
      <4>1. PICK p \in DOMAIN Q : Q[p].file = k
        BY <1>9, <3>2 DEF Listed
      <4>. QED  BY <1>2, <1>5, <4>1
    <3>. QED  BY <3>1, <3>2
  <2>. QED  BY <2>1 DEF Listed
<1>13. Consumed(G, P, D)
  <2>1. ASSUME NEW p \in DOMAIN P, NEW i \in 1..P[p].consumed
        PROVE  i \in DOMAIN G[P[p].file].lines /\ Says(G, P[p].file, i) \in Range(D)
    <3>1. p # last
      BY <1>2, <2>1
    <3>2. p \in DOMAIN Q /\ P[p] = Q[p]
      BY <1>2, <1>5, <3>1
    <3>3. G[P[p].file] = F[Q[p].file]
      BY <1>10, <3>2 DEF WorkerOK, ListOK
    <3>. QED  BY <2>1, <3>2, <3>3 DEF WorkerOK, Consumed, Says
  <2>. QED  BY <2>1 DEF Consumed
<1>14. \A k \in Existing(G) : \A i \in DOMAIN G[k].lines :
           k \in Existing(F) /\ G[k] = F[k] /\ i \in DOMAIN F[k].lines
  BY <1>1, <1>9, <1>10
<1>15. Placed(G, E)
  BY <1>14 DEF WorkerOK, Placed, Says, Loose
<1>16. InFileOrder(G, E)
  <2>1. InFileOrder(F, E)
    BY DEF WorkerOK
  <2>. QED  BY <1>14, <2>1 DEF InFileOrder, Says
<1>17. Kept(G, E, D)
  BY <1>9, <1>10 DEF WorkerOK, Kept, Says
<1>. QED
  BY <1>1, <1>2, <1>3, <1>5, <1>9, <1>10, <1>11, <1>12, <1>13, <1>15, <1>16, <1>17
  DEF WorkerOK, G, P, n

Without(F, S) == [k \in DOMAIN F |-> IF k \in S THEN Gone ELSE F[k]]
AllArrived(F, S, D) ==
    \A k \in Existing(F) \cap S : \A i \in DOMAIN F[k].lines : Says(F, k, i) \in Range(D)

Remain(F, S, E, D, G) ==
    /\ G \in Seq(FileStates \cup {Gone})
    /\ Existing(G) = Existing(F) \ S /\ \A k \in Existing(G) : G[k] = F[k]
    /\ Placed(G, E) /\ InFileOrder(G, E) /\ Kept(G, E, D)

\* Files go of which everything has arrived.
LEMMA FilesGo ==
    ASSUME NEW F \in Seq(FileStates \cup {Gone}), NEW E, NEW D, NEW S,
           Placed(F, E), InFileOrder(F, E), Kept(F, E, D),
           AllArrived(F, S, D)
    PROVE  Remain(F, S, E, D, Without(F, S))
<1>. DEFINE G == Without(F, S)
<1>1. /\ DOMAIN F = 1..Len(F) /\ Len(F) \in Nat
      /\ \A k \in DOMAIN F : F[k] \in FileStates \cup {Gone}
  BY LenProperties
<1>2. Existing(G) = Existing(F) \ S /\ \A k \in Existing(G) : G[k] = F[k]
  BY DEF Existing, Without
<1>3. G \in Seq(FileStates \cup {Gone})
  <2>1. \A k \in 1..Len(F) : G[k] \in FileStates \cup {Gone}
    BY <1>1 DEF Without
  <2>2. G \in [1..Len(F) -> FileStates \cup {Gone}]
    BY <1>1, <2>1 DEF Without
  <2>. QED  BY <1>1, <2>1, <2>2
<1>. HIDE DEF G
<1>4. Placed(G, E)
  BY <1>2 DEF Placed, Says, Loose
<1>5. InFileOrder(G, E)
  BY <1>2 DEF InFileOrder, Says
<1>6. Kept(G, E, D)
  <2>1. ASSUME NEW a \in DOMAIN E, E[a] \notin Range(D)
        PROVE  \E k \in Existing(G) : \E i \in DOMAIN G[k].lines : E[a] = Says(G, k, i)
    <3>1. PICK k \in Existing(F) : \E i \in DOMAIN F[k].lines : E[a] = Says(F, k, i)
      BY <2>1 DEF Kept
    <3>2. k \notin S
      BY <2>1, <3>1 DEF AllArrived
    <3>. QED  BY <1>2, <3>1, <3>2 DEF Says
  <2>. QED  BY <2>1 DEF Kept
<1>. QED  BY <1>2, <1>3, <1>4, <1>5, <1>6 DEF Remain, G

RestOK(G, P, Q, D, d) ==
    /\ P \in Seq(ProgressStates)
    /\ ListOK(G, P) /\ Consumed(G, P, D) /\ Listed(G, P)
    /\ P # <<>> => d + 1 \in DOMAIN Q /\ P[1] = Q[d + 1]

\* The list without its first d files, which are gone.
LEMMA RestOfList ==
    ASSUME NEW F, NEW G, NEW Q \in Seq(ProgressStates), NEW D,
           ListOK(F, Q), Consumed(F, Q, D), Listed(F, Q),
           NEW d \in 0..Len(Q),
           Existing(G) = Existing(F) \ {Q[p].file : p \in 1..d},
           \A k \in Existing(G) : G[k] = F[k]
    PROVE  RestOK(G, SubSeq(Q, d + 1, Len(Q)), Q, D, d)
<1>. DEFINE P == SubSeq(Q, d + 1, Len(Q))
            n == Len(Q) - d
<1>1. /\ Len(Q) \in Nat /\ DOMAIN Q = 1..Len(Q) /\ d \in Nat /\ d <= Len(Q)
      /\ \A p \in DOMAIN Q : Q[p].file \in Nat /\ Q[p].consumed \in Nat
  <2>1. \A x \in ProgressStates : x.file \in Nat /\ x.consumed \in Nat
    BY DEF ProgressStates
  <2>. QED  BY <2>1, LenProperties
<1>2. P \in Seq(ProgressStates) /\ DOMAIN P = 1..n /\ \A p \in 1..n : P[p] = Q[p + d]
  <2>1. \A i \in (d + 1)..Len(Q) : Q[i] \in ProgressStates
    BY <1>1
  <2>2. d + 1 \in Int /\ Len(Q) \in Int
    BY <1>1
  <2>3. /\ P \in Seq(ProgressStates)
        /\ Len(P) = IF d + 1 <= Len(Q) THEN Len(Q) - (d + 1) + 1 ELSE 0
        /\ \A i \in 1..(Len(Q) - (d + 1) + 1) : P[i] = Q[(d + 1) + i - 1]
    BY <2>1, <2>2, SubSeqProperties
  <2>. HIDE DEF P
  <2>4. Len(P) = n /\ DOMAIN P = 1..n
    <3>1. Len(P) = n
      BY <1>1, <2>3
    <3>. QED  BY <2>3, <3>1, LenProperties
  <2>5. \A i \in 1..n : P[i] = Q[i + d]
    <3>1. \A i \in 1..n : i \in 1..(Len(Q) - (d + 1) + 1) /\ (d + 1) + i - 1 = i + d
      BY <1>1
    <3>. QED  BY <2>3, <3>1
  <2>. QED  BY <2>3, <2>4, <2>5
<1>. HIDE DEF P
<1>3. \A p \in 1..n : p + d \in DOMAIN Q /\ p + d \notin 1..d
  BY <1>1
<1>4. \A p \in DOMAIN Q : p \notin 1..d => p - d \in 1..n /\ (p - d) + d = p
  BY <1>1
<1>. HIDE DEF n
<1>5. \A p, q \in DOMAIN Q : Q[p].file = Q[q].file => p = q
  <2>1. \A p, q \in DOMAIN Q : p # q => p < q \/ q < p
    BY <1>1
  <2>2. \A p, q \in DOMAIN Q : p < q => Q[p].file < Q[q].file
    BY DEF ListOK
  <2>. QED  BY <1>1, <2>1, <2>2
<1>6. \A p \in DOMAIN P : P[p].file \in Existing(G) /\ G[P[p].file] = F[P[p].file]
  <2>1. ASSUME NEW p \in DOMAIN P PROVE P[p].file \in Existing(G)
    <3>1. p + d \in DOMAIN Q /\ p + d \notin 1..d /\ P[p] = Q[p + d]
      BY <1>2, <1>3
    <3>2. Q[p + d].file \in Existing(F)
      BY <3>1 DEF ListOK
    <3>3. \A q \in 1..d : q \in DOMAIN Q
      BY <1>1
    <3>4. Q[p + d].file \notin {Q[q].file : q \in 1..d}
      BY <1>5, <3>1, <3>3
    <3>. QED  BY <3>1, <3>2, <3>4
  <2>. QED  BY <2>1
<1>7. ListOK(G, P)
  <2>1. ASSUME NEW p \in DOMAIN P, NEW q \in DOMAIN P, p < q PROVE P[p].file < P[q].file
    <3>1. p + d \in DOMAIN Q /\ q + d \in DOMAIN Q /\ P[p] = Q[p + d] /\ P[q] = Q[q + d]
      BY <1>2, <1>3
    <3>2. p + d < q + d
      BY <1>1, <1>2, <2>1
    <3>. QED  BY <3>1, <3>2 DEF ListOK
  <2>. QED  BY <1>6, <2>1 DEF ListOK
<1>8. Consumed(G, P, D)
  <2>1. ASSUME NEW p \in DOMAIN P, NEW i \in 1..P[p].consumed
        PROVE  i \in DOMAIN G[P[p].file].lines /\ Says(G, P[p].file, i) \in Range(D)
    <3>1. p + d \in DOMAIN Q /\ P[p] = Q[p + d]
      BY <1>2, <1>3
    <3>. QED  BY <1>6, <2>1, <3>1 DEF Consumed, Says
  <2>. QED  BY <2>1 DEF Consumed
<1>9. Listed(G, P)
  <2>1. ASSUME NEW k \in Existing(G) PROVE \E p \in DOMAIN P : P[p].file = k
    <3>1. PICK p \in DOMAIN Q : Q[p].file = k
      BY DEF Listed
    <3>2. p \notin 1..d
      BY <3>1
    <3>3. p - d \in DOMAIN P /\ P[p - d] = Q[p]
      BY <1>2, <1>4, <3>1, <3>2
    <3>. QED  BY <3>1, <3>3
  <2>. QED  BY <2>1 DEF Listed
<1>10. P # <<>> => d + 1 \in DOMAIN Q /\ P[1] = Q[d + 1]
  <2>1. ASSUME P # <<>> PROVE d + 1 \in DOMAIN Q /\ P[1] = Q[d + 1]
    <3>1. 1 \in DOMAIN P
      <4>1. P \in Seq(ProgressStates) /\ P # <<>>
        BY <1>2, <2>1
      <4>2. Len(P) \in Nat /\ Len(P) # 0 /\ DOMAIN P = 1..Len(P)
        BY <4>1, EmptySeq, LenProperties
      <4>. QED  BY <4>2
    <3>2. 1 + d \in DOMAIN Q /\ P[1] = Q[1 + d] /\ 1 + d = d + 1
      BY <1>1, <1>2, <1>3, <3>1
    <3>. QED  BY <3>2
  <2>. QED  BY <2>1
<1>. QED  BY <1>2, <1>7, <1>8, <1>9, <1>10 DEF RestOK, P

\* What was queued before the first entry that is not consumed has arrived.
LEMMA OldestIsNext ==
    ASSUME NEW F \in Seq(FileStates \cup {Gone}), NEW Q \in Seq(ProgressStates),
           NEW E \in Seq(Messages), NEW D,
           WorkerOK(F, Q, E, D), Listed(F, Q), Q # <<>>,
           NEW k, k = Q[1].file, NEW i, i = Q[1].consumed + 1, i \in DOMAIN F[k].lines,
           NEW b \in DOMAIN E, E[b] = Says(F, k, i),
           NEW a \in DOMAIN E, a < b
    PROVE  E[a] \in Range(D)
<1>1. /\ 1 \in DOMAIN Q /\ DOMAIN Q = 1..Len(Q) /\ Len(Q) \in Nat
      /\ Q[1] \in ProgressStates
  BY EmptySeq, LenProperties
<1>2. k \in Existing(F) /\ Q[1].consumed \in Nat
  BY <1>1 DEF WorkerOK, ListOK, ProgressStates
<1>3. \A l \in Existing(F) : k <= l /\ k \in Nat /\ l \in Nat
  <2>1. ASSUME NEW l \in Existing(F) PROVE k <= l /\ k \in Nat /\ l \in Nat
    <3>1. PICK p \in DOMAIN Q : Q[p].file = l
      BY DEF Listed
    <3>2. p = 1 \/ 1 < p
      BY <1>1
    <3>3. k = l \/ k < l
      BY <1>1, <3>1, <3>2 DEF WorkerOK, ListOK
    <3>4. k \in Nat /\ l \in Nat
      BY <1>2, FileFacts
    <3>. QED  BY <3>3, <3>4
  <2>. QED  BY <2>1
<1>4. SUFFICES ASSUME E[a] \notin Range(D) PROVE FALSE
  OBVIOUS
<1>5. PICK l \in Existing(F) : \E j \in DOMAIN F[l].lines : E[a] = Says(F, l, j)
  BY <1>4 DEF WorkerOK, Kept
<1>6. PICK j \in DOMAIN F[l].lines : E[a] = Says(F, l, j)
  BY <1>5
<1>7. j \in Nat \ {0}
  <2>1. DOMAIN F[l].lines = 1..Len(F[l].lines)
    BY FileFacts
  <2>. QED  BY <2>1
<1>8. \A x, y \in DOMAIN E : x < y => ~(y < x)
  <2>1. DOMAIN E \subseteq Nat
    BY LenProperties
  <2>. QED  BY <2>1
<1>9. a # b
  <2>1. a \in Nat /\ b \in Nat
    BY LenProperties
  <2>. QED  BY <2>1
<1>10. E[a] # E[b]
  BY <1>9 DEF WorkerOK, Once
<1>11. ~Before(k, i, l, j)
  <2>1. ASSUME Before(k, i, l, j) PROVE b < a
    BY <1>2, <1>6, <2>1 DEF WorkerOK, InFileOrder
  <2>. QED  BY <1>8, <2>1
<1>12. l = k /\ j <= i
  BY <1>2, <1>3, <1>7, <1>11 DEF Before
<1>13. j # i
  BY <1>6, <1>10, <1>12
<1>14. j \in 1..Q[1].consumed
  BY <1>2, <1>7, <1>12, <1>13
<1>15. Says(F, k, j) \in Range(D)
  BY <1>1, <1>14 DEF WorkerOK, Consumed
<1>. QED  BY <1>4, <1>6, <1>12, <1>15

\* The message in hand arrives, for the first time.
LEMMA MessageArrives ==
    ASSUME NEW F, NEW Q, NEW E, NEW D \in Seq(Messages),
           WorkerOK(F, Q, E, D),
           NEW b \in DOMAIN E, E[b] \in Messages,
           NEW h, h = E[b], h \notin Range(D), Once(E),
           \A a \in DOMAIN E : a < b => E[a] \in Range(D)
    PROVE  /\ Append(D, h) \in Seq(Messages) /\ Range(Append(D, h)) = Range(D) \cup {h}
           /\ WorkerOK(F, Q, E, Append(D, h))
<1>. DEFINE R == Append(D, h)
            n == Len(D) + 1
<1>1. /\ R \in Seq(Messages) /\ DOMAIN D = 1..Len(D) /\ Len(D) \in Nat /\ n = Len(D) + 1
      /\ DOMAIN R = 1..n /\ R[n] = h /\ \A d \in DOMAIN D : R[d] = D[d]
  BY AppendProperties, LenProperties
<1>. HIDE DEF R, n
<1>2. DOMAIN R = DOMAIN D \cup {n} /\ n \notin DOMAIN D
  BY <1>1
<1>3. Range(R) = Range(D) \cup {h}
  BY <1>1, <1>2 DEF Range
<1>4. Range(R) \subseteq Range(E)
  BY <1>3 DEF WorkerOK, Range
<1>5. Kept(F, E, R) /\ Consumed(F, Q, R)
  BY <1>3 DEF WorkerOK, Kept, Consumed
<1>6. InTurn(E, R)
  <2>1. ASSUME NEW i \in DOMAIN E, NEW j \in DOMAIN E, NEW d \in DOMAIN R, i < j, R[d] = E[j]
        PROVE  \E c \in 1..(d - 1) : R[c] = E[i]
    <3>1. CASE d = n
      <4>1. j = b
        BY <1>1, <2>1, <3>1 DEF Once
      <4>2. E[i] \in Range(D)
        BY <2>1, <4>1
      <4>3. PICK c \in DOMAIN D : D[c] = E[i]
        BY <4>2 DEF Range
      <4>4. c \in 1..(d - 1) /\ R[c] = E[i]
        BY <1>1, <3>1, <4>3
      <4>. QED  BY <4>4
    <3>2. CASE d # n
      <4>1. d \in DOMAIN D /\ D[d] = E[j]
        BY <1>1, <1>2, <2>1, <3>2
      <4>2. PICK c \in 1..(d - 1) : D[c] = E[i]
        BY <2>1, <4>1 DEF WorkerOK, InTurn
      <4>3. c \in DOMAIN D
        BY <1>1, <4>1
      <4>. QED  BY <1>1, <4>2, <4>3
    <3>. QED  BY <3>1, <3>2
  <2>. QED  BY <2>1 DEF InTurn
<1>. QED  BY <1>1, <1>3, <1>4, <1>5, <1>6 DEF WorkerOK, R

OneConsumed(Q) == [Q EXCEPT ![1].consumed = @ + 1]

\* One entry more of the first file counts as consumed, which has arrived.
LEMMA EntryCounts ==
    ASSUME NEW F, NEW Q \in Seq(ProgressStates), NEW E, NEW D,
           WorkerOK(F, Q, E, D), Q # <<>>,
           NEW k, k = Q[1].file, NEW i, i = Q[1].consumed + 1, i \in DOMAIN F[k].lines,
           Says(F, k, i) \in Range(D)
    PROVE  LET P == OneConsumed(Q)
           IN  P \in Seq(ProgressStates) /\ WorkerOK(F, P, E, D) /\ (Listed(F, Q) => Listed(F, P))
<1>. DEFINE P == OneConsumed(Q)
            first == Q[1]
            x == [first EXCEPT !.consumed = @ + 1]
<1>1. 1 \in DOMAIN Q /\ DOMAIN Q = 1..Len(Q) /\ Len(Q) \in Nat /\ first \in ProgressStates
  BY EmptySeq, LenProperties
<1>2. x \in ProgressStates /\ x.file = k /\ x.consumed = first.consumed + 1
  BY <1>1, ProgressCounts
<1>3. first.consumed \in Nat
  BY <1>1 DEF ProgressStates
<1>4. P = [Q EXCEPT ![1] = x]
  BY DEF OneConsumed
<1>. HIDE DEF x, P
<1>5. /\ P \in Seq(ProgressStates) /\ DOMAIN P = DOMAIN Q
      /\ P[1] = x /\ \A p \in DOMAIN Q \ {1} : P[p] = Q[p]
  BY <1>1, <1>2, <1>4
<1>6. \A p \in DOMAIN Q : P[p].file = Q[p].file
  BY <1>1, <1>2, <1>5
<1>7. ListOK(F, P) /\ (Listed(F, Q) => Listed(F, P))
  BY <1>5, <1>6 DEF WorkerOK, ListOK, Listed
<1>8. Consumed(F, P, D)
  <2>1. ASSUME NEW p \in DOMAIN P, NEW j \in 1..P[p].consumed
        PROVE  j \in DOMAIN F[P[p].file].lines /\ Says(F, P[p].file, j) \in Range(D)
    <3>1. CASE p # 1
      BY <1>5, <2>1, <3>1 DEF WorkerOK, Consumed
    <3>2. CASE p = 1 /\ j = i
      BY <1>2, <1>5, <3>2
    <3>3. CASE p = 1 /\ j # i
      <4>1. j \in 1..Q[1].consumed
        BY <1>2, <1>3, <1>5, <2>1, <3>3
      <4>. QED  BY <1>1, <1>6, <3>3, <4>1 DEF WorkerOK, Consumed
    <3>. QED  BY <3>1, <3>2, <3>3
  <2>. QED  BY <2>1 DEF Consumed
<1>. QED  BY <1>5, <1>7, <1>8 DEF WorkerOK, P

\* The lists that the rebuild makes: the files that were found, oldest first.
LEMMA FoundAreListed ==
    ASSUME Types, phase = "read", listed = {}, Rebuild, NEW n \in Nodes
    PROVE  /\ Rebuilt(n) \in Seq(ProgressStates)
           /\ ListOK(files[n], Rebuilt(n)) /\ Listed(files[n], Rebuilt(n))
           /\ \A p \in DOMAIN Rebuilt(n) : Rebuilt(n)[p].consumed = 0
<1>. DEFINE F == files[n]
            S == FoundFor(n)
            names == Ascending(S)
            c == Cardinality(S)
            P == Rebuilt(n)
<1>1. F \in Seq(FileStates \cup {Gone}) /\ DOMAIN F = 1..Len(F) /\ Len(F) \in Nat
  BY LenProperties DEF Types
<1>2. S = Existing(F)
  <2>1. \A k \in Nat : k \in Existing(F) <=> <<n, k>> \in found
    BY DEF Rebuild
  <2>2. found \subseteq Nodes \X Nat
    BY DEF Rebuild
  <2>3. ASSUME NEW k \in S PROVE k \in Existing(F)
    <3>1. PICK f \in found : f[1] = n /\ k = f[2]
      BY DEF FoundFor
    <3>2. k \in Nat /\ f = <<n, k>>
      BY <2>2, <3>1
    <3>. QED  BY <2>1, <3>1, <3>2
  <2>4. ASSUME NEW k \in Existing(F) PROVE k \in S
    <3>1. k \in Nat
      BY <1>1 DEF Existing
    <3>2. <<n, k>> \in found /\ <<n, k>>[1] = n /\ <<n, k>>[2] = k
      BY <2>1, <3>1
    <3>. QED  BY <3>2 DEF FoundFor
  <2>. QED  BY <2>3, <2>4
<1>3. S \in SUBSET Nat /\ IsFiniteSet(S)
  <2>1. S \subseteq 1..Len(F)
    BY <1>1, <1>2 DEF Existing
  <2>2. IsFiniteSet(1..Len(F))
    BY <1>1, FS_Interval
  <2>. QED  BY <1>1, <2>1, <2>2, FS_Subset
<1>4. names \in [1..c -> S] /\ c \in Nat /\ Rising(names) /\ Range(names) = S
  BY <1>3, AscendingLists
<1>. HIDE DEF S, c, names
<1>5. P = [i \in 1..c |-> Progress(names[i], LineCount(n, names[i]))]
  BY <1>4 DEF Rebuilt, names, S
<1>6. \A i \in 1..c : /\ names[i] \in Existing(F) /\ names[i] \in Nat
                      /\ LineCount(n, names[i]) \in Nat
  <2>1. ASSUME NEW i \in 1..c PROVE names[i] \in Existing(F) /\ names[i] \in Nat
                                    /\ LineCount(n, names[i]) \in Nat
    <3>1. names[i] \in Existing(F)
      BY <1>2, <1>4
    <3>2. LineCount(n, names[i]) = Len(F[names[i]].lines)
      BY <3>1, EntriesAreLines
    <3>3. names[i] \in Nat /\ Len(F[names[i]].lines) \in Nat
      BY <1>1, <3>1, FileFacts
    <3>. QED  BY <3>1, <3>2, <3>3
  <2>. QED  BY <2>1
<1>7. \A i \in 1..c : /\ P[i] \in ProgressStates
                      /\ P[i].file = names[i] /\ P[i].consumed = 0
  BY <1>5, <1>6 DEF Progress, ProgressStates
<1>8. P \in [1..c -> ProgressStates] /\ DOMAIN P = 1..c /\ DOMAIN names = 1..c
  BY <1>4, <1>5, <1>7
<1>. HIDE DEF P
<1>9. P \in Seq(ProgressStates)
  BY <1>4, <1>8
<1>10. ListOK(F, P)
  BY <1>4, <1>6, <1>7, <1>8 DEF ListOK, Rising
<1>11. Listed(F, P)
  <2>1. ASSUME NEW k \in Existing(F) PROVE \E p \in DOMAIN P : P[p].file = k
    <3>1. PICK i \in 1..c : names[i] = k
      BY <1>2, <1>4, <1>8 DEF Range
    <3>. QED  BY <1>7, <1>8, <3>1
  <2>. QED  BY <2>1 DEF Listed
<1>. QED  BY <1>7, <1>8, <1>9, <1>10, <1>11 DEF P

-----------------------------------------------------------------------------
(***************************************************************************)
(* The invariant holds at the start and every step keeps it.               *)
(***************************************************************************)
LEMMA InitIInv == Init => IInv
<1> SUFFICES ASSUME Init PROVE IInv
  OBVIOUS
<1>. DEFINE none == <<>>
<1>1. none \in Seq(FileStates \cup {Gone}) /\ none \in Seq(ProgressStates) /\ none \in Seq(Messages)
  OBVIOUS
<1>2. \A n \in Nodes : /\ files[n] = none /\ queue[n] = none
                       /\ queued[n] = none /\ delivered[n] = none
  BY DEF Init
<1>3. DOMAIN none = {}
  OBVIOUS
<1>. HIDE DEF none
<1>4. Types
  <2>1. /\ files = [n \in Nodes |-> none] /\ queue = [n \in Nodes |-> none]
        /\ queued = [n \in Nodes |-> none] /\ delivered = [n \in Nodes |-> none]
    BY DEF Init, none
  <2>2. sent \in [Handlers -> 0..MaxMessages]
    BY BroadcastQueueAssumption DEF Init
  <2>3. phase = "scan" /\ round = {}
    BY DEF Init
  <2>. QED  BY <1>1, <2>1, <2>2, <2>3 DEF Types
<1>5. Range(none) = {} /\ Existing(none) = {}
  BY <1>3 DEF Range, Existing
<1>6. WorkerOK(none, none, none, none)
  BY <1>3, <1>5 DEF WorkerOK, ListOK, Once, Placed, InFileOrder, Kept, Consumed, InTurn
<1>7. Workers
  BY <1>2, <1>6 DEF Workers
<1>8. Numbered /\ OneOpen
  BY <1>2, <1>3, <1>5 DEF Numbered, OneOpen
<1>9. PenOK /\ HandOK
  BY DEF Init, PenOK, HandOK
<1>10. Rebuild
  BY <1>2 DEF Init, Rebuild, none
<1>. QED  BY <1>4, <1>7, <1>8, <1>9, <1>10 DEF IInv

\* The types of what belongs to one worker.
LEMMA OfWorker ==
    ASSUME Types, NEW n \in Nodes
    PROVE  /\ files[n] \in Seq(FileStates \cup {Gone}) /\ queue[n] \in Seq(ProgressStates)
           /\ queued[n] \in Seq(Messages) /\ delivered[n] \in Seq(Messages)
BY DEF Types

LEMMA LastOf ==
    ASSUME NEW Q \in Seq(ProgressStates), Q # <<>>
    PROVE  /\ Len(Q) \in DOMAIN Q /\ 1 \in DOMAIN Q /\ Last(Q) = Q[Len(Q)]
           /\ Q[Len(Q)] \in ProgressStates /\ Q[1] \in ProgressStates
<1>1. Len(Q) \in Nat /\ Len(Q) # 0 /\ DOMAIN Q = 1..Len(Q)
  BY EmptySeq, LenProperties
<1>. QED  BY <1>1 DEF Last

\* The append in progress goes to an existing file; its message is a new one.
LEMMA Appending ==
    ASSUME IInv, pen # NoPen
    PROVE  /\ pen.node \in Nodes /\ pen.by \in Handlers /\ pen.stage \in {"text", "newline"}
           /\ queue[pen.node] # <<>>
           /\ Current \in Existing(files[pen.node])
           /\ Current = queue[pen.node][Len(queue[pen.node])].file
           /\ Entry \in Messages /\ Entry \notin Range(queued[pen.node])
<1>1. /\ pen.node \in Nodes /\ pen.by \in Handlers /\ pen.stage \in {"text", "newline"}
      /\ queue[pen.node] # <<>> /\ sent[pen.by] \in 1..MaxMessages
  BY DEF IInv, PenOK
<1>2. queue[pen.node] \in Seq(ProgressStates)
  BY <1>1, OfWorker DEF IInv
<1>3. /\ Len(queue[pen.node]) \in DOMAIN queue[pen.node]
      /\ Last(queue[pen.node]) = queue[pen.node][Len(queue[pen.node])]
  BY <1>1, <1>2, LastOf
<1>4. Current = queue[pen.node][Len(queue[pen.node])].file
  BY <1>3 DEF Current
<1>5. Current \in Existing(files[pen.node])
  BY <1>1, <1>3, <1>4 DEF IInv, Workers, WorkerOK, ListOK
<1>6. Entry \in Messages
  BY <1>1 DEF Entry, Messages
<1>7. Entry \notin Range(queued[pen.node])
  BY <1>1 DEF IInv, Numbered, Range
<1>. QED  BY <1>1, <1>4, <1>5, <1>6, <1>7

LEMMA OneWorker ==
    ASSUME Workers, NEW m \in Nodes,
           \A n \in Nodes \ {m} : /\ files'[n] = files[n] /\ queue'[n] = queue[n]
                                  /\ queued'[n] = queued[n] /\ delivered'[n] = delivered[n],
           WorkerOK(files'[m], queue'[m], queued'[m], delivered'[m])
    PROVE  Workers'
<1>1. \A n \in Nodes : WorkerOK(files'[n], queue'[n], queued'[n], delivered'[n])
  BY DEF Workers
<1>. QED  BY <1>1 DEF Workers

\* The entry in hand stays what it is while files and lists grow at their ends.
LEMMA HandStays ==
    ASSUME HandOK, UNCHANGED <<phase, hand, target>>,
           \A n \in Nodes : queue[n] # <<>> =>
               /\ queue'[n] # <<>> /\ queue'[n][1].file = queue[n][1].file
               /\ queue'[n][1].consumed = queue[n][1].consumed
               /\ \A i \in DOMAIN files[n][queue[n][1].file].lines :
                     /\ i \in DOMAIN files'[n][queue[n][1].file].lines
                     /\ Says(files'[n], queue[n][1].file, i) = Says(files[n], queue[n][1].file, i)
               /\ Range(queued[n]) \subseteq Range(queued'[n])
               /\ Range(delivered[n]) \subseteq Range(delivered'[n])
    PROVE  HandOK'
BY DEF HandOK

LEMMA OpenKeeps ==
    ASSUME IInv, ~ServeEarly, NEW h \in Handlers, NEW m \in Nodes, Open(h, m)
    PROVE  IInv'
<1>1. /\ pen = NoPen /\ sent[h] < MaxMessages /\ phase \notin {"scan", "read"}
      /\ sent' = [sent EXCEPT ![h] = @ + 1]
      /\ pen' = [by |-> h, node |-> m, stage |-> "text"]
      /\ UNCHANGED <<phase, listed, found, round, target, hand, queued, delivered>>
  BY DEF Open, Unlocked, consumerVars
<1>2. sent \in [Handlers -> 0..MaxMessages] /\ MaxMessages \in Nat
  BY BroadcastQueueAssumption DEF IInv, Types
<1>3. sent' \in [Handlers -> 0..MaxMessages] /\ sent'[h] = sent[h] + 1 /\ sent[h] \in Nat
      /\ \A g \in Handlers : sent[g] <= sent'[g] /\ sent[g] \in Nat /\ sent'[g] \in Nat
  BY <1>1, <1>2
<1>4. Numbered'
  <2>1. ASSUME NEW n \in Nodes, NEW a \in DOMAIN queued[n]
        PROVE  queued[n][a][2] <= sent'[queued[n][a][1]] /\ queued[n][a] # <<h, sent[h] + 1>>
    <3>1. queued[n][a] \in Messages
      BY OfWorker DEF IInv
    <3>2. queued[n][a][1] \in Handlers /\ queued[n][a][2] \in Nat
      BY <3>1 DEF Messages
    <3>3. queued[n][a][2] <= sent[queued[n][a][1]]
      BY DEF IInv, Numbered
    <3>4. queued[n][a] # <<h, sent[h] + 1>>
      BY <1>3, <3>2, <3>3
    <3>5. queued[n][a][2] <= sent'[queued[n][a][1]]
      BY <1>3, <3>2, <3>3
    <3>. QED  BY <3>4, <3>5
  <2>2. Entry' = <<h, sent[h] + 1>>
    BY <1>1, <1>3 DEF Entry
  <2>. QED  BY <1>1, <2>1, <2>2 DEF Numbered
<1>5. \A n \in Nodes : \A k \in Existing(files[n]) : ~files[n][k].open
  BY <1>1 DEF IInv, OneOpen, NoPen
<1>6. /\ files[m] \in Seq(FileStates \cup {Gone}) /\ queue[m] \in Seq(ProgressStates)
      /\ WorkerOK(files[m], queue[m], queued[m], delivered[m]) /\ Listed(files[m], queue[m])
      /\ files \in [Nodes -> Seq(FileStates \cup {Gone})] /\ queue \in [Nodes -> Seq(ProgressStates)]
  BY <1>1 DEF IInv, Types, Workers, Rebuild
<1>7. sent'[h] \in 1..MaxMessages
  BY <1>1, <1>2, <1>3
<1>8. CASE NeedNew(m)
  <2>. DEFINE none == <<>>
              f == [lines |-> none, open |-> FALSE]
              x == Progress(Len(files[m]) + 1, 0)
  <2>1. f \in FileStates /\ DOMAIN f.lines = {} /\ ~f.open
    <3>1. none \in Seq(Single) /\ DOMAIN none = {}
      OBVIOUS
    <3>. HIDE DEF none
    <3>. QED  BY <3>1 DEF FileStates
  <2>2. x \in ProgressStates /\ x.file = Len(files[m]) + 1 /\ x.consumed = 0
    <3>1. Len(files[m]) \in Nat
      BY <1>6, LenProperties
    <3>. QED  BY <3>1 DEF Progress, ProgressStates
  <2>3. /\ files' = [files EXCEPT ![m] = Append(files[m], f)]
        /\ queue' = [queue EXCEPT ![m] = Append(queue[m], x)]
    BY <1>8 DEF Open
  <2>. HIDE DEF f, x
  <2>4. files'[m] = Append(files[m], f) /\ queue'[m] = Append(queue[m], x)
        /\ \A n \in Nodes \ {m} : files'[n] = files[n] /\ queue'[n] = queue[n]
    BY <1>6, <2>3
  <2>5. /\ files'[m] \in Seq(FileStates \cup {Gone}) /\ queue'[m] \in Seq(ProgressStates)
        /\ Existing(files'[m]) = Existing(files[m]) \cup {Len(files[m]) + 1}
        /\ files'[m][Len(files[m]) + 1] = f
        /\ \A k \in Existing(files[m]) : files'[m][k] = files[m][k]
        /\ queue'[m] # <<>>
        /\ \A p \in DOMAIN queue[m] : p \in DOMAIN queue'[m] /\ queue'[m][p] = queue[m][p]
        /\ WorkerOK(files'[m], queue'[m], queued[m], delivered[m])
        /\ Listed(files'[m], queue'[m])
    <3>. DEFINE F == files[m]
                Q == queue[m]
                E == queued[m]
                D == delivered[m]
    <3>1. /\ F \in Seq(FileStates \cup {Gone}) /\ Q \in Seq(ProgressStates)
          /\ WorkerOK(F, Q, E, D) /\ Listed(F, Q) /\ x.file = Len(F) + 1
      BY <1>6, <2>2
    <3>2. files'[m] = Append(F, f) /\ queue'[m] = Append(Q, x)
      BY <2>4
    <3>. HIDE DEF F, Q, E, D
    <3>3. LET G == Append(F, f)
              P == Append(Q, x)
          IN  /\ G \in Seq(FileStates \cup {Gone}) /\ P \in Seq(ProgressStates)
              /\ Existing(G) = Existing(F) \cup {Len(F) + 1}
              /\ G[Len(F) + 1] = f /\ \A k \in Existing(F) : G[k] = F[k]
              /\ P # <<>> /\ P[Len(P)] = x /\ Len(F) + 1 \notin Existing(F)
              /\ \A p \in DOMAIN Q : p \in DOMAIN P /\ P[p] = Q[p]
              /\ WorkerOK(G, P, E, D) /\ Listed(G, P)
      BY <2>1, <2>2, <3>1, FileIsOpened
    <3>. QED  BY <3>2, <3>3, Zenon DEF F, Q, E, D
  <2>6. Types'
    BY <1>1, <1>3, <1>6, <2>3, <2>5 DEF IInv, Types
  <2>7. Workers'
    BY <1>1, <2>4, <2>5, OneWorker DEF IInv
  <2>8. PenOK'
    BY <1>1, <1>7, <2>5 DEF PenOK
  <2>9. OneOpen'
    <3>1. ASSUME NEW n \in Nodes, NEW k \in Existing(files'[n]) PROVE ~files'[n][k].open
      <4>1. CASE n # m
        BY <1>5, <2>4, <3>1, <4>1
      <4>2. CASE n = m /\ k = Len(files[m]) + 1
        BY <2>1, <2>5, <4>2
      <4>3. CASE n = m /\ k # Len(files[m]) + 1
        <5>1. k \in Existing(files[m]) /\ files'[m][k] = files[m][k]
          BY <2>5, <3>1, <4>3
        <5>. QED  BY <1>5, <4>3, <5>1
      <4>. QED  BY <4>1, <4>2, <4>3
    <3>2. pen'.stage # "newline"
      BY <1>1
    <3>3. \A n \in Nodes : \A k \in Existing(files'[n]) : files'[n][k].open = FALSE
      <4>1. ASSUME NEW n \in Nodes, NEW k \in Existing(files'[n])
            PROVE  files'[n][k].open = FALSE
        <5>1. files'[n] \in Seq(FileStates \cup {Gone})
          BY <2>6 DEF Types
        <5>2. files'[n][k].open \in BOOLEAN
          BY <5>1, FileFacts
        <5>. QED  BY <3>1, <5>2
      <4>. QED  BY <4>1
    <3>. QED  BY <3>2, <3>3 DEF OneOpen
  <2>10. Rebuild'
    <3>1. \A n \in Nodes : Listed(files'[n], queue'[n])
      BY <1>1, <2>4, <2>5 DEF IInv, Rebuild
    <3>. QED  BY <1>1, <3>1 DEF Rebuild
  <2>11. HandOK'
    <3>1. ASSUME NEW n \in Nodes, queue[n] # <<>>
          PROVE  /\ queue'[n] # <<>> /\ queue'[n][1] = queue[n][1]
                 /\ files'[n][queue[n][1].file] = files[n][queue[n][1].file]
      <4>1. CASE n = m
        <5>1. 1 \in DOMAIN queue[m]
          BY <1>6, <3>1, <4>1, LastOf
        <5>2. queue[m][1].file \in Existing(files[m])
          BY <1>6, <5>1 DEF WorkerOK, ListOK
        <5>. QED  BY <2>5, <4>1, <5>1, <5>2
      <4>2. CASE n # m
        BY <2>4, <3>1, <4>2
      <4>. QED  BY <4>1, <4>2
    <3>2. HandOK /\ UNCHANGED <<phase, hand, target>>
      BY <1>1 DEF IInv
    <3>3. \A n \in Nodes : queue[n] # <<>> =>
               /\ queue'[n] # <<>> /\ queue'[n][1].file = queue[n][1].file
               /\ queue'[n][1].consumed = queue[n][1].consumed
               /\ \A i \in DOMAIN files[n][queue[n][1].file].lines :
                     /\ i \in DOMAIN files'[n][queue[n][1].file].lines
                     /\ Says(files'[n], queue[n][1].file, i) = Says(files[n], queue[n][1].file, i)
               /\ Range(queued[n]) \subseteq Range(queued'[n])
               /\ Range(delivered[n]) \subseteq Range(delivered'[n])
      BY <1>1, <3>1 DEF Says
    <3>. QED  BY <3>2, <3>3, HandStays
  <2>. QED  BY <1>4, <2>6, <2>7, <2>8, <2>9, <2>10, <2>11 DEF IInv
<1>9. CASE ~NeedNew(m)
  <2>1. queue[m] # <<>> /\ queue' = queue
    BY <1>9 DEF Open, NeedNew
  <2>2. PICK k : k = Last(queue[m]).file
    OBVIOUS
  <2>3. k \in Existing(files[m])
    BY <1>6, <2>1, <2>2, LastOf DEF WorkerOK, ListOK
  <2>4. k \in DOMAIN files[m] /\ files[m][k] # Gone
    BY <2>3 DEF Existing
  <2>5. files' = [files EXCEPT ![m][k] = IF @ = Gone THEN [lines |-> <<>>, open |-> FALSE] ELSE @]
    BY <1>9, <2>2 DEF Open
  <2>6. files' = [files EXCEPT ![m] = [files[m] EXCEPT ![k] = files[m][k]]]
    BY <2>4, <2>5
  <2>7. [files[m] EXCEPT ![k] = files[m][k]] = files[m]
    BY <1>6, <2>4
  <2>8. files' = files
    BY <1>6, <2>6, <2>7
  <2>9. Types'
    BY <1>1, <1>3, <2>1, <2>8 DEF IInv, Types
  <2>10. Workers'
    BY <1>1, <2>1, <2>8 DEF IInv, Workers
  <2>11. PenOK'
    BY <1>1, <1>7, <2>1 DEF PenOK
  <2>12. OneOpen'
    <3>1. pen'.stage # "newline"
      BY <1>1
    <3>2. \A n \in Nodes : \A l \in Existing(files[n]) : files[n][l].open = FALSE
      BY <1>1 DEF IInv, OneOpen, NoPen
    <3>. QED  BY <2>8, <3>1, <3>2 DEF OneOpen
  <2>13. Rebuild' /\ HandOK'
    BY <1>1, <2>1, <2>8 DEF IInv, Rebuild, HandOK
  <2>. QED  BY <1>4, <2>9, <2>10, <2>11, <2>12, <2>13 DEF IInv
<1>. QED  BY <1>8, <1>9

LEMMA WriteTextKeeps ==
    ASSUME IInv, WriteText
    PROVE  IInv'
<1>1. /\ pen # NoPen /\ pen.stage = "text" /\ pen' = [pen EXCEPT !.stage = "newline"]
      /\ UNCHANGED <<queue, sent, phase, listed, found, round, target, hand, queued, delivered>>
  BY DEF WriteText, NoPen, consumerVars
<1>2. PICK m \in Nodes : m = pen.node
  BY <1>1, Appending
<1>3. PICK k \in Existing(files[m]) : k = Current
  BY <1>1, <1>2, Appending
<1>4. PICK e \in Messages : e = Entry /\ e \notin Range(queued[m])
  BY <1>1, <1>2, Appending
<1>5. /\ pen \in [by : Handlers, node : Nodes, stage : {"text", "newline"}]
      /\ sent[pen.by] \in 1..MaxMessages /\ phase \notin {"scan", "read"} /\ queue[m] # <<>>
  BY <1>1, <1>2 DEF IInv, PenOK
<1>6. /\ pen'.by = pen.by /\ pen'.node = m /\ pen'.stage = "newline" /\ pen' # NoPen
      /\ pen' \in [by : Handlers, node : Nodes, stage : {"text", "newline"}]
  BY <1>1, <1>2, <1>5 DEF NoPen
<1>7. Entry' = e /\ Current' = k
  BY <1>1, <1>2, <1>3, <1>4, <1>6 DEF Entry, Current
<1>8. /\ files[m] \in Seq(FileStates \cup {Gone}) /\ queue[m] \in Seq(ProgressStates)
      /\ WorkerOK(files[m], queue[m], queued[m], delivered[m]) /\ Listed(files[m], queue[m])
      /\ files \in [Nodes -> Seq(FileStates \cup {Gone})]
  BY <1>5 DEF IInv, Types, Workers, Rebuild
<1>9. files[m][k] \in FileStates /\ files[m][k] # Gone /\ k \in DOMAIN files[m] /\ ~files[m][k].open
  <2>1. files[m][k].open = FALSE
    BY <1>1, <1>3 DEF IInv, OneOpen
  <2>. QED  BY <1>8, <2>1, FileFacts DEF Existing
<1>10. PICK f \in FileStates : f = WithText(files[m][k]) /\ OneMore(files[m][k], f, e)
  BY <1>4, <1>9, WithTextAdds
<1>11. files' = [files EXCEPT ![m][k] = f]
  <2>1. files' = [files EXCEPT ![m][k] = IF @ = Gone THEN Gone ELSE WithText(@)]
    BY <1>2, <1>3 DEF WriteText
  <2>. QED  BY <1>9, <1>10, <2>1
<1>12. PICK G : G = [files[m] EXCEPT ![k] = f]
  OBVIOUS
<1>13. files'[m] = G /\ files' = [files EXCEPT ![m] = G] /\ \A n \in Nodes \ {m} : files'[n] = files[n]
  BY <1>8, <1>11, <1>12
<1>14. /\ G \in Seq(FileStates \cup {Gone}) /\ Existing(G) = Existing(files[m])
       /\ G[k] = f /\ \A l \in Existing(files[m]) \ {k} : G[l] = files[m][l]
       /\ \A l \in Existing(files[m]) : \A i \in DOMAIN files[m][l].lines :
              i \in DOMAIN G[l].lines /\ Says(G, l, i) = Says(files[m], l, i)
       /\ WorkerOK(G, queue[m], queued[m], delivered[m])
  <2>. DEFINE F == files[m]
              Q == queue[m]
              E == queued[m]
              D == delivered[m]
  <2>1. /\ F \in Seq(FileStates \cup {Gone}) /\ WorkerOK(F, Q, E, D)
        /\ k \in Existing(F) /\ ~F[k].open /\ e \notin Range(E) /\ OneMore(F[k], f, e)
        /\ G = [F EXCEPT ![k] = f]
    BY <1>4, <1>8, <1>9, <1>10, <1>12
  <2>. HIDE DEF F, Q, E, D
  <2>2. LET H == [F EXCEPT ![k] = f]
        IN  /\ H \in Seq(FileStates \cup {Gone}) /\ Existing(H) = Existing(F)
            /\ H[k] = f /\ \A l \in Existing(F) \ {k} : H[l] = F[l]
            /\ \A l \in Existing(F) : \A i \in DOMAIN F[l].lines :
                   i \in DOMAIN H[l].lines /\ Says(H, l, i) = Says(F, l, i)
            /\ WorkerOK(H, Q, E, D)
    BY <2>1, TextIsPlaced
  <2>. QED  BY <2>1, <2>2, Zenon DEF F, Q, E, D
<1>15. Types'
  BY <1>1, <1>8, <1>13, <1>14 DEF IInv, Types
<1>16. Workers'
  BY <1>1, <1>13, <1>14, OneWorker DEF IInv
<1>17. Numbered'
  BY <1>1, <1>4, <1>7 DEF IInv, Numbered
<1>18. PenOK'
  <2>1. f.lines # <<>> /\ Last(f.lines)[1] = e
    <3>1. f.lines \in Seq(Single) /\ files[m][k].lines \in Seq(Single)
      BY <1>9 DEF FileStates
    <3>2. Len(f.lines) = Len(files[m][k].lines) + 1 /\ Len(files[m][k].lines) \in Nat
      BY <1>10, <3>1, LenProperties DEF OneMore
    <3>3. f.lines # <<>>
      BY <3>1, <3>2, EmptySeq
    <3>4. Last(f.lines)[1] = e
      BY <1>10 DEF OneMore, Last
    <3>. QED  BY <3>3, <3>4
  <2>. QED  BY <1>1, <1>5, <1>6, <1>7, <1>13, <1>14, <2>1 DEF PenOK
<1>19. OneOpen'
  <2>9. \A n \in Nodes : \A l \in Existing(files[n]) : files[n][l].open = FALSE
    BY <1>1 DEF IInv, OneOpen
  <2>1. ASSUME NEW n \in Nodes, NEW l \in Existing(files'[n])
        PROVE  files'[n][l].open = (n = m /\ l = k)
    <3>1. CASE n # m
      <4>1. files'[n] = files[n]
        BY <1>13, <3>1
      <4>2. files'[n][l].open = FALSE
        BY <2>1, <2>9, <4>1
      <4>. QED  BY <3>1, <4>2
    <3>2. CASE n = m /\ l # k
      <4>1. files'[m] = G /\ l \in Existing(files[m])
        BY <1>13, <1>14, <2>1, <3>2
      <4>2. files'[n][l].open = files[m][l].open
        BY <1>14, <3>2, <4>1
      <4>3. files[m][l].open = FALSE
        BY <2>9, <4>1
      <4>. QED  BY <3>2, <4>2, <4>3
    <3>3. CASE n = m /\ l = k
      <4>1. f.open \in BOOLEAN /\ f.open
        BY <1>10 DEF FileStates, OneMore
      <4>2. files'[n][l].open = TRUE
        BY <1>13, <1>14, <3>3, <4>1
      <4>. QED  BY <3>3, <4>2
    <3>. QED  BY <3>1, <3>2, <3>3
  <2>. QED  BY <1>6, <1>7, <2>1 DEF OneOpen
<1>20. Rebuild'
  <2>1. \A n \in Nodes : Listed(files'[n], queue'[n])
    <3>1. \A n \in Nodes : Listed(files[n], queue[n])
      BY <1>5 DEF IInv, Rebuild
    <3>2. \A n \in Nodes : Existing(files'[n]) = Existing(files[n])
      BY <1>13, <1>14
    <3>. QED  BY <1>1, <3>1, <3>2 DEF Listed
  <2>. QED  BY <1>1, <1>5, <2>1 DEF Rebuild
<1>21. HandOK'
  <2>1. \A n \in Nodes : queue[n] # <<>> =>
             /\ queue'[n] # <<>> /\ queue'[n][1].file = queue[n][1].file
             /\ queue'[n][1].consumed = queue[n][1].consumed
             /\ \A i \in DOMAIN files[n][queue[n][1].file].lines :
                   /\ i \in DOMAIN files'[n][queue[n][1].file].lines
                   /\ Says(files'[n], queue[n][1].file, i) = Says(files[n], queue[n][1].file, i)
             /\ Range(queued[n]) \subseteq Range(queued'[n])
             /\ Range(delivered[n]) \subseteq Range(delivered'[n])
    <3>1. ASSUME NEW n \in Nodes, queue[n] # <<>>,
                 NEW i \in DOMAIN files[n][queue[n][1].file].lines
          PROVE  /\ i \in DOMAIN files'[n][queue[n][1].file].lines
                 /\ Says(files'[n], queue[n][1].file, i) = Says(files[n], queue[n][1].file, i)
      <4>1. CASE n = m
        <5>1. 1 \in DOMAIN queue[m]
          BY <1>8, <3>1, <4>1, LastOf
        <5>2. queue[m][1].file \in Existing(files[m])
          BY <1>8, <5>1 DEF WorkerOK, ListOK
        <5>. QED  BY <1>13, <1>14, <3>1, <4>1, <5>2
      <4>2. CASE n # m
        BY <1>13, <3>1, <4>2 DEF Says
      <4>. QED  BY <4>1, <4>2
    <3>. QED  BY <1>1, <3>1
  <2>2. HandOK /\ UNCHANGED <<phase, hand, target>>
    BY <1>1 DEF IInv
  <2>. QED  BY <2>1, <2>2, HandStays
<1>. QED  BY <1>15, <1>16, <1>17, <1>18, <1>19, <1>20, <1>21 DEF IInv

LEMMA WriteNewlineKeeps ==
    ASSUME IInv, WriteNewline
    PROVE  IInv'
<1>1. /\ pen # NoPen /\ pen.stage = "newline" /\ pen' = NoPen
      /\ UNCHANGED <<sent, phase, listed, found, round, target, hand, delivered>>
  BY DEF WriteNewline, NoPen, consumerVars
<1>2. PICK m \in Nodes : m = pen.node
  BY <1>1, Appending
<1>3. PICK k \in Existing(files[m]) : k = Current /\ k = queue[m][Len(queue[m])].file
  BY <1>1, <1>2, Appending
<1>4. PICK e \in Messages : e = Entry /\ e \notin Range(queued[m])
  BY <1>1, <1>2, Appending
<1>5. /\ phase \notin {"scan", "read"} /\ queue[m] # <<>> /\ sent[pen.by] \in 1..MaxMessages
      /\ pen.by \in Handlers
      /\ files[m][k].lines # <<>> /\ Last(files[m][k].lines)[1] = e
  BY <1>1, <1>2, <1>3, <1>4 DEF IInv, PenOK
<1>6. /\ files[m] \in Seq(FileStates \cup {Gone}) /\ queue[m] \in Seq(ProgressStates)
      /\ queued[m] \in Seq(Messages) /\ delivered[m] \in Seq(Messages)
      /\ WorkerOK(files[m], queue[m], queued[m], delivered[m]) /\ Listed(files[m], queue[m])
      /\ files \in [Nodes -> Seq(FileStates \cup {Gone})]
      /\ queue \in [Nodes -> Seq(ProgressStates)] /\ queued \in [Nodes -> Seq(Messages)]
  BY <1>5 DEF IInv, Types, Workers, Rebuild
<1>7. \A l \in Existing(files[m]) : files[m][l].open = (l = k)
  BY <1>1, <1>2, <1>3 DEF IInv, OneOpen
<1>8. e = Says(files[m], k, Len(files[m][k].lines))
  BY <1>5 DEF Says, Last
<1>9. PICK G : G = [files[m] EXCEPT ![k].open = FALSE]
  OBVIOUS
<1>10. PICK P : P = [queue[m] EXCEPT ![Len(queue[m])].written = @ + 1]
  OBVIOUS
<1>11. PICK R : R = Append(queued[m], e)
  OBVIOUS
<1>12. /\ files' = [files EXCEPT ![m] = G] /\ queue' = [queue EXCEPT ![m] = P]
       /\ queued' = [queued EXCEPT ![m] = R]
  <2>1. k \in DOMAIN files[m] /\ files[m][k] # Gone
    BY DEF Existing
  <2>2. files' = [files EXCEPT ![m][k] = IF @ = Gone THEN Gone ELSE [@ EXCEPT !.open = FALSE]]
    BY <1>2, <1>3 DEF WriteNewline
  <2>3. files' = [files EXCEPT ![m] = G]
    BY <1>9, <2>1, <2>2
  <2>4. queue' = [queue EXCEPT ![m][Len(queue[m])].written = @ + 1]
    BY <1>2 DEF WriteNewline
  <2>5. queued' = [queued EXCEPT ![m] = R]
    BY <1>2, <1>4, <1>11 DEF WriteNewline
  <2>. QED  BY <1>10, <2>3, <2>4, <2>5
<1>13. /\ G \in Seq(FileStates \cup {Gone}) /\ P \in Seq(ProgressStates) /\ R \in Seq(Messages)
       /\ Existing(G) = Existing(files[m])
       /\ \A l \in Existing(files[m]) : G[l].lines = files[m][l].lines /\ ~G[l].open
       /\ WorkerOK(G, P, R, delivered[m]) /\ Listed(G, P)
  <2>. DEFINE F == files[m]
              Q == queue[m]
              E == queued[m]
              D == delivered[m]
  <2>1. /\ F \in Seq(FileStates \cup {Gone}) /\ Q \in Seq(ProgressStates)
        /\ E \in Seq(Messages) /\ D \in Seq(Messages)
        /\ WorkerOK(F, Q, E, D) /\ Listed(F, Q) /\ Q # <<>> /\ k = Q[Len(Q)].file
        /\ F[k].lines # <<>> /\ OnlyOpen(F, k)
        /\ e = Says(F, k, Len(F[k].lines)) /\ e \notin Range(E)
        /\ G = Ended(F, k) /\ P = Written(Q) /\ R = Append(E, e)
    BY <1>3, <1>4, <1>5, <1>6, <1>7, <1>8, <1>9, <1>10, <1>11 DEF Ended, Written, OnlyOpen
  <2>. HIDE DEF F, Q, E, D
  <2>2. IsQueued(F, D, Ended(F, k), Written(Q), Append(E, e))
    BY <2>1, LineIsQueued
  <2>. QED  BY <2>1, <2>2 DEF F, Q, E, D, IsQueued
<1>14. /\ files'[m] = G /\ queue'[m] = P /\ queued'[m] = R
       /\ \A n \in Nodes \ {m} : /\ files'[n] = files[n] /\ queue'[n] = queue[n]
                                 /\ queued'[n] = queued[n]
  BY <1>6, <1>12
<1>15. Types'
  <2>1. /\ files' \in [Nodes -> Seq(FileStates \cup {Gone})]
        /\ queue' \in [Nodes -> Seq(ProgressStates)] /\ queued' \in [Nodes -> Seq(Messages)]
    BY <1>6, <1>12, <1>13
  <2>. QED  BY <1>1, <2>1 DEF IInv, Types
<1>16. Workers'
  BY <1>1, <1>13, <1>14, OneWorker DEF IInv
<1>17. Numbered'
  <2>1. ASSUME NEW n \in Nodes, NEW a \in DOMAIN queued'[n]
        PROVE  queued'[n][a][2] <= sent[queued'[n][a][1]]
    <3>1. CASE n # m
      BY <1>14, <2>1, <3>1 DEF IInv, Numbered
    <3>2. CASE n = m
      <4>1. (a \in DOMAIN queued[m] /\ R[a] = queued[m][a]) \/ R[a] = e
        <5>1. /\ Len(queued[m]) \in Nat /\ DOMAIN queued[m] = 1..Len(queued[m])
              /\ DOMAIN R = 1..(Len(queued[m]) + 1) /\ R[Len(queued[m]) + 1] = e
              /\ \A b \in 1..Len(queued[m]) : R[b] = queued[m][b]
          BY <1>6, <1>11, AppendProperties, LenProperties
        <5>2. a \in 1..(Len(queued[m]) + 1)
          BY <1>14, <2>1, <3>2, <5>1
        <5>. QED  BY <5>1, <5>2
      <4>2. e[2] <= sent[e[1]]
        <5>1. e = <<pen.by, sent[pen.by]>>
          BY <1>4 DEF Entry
        <5>2. e[1] = pen.by /\ e[2] = sent[pen.by]
          BY <5>1
        <5>. QED  BY <1>5, <5>2
      <4>. QED  BY <1>14, <3>2, <4>1, <4>2 DEF IInv, Numbered
    <3>. QED  BY <3>1, <3>2
  <2>. QED  BY <1>1, <2>1 DEF Numbered
<1>18. PenOK'
  BY <1>1 DEF PenOK
<1>19. OneOpen'
  <2>1. ASSUME NEW n \in Nodes, NEW l \in Existing(files'[n]) PROVE files'[n][l].open = FALSE
    <3>1. CASE n = m
      <4>1. ~G[l].open /\ l \in Existing(G)
        BY <1>13, <1>14, <2>1, <3>1
      <4>2. G[l].open \in BOOLEAN
        BY <1>13, <4>1, FileFacts
      <4>. QED  BY <1>14, <3>1, <4>1, <4>2
    <3>2. CASE n # m
      <4>1. files'[n] = files[n] /\ l \in Existing(files[n]) /\ pen.node # n
        BY <1>2, <1>14, <2>1, <3>2
      <4>2. files[n][l].open = FALSE
        BY <4>1 DEF IInv, OneOpen
      <4>. QED  BY <4>1, <4>2
    <3>. QED  BY <3>1, <3>2
  <2>. QED  BY <1>1, <2>1 DEF OneOpen
<1>20. Rebuild'
  <2>1. \A n \in Nodes : Listed(files'[n], queue'[n])
    BY <1>5, <1>13, <1>14 DEF IInv, Rebuild
  <2>. QED  BY <1>1, <1>5, <2>1 DEF Rebuild
<1>21. HandOK'
  <2>1. /\ P # <<>> /\ P[1].file = queue[m][1].file /\ P[1].consumed = queue[m][1].consumed
    <3>. DEFINE Q == queue[m]
                last == Q[Len(Q)]
                x == [last EXCEPT !.written = @ + 1]
    <3>1. /\ Len(Q) \in DOMAIN Q /\ 1 \in DOMAIN Q /\ last \in ProgressStates
          /\ Q \in Seq(ProgressStates)
      BY <1>5, <1>6, LastOf
    <3>2. x.file = last.file /\ x.consumed = last.consumed
      BY <3>1, ProgressCounts
    <3>3. P = [Q EXCEPT ![Len(Q)] = x]
      BY <1>10
    <3>. HIDE DEF x
    <3>4. P[1] = Q[1] \/ (P[1] = x /\ Q[1] = last)
      BY <3>1, <3>3
    <3>5. DOMAIN P = DOMAIN Q
      BY <3>3
    <3>. HIDE DEF Q
    <3>6. P # <<>>
      BY <1>13, <3>1, <3>5, EmptySeq, LenProperties
    <3>. QED  BY <3>2, <3>4, <3>6 DEF Q
  <2>2. Range(queued[m]) \subseteq Range(R)
    <3>1. \A a \in DOMAIN queued[m] : a \in DOMAIN R /\ R[a] = queued[m][a]
      <4>1. /\ Len(queued[m]) \in Nat /\ DOMAIN queued[m] = 1..Len(queued[m])
            /\ DOMAIN R = 1..(Len(queued[m]) + 1)
            /\ \A b \in 1..Len(queued[m]) : R[b] = queued[m][b]
        BY <1>6, <1>11, AppendProperties, LenProperties
      <4>. QED  BY <4>1
    <3>. QED  BY <3>1 DEF Range
  <2>3. ASSUME NEW n \in Nodes, queue[n] # <<>>
        PROVE  /\ queue'[n] # <<>> /\ queue'[n][1].file = queue[n][1].file
               /\ queue'[n][1].consumed = queue[n][1].consumed
               /\ \A i \in DOMAIN files[n][queue[n][1].file].lines :
                     /\ i \in DOMAIN files'[n][queue[n][1].file].lines
                     /\ Says(files'[n], queue[n][1].file, i) = Says(files[n], queue[n][1].file, i)
               /\ Range(queued[n]) \subseteq Range(queued'[n])
               /\ Range(delivered[n]) \subseteq Range(delivered'[n])
    <3>1. CASE n = m
      <4>1. 1 \in DOMAIN queue[m]
        BY <1>5, <1>6, LastOf
      <4>2. queue[m][1].file \in Existing(files[m])
        BY <1>6, <4>1 DEF WorkerOK, ListOK
      <4>3. G[queue[m][1].file].lines = files[m][queue[m][1].file].lines
        BY <1>13, <4>2
      <4>. QED  BY <1>1, <1>14, <2>1, <2>2, <3>1, <4>3 DEF Says
    <3>2. CASE n # m
      BY <1>1, <1>14, <2>3, <3>2 DEF Says
    <3>. QED  BY <3>1, <3>2
  <2>4. HandOK /\ UNCHANGED <<phase, hand, target>>
    BY <1>1 DEF IInv
  <2>. QED  BY <2>3, <2>4, HandStays
<1>. QED  BY <1>15, <1>16, <1>17, <1>18, <1>19, <1>20, <1>21 DEF IInv

\* Nothing is being written while the lists are rebuilt, or when nobody appends.
LEMMA NothingOpen ==
    ASSUME IInv, pen.stage # "newline" \/ pen = NoPen
    PROVE  \A n \in Nodes : \A k \in Existing(files[n]) : files[n][k].open = FALSE
BY DEF IInv, OneOpen, NoPen

LEMMA AppendFailsKeeps ==
    ASSUME IInv, AppendFails
    PROVE  IInv'
<1>1. /\ pen.stage = "text" /\ pen' = NoPen
      /\ UNCHANGED <<files, queue, sent, phase, listed, found, round, target, hand, queued, delivered>>
  BY DEF AppendFails, consumerVars
<1>2. Types' /\ Workers' /\ Rebuild' /\ HandOK'
  BY <1>1 DEF IInv, Types, Workers, Rebuild, HandOK
<1>3. Numbered' /\ PenOK'
  BY <1>1 DEF IInv, Numbered, PenOK
<1>4. OneOpen'
  <2>1. \A n \in Nodes : \A k \in Existing(files[n]) : files[n][k].open = FALSE
    BY <1>1, NothingOpen
  <2>. QED  BY <1>1, <2>1 DEF OneOpen
<1>. QED  BY <1>2, <1>3, <1>4 DEF IInv

LEMMA CrashKeeps ==
    ASSUME IInv, ~TornCrash, Crash
    PROVE  IInv'
<1>. DEFINE none == <<>>
<1>1. /\ pen.stage # "newline" /\ pen' = NoPen /\ phase' = "scan" /\ found' = {} /\ round' = {}
      /\ UNCHANGED <<files, sent, queued, delivered>> /\ queue' = [n \in Nodes |-> none]
  BY DEF Crash
<1>2. none \in Seq(ProgressStates) /\ DOMAIN none = {}
  OBVIOUS
<1>3. Rebuild'
  BY <1>1 DEF Rebuild
<1>. HIDE DEF none
<1>4. Types'
  BY <1>1, <1>2 DEF IInv, Types
<1>5. Workers'
  <2>1. ASSUME NEW n \in Nodes PROVE WorkerOK(files[n], none, queued[n], delivered[n])
    <3>1. WorkerOK(files[n], queue[n], queued[n], delivered[n])
      BY DEF IInv, Workers
    <3>. QED  BY <1>2, <3>1 DEF WorkerOK, ListOK, Consumed
  <2>. QED  BY <1>1, <2>1 DEF Workers
<1>6. Numbered' /\ PenOK' /\ HandOK'
  BY <1>1 DEF IInv, Numbered, PenOK, HandOK
<1>7. OneOpen'
  <2>1. \A n \in Nodes : \A k \in Existing(files[n]) : files[n][k].open = FALSE
    BY <1>1, NothingOpen
  <2>. QED  BY <1>1, <2>1 DEF OneOpen
<1>. QED  BY <1>3, <1>4, <1>5, <1>6, <1>7 DEF IInv

LEMMA ListKeeps ==
    ASSUME IInv, List
    PROVE  IInv'
<1>1. /\ phase = "scan" /\ phase' = "read"
      /\ UNCHANGED <<files, queue, pen, sent, found, round, target, hand, queued, delivered>>
  BY DEF List
<1>2. found = {} /\ \A n \in Nodes : queue[n] = <<>>
  BY <1>1 DEF IInv, Rebuild
<1>3. \A n \in Nodes : DOMAIN files[n] \subseteq Nat
  <2>1. ASSUME NEW n \in Nodes PROVE DOMAIN files[n] \subseteq Nat
    <3>1. files[n] \in Seq(FileStates \cup {Gone})
      BY OfWorker DEF IInv
    <3>. QED  BY <3>1, LenProperties
  <2>. QED  BY <2>1
<1>4. listed' = UNION {{n} \X Existing(files[n]) : n \in Nodes}
  BY DEF List, Existing
<1>5. listed' \subseteq Nodes \X Nat
  BY <1>3, <1>4 DEF Existing
<1>6. \A n \in Nodes, k \in Nat : k \in Existing(files[n]) <=> <<n, k>> \in listed'
  BY <1>4
<1>7. Rebuild'
  BY <1>1, <1>2, <1>5, <1>6 DEF Rebuild
<1>8. Types' /\ Workers' /\ Numbered' /\ HandOK'
  BY <1>1 DEF IInv, Types, Workers, Numbered, Entry, HandOK
<1>9. PenOK' /\ OneOpen'
  BY <1>1 DEF IInv, PenOK, OneOpen, Current
<1>. QED  BY <1>7, <1>8, <1>9 DEF IInv

LEMMA ReadOneKeeps ==
    ASSUME IInv, NEW f \in listed, ReadOne(f)
    PROVE  IInv'
<1>1. /\ phase = "read" /\ listed' = listed \ {f}
      /\ UNCHANGED <<queue, pen, sent, phase, round, target, hand, queued, delivered>>
  BY DEF ReadOne
<1>2. PICK m \in Nodes, k \in Nat : f = <<m, k>> /\ f[1] = m /\ f[2] = k
  BY <1>1 DEF IInv, Rebuild
<1>3. k \in Existing(files[m]) /\ k \in DOMAIN files[m]
  BY <1>1, <1>2 DEF IInv, Rebuild, Existing
<1>4. pen = NoPen /\ \A n \in Nodes : queue[n] = <<>>
  BY <1>1 DEF IInv, PenOK, Rebuild
<1>5. CASE Entries(m, k) # <<>>
  <2>1. found' = found \cup {f} /\ files' = files
    BY <1>2, <1>5 DEF ReadOne
  <2>2. Rebuild'
    BY <1>1, <2>1 DEF IInv, Rebuild
  <2>3. Types' /\ Workers' /\ Numbered' /\ HandOK'
    BY <1>1, <2>1 DEF IInv, Types, Workers, Numbered, Entry, HandOK
  <2>4. PenOK' /\ OneOpen'
    BY <1>1, <2>1 DEF IInv, PenOK, OneOpen, Current, Entry
  <2>. QED  BY <2>2, <2>3, <2>4 DEF IInv
<1>6. CASE Entries(m, k) = <<>>
  <2>1. files' = [files EXCEPT ![m][k] = Gone] /\ found' = found
    BY <1>2, <1>6 DEF ReadOne
  <2>2. DOMAIN files[m][k].lines = {}
    <3>1. DOMAIN Entries(m, k) = 1..Len(files[m][k].lines)
      BY <1>3, EntriesAreLines DEF IInv
    <3>2. DOMAIN Entries(m, k) = {}
      BY <1>6
    <3>3. files[m] \in Seq(FileStates \cup {Gone})
      BY OfWorker DEF IInv
    <3>4. DOMAIN files[m][k].lines = 1..Len(files[m][k].lines)
      BY <1>3, <3>3, FileFacts
    <3>. QED  BY <3>1, <3>2, <3>4
  <2>3. /\ files[m] \in Seq(FileStates \cup {Gone})
        /\ files \in [Nodes -> Seq(FileStates \cup {Gone})]
        /\ WorkerOK(files[m], queue[m], queued[m], delivered[m])
    BY DEF IInv, Types, Workers
  <2>4. PICK G : G = Without(files[m], {k})
    OBVIOUS
  <2>5. G = [files[m] EXCEPT ![k] = Gone]
    BY <2>3, <2>4 DEF Without
  <2>6. files' = [files EXCEPT ![m] = G]
    BY <2>1, <2>5
  <2>7. files'[m] = G /\ \A n \in Nodes \ {m} : files'[n] = files[n]
    BY <2>3, <2>6
  <2>8. /\ G \in Seq(FileStates \cup {Gone})
        /\ Existing(G) = Existing(files[m]) \ {k} /\ \A l \in Existing(G) : G[l] = files[m][l]
        /\ Placed(G, queued[m]) /\ InFileOrder(G, queued[m])
        /\ Kept(G, queued[m], delivered[m])
    <3>1. /\ Placed(files[m], queued[m]) /\ InFileOrder(files[m], queued[m])
          /\ Kept(files[m], queued[m], delivered[m])
      BY <2>3 DEF WorkerOK
    <3>2. AllArrived(files[m], {k}, delivered[m])
      BY <2>2 DEF AllArrived
    <3>3. Remain(files[m], {k}, queued[m], delivered[m], Without(files[m], {k}))
      BY <2>3, <3>1, <3>2, FilesGo
    <3>. QED  BY <2>4, <3>3 DEF Remain
  <2>9. WorkerOK(G, queue[m], queued[m], delivered[m])
    <3>1. ListOK(G, queue[m]) /\ Consumed(G, queue[m], delivered[m])
      BY <1>4 DEF ListOK, Consumed
    <3>. QED  BY <2>3, <2>8, <3>1 DEF WorkerOK
  <2>10. Workers'
    BY <1>1, <2>7, <2>9, OneWorker DEF IInv
  <2>11. Types'
    BY <1>1, <2>3, <2>6, <2>8 DEF IInv, Types
  <2>12. Rebuild'
    <3>1. \A n \in Nodes, l \in Nat :
              l \in Existing(files'[n]) <=> l \in Existing(files[n]) /\ <<n, l>> # f
      BY <1>2, <2>7, <2>8
    <3>. QED  BY <1>1, <2>1, <3>1 DEF IInv, Rebuild
  <2>13. Numbered' /\ PenOK' /\ HandOK'
    BY <1>1, <1>4 DEF IInv, Numbered, PenOK, HandOK
  <2>14. OneOpen'
    <3>1. \A n \in Nodes : \A l \in Existing(files[n]) : files[n][l].open = FALSE
      BY <1>4, NothingOpen
    <3>2. \A n \in Nodes : \A l \in Existing(files'[n]) : files'[n][l].open = FALSE
      BY <2>7, <2>8, <3>1
    <3>. QED  BY <1>1, <1>4, <3>2 DEF OneOpen
  <2>. QED  BY <2>10, <2>11, <2>12, <2>13, <2>14 DEF IInv
<1>. QED  BY <1>5, <1>6

LEMMA InsertKeeps ==
    ASSUME IInv, Insert
    PROVE  IInv'
<1>1. /\ phase = "read" /\ listed = {} /\ pen = NoPen /\ phase' = "visit"
      /\ UNCHANGED <<files, pen, sent, round, queued, delivered>>
      /\ queue' = [n \in Nodes |-> queue[n] \o Rebuilt(n)]
  BY DEF Insert, Unlocked
<1>2. \A n \in Nodes : queue[n] = <<>>
  BY <1>1 DEF IInv, Rebuild
<1>3. ASSUME NEW n \in Nodes
      PROVE  /\ queue'[n] = Rebuilt(n) /\ Rebuilt(n) \in Seq(ProgressStates)
             /\ ListOK(files[n], Rebuilt(n)) /\ Listed(files[n], Rebuilt(n))
             /\ \A p \in DOMAIN Rebuilt(n) : Rebuilt(n)[p].consumed = 0
  <2>1. /\ Rebuilt(n) \in Seq(ProgressStates)
        /\ ListOK(files[n], Rebuilt(n)) /\ Listed(files[n], Rebuilt(n))
        /\ \A p \in DOMAIN Rebuilt(n) : Rebuilt(n)[p].consumed = 0
    BY <1>1, FoundAreListed DEF IInv
  <2>2. <<>> \o Rebuilt(n) = Rebuilt(n)
    BY <2>1
  <2>. QED  BY <1>1, <1>2, <2>1, <2>2
<1>4. Types'
  <2>1. \A n \in Nodes : queue'[n] \in Seq(ProgressStates)
    BY <1>3
  <2>2. queue' \in [Nodes -> Seq(ProgressStates)]
    BY <1>1, <2>1
  <2>. QED  BY <1>1, <2>2 DEF IInv, Types
<1>5. Workers'
  <2>1. ASSUME NEW n \in Nodes
        PROVE  WorkerOK(files[n], queue'[n], queued[n], delivered[n])
    <3>1. Consumed(files[n], queue'[n], delivered[n])
      BY <1>3 DEF Consumed
    <3>2. WorkerOK(files[n], queue[n], queued[n], delivered[n])
      BY DEF IInv, Workers
    <3>. QED  BY <1>3, <3>1, <3>2 DEF WorkerOK
  <2>. QED  BY <1>1, <2>1 DEF Workers
<1>6. Rebuild'
  BY <1>1, <1>3 DEF Rebuild
<1>7. Numbered' /\ PenOK' /\ OneOpen' /\ HandOK'
  BY <1>1 DEF IInv, Numbered, PenOK, OneOpen, HandOK
<1>. QED  BY <1>4, <1>5, <1>6, <1>7 DEF IInv

LEMMA PollKeeps ==
    ASSUME IInv, Poll
    PROVE  IInv'
<1>1. /\ round' \subseteq Nodes
      /\ UNCHANGED <<files, queue, pen, sent, phase, listed, found, target, hand, queued, delivered>>
  BY DEF Poll
<1>2. Types' /\ Workers' /\ Numbered' /\ HandOK' /\ Rebuild'
  BY <1>1 DEF IInv, Types, Workers, Numbered, Entry, HandOK, Rebuild
<1>3. PenOK' /\ OneOpen'
  BY <1>1 DEF IInv, PenOK, OneOpen, Current, Entry
<1>. QED  BY <1>2, <1>3 DEF IInv

\* prepare_next finds the files to drop: all before the first that is not drained.
LEMMA PrefixIsDrained ==
    ASSUME NEW n \in Nodes, queue[n] \in Seq(ProgressStates)
    PROVE  /\ DrainedPrefix(n) \in 0..Len(queue[n])
           /\ \A i \in 1..DrainedPrefix(n) : Drained(n, queue[n][i])
<1>. DEFINE L == Len(queue[n])
            Prefix(d) == /\ \A i \in 1..d : Drained(n, queue[n][i])
                         /\ d < L => ~Drained(n, queue[n][d + 1])
            Stay == {i \in 1..L : ~Drained(n, queue[n][i])}
<1>1. L \in Nat
  BY LenProperties
<1>2. \E d \in 0..L : Prefix(d)
  <2>1. CASE Stay = {}
    <3>1. Prefix(L)
      BY <1>1, <2>1
    <3>. QED  BY <1>1, <3>1
  <2>2. CASE Stay # {}
    <3>1. Stay \in SUBSET Nat
      BY <1>1
    <3>2. PICK s \in Stay : \A i \in Stay : s <= i
      BY <2>2, <3>1, LeastNumber
    <3>3. s \in 1..L /\ s - 1 \in 0..L /\ (s - 1) + 1 = s
      BY <1>1, <3>2
    <3>4. \A i \in 1..(s - 1) : i \in 1..L /\ i \notin Stay
      BY <1>1, <3>2, <3>3
    <3>5. Prefix(s - 1)
      BY <3>2, <3>3, <3>4
    <3>. QED  BY <3>3, <3>5
  <2>. QED  BY <2>1, <2>2
<1>3. DrainedPrefix(n) = CHOOSE d \in 0..L : Prefix(d)
  BY DEF DrainedPrefix
<1>. HIDE DEF Prefix
<1>4. DrainedPrefix(n) \in 0..L /\ Prefix(DrainedPrefix(n))
  BY <1>2, <1>3
<1>. QED  BY <1>4 DEF Prefix

LEMMA DrainedHaveArrived ==
    ASSUME IInv, NEW m \in Nodes, NEW p \in DOMAIN queue[m], Drained(m, queue[m][p]),
           NEW i \in DOMAIN files[m][queue[m][p].file].lines
    PROVE  Says(files[m], queue[m][p].file, i) \in Range(delivered[m])
<1>. DEFINE k == queue[m][p].file
<1>1. /\ files[m] \in Seq(FileStates \cup {Gone}) /\ queue[m] \in Seq(ProgressStates)
      /\ WorkerOK(files[m], queue[m], queued[m], delivered[m])
  BY OfWorker DEF IInv, Workers
<1>2. k \in Existing(files[m])
  BY <1>1 DEF WorkerOK, ListOK
<1>3. LineCount(m, k) = Len(files[m][k].lines)
  BY <1>2, EntriesAreLines DEF IInv
<1>4. DOMAIN files[m][k].lines = 1..Len(files[m][k].lines) /\ Len(files[m][k].lines) \in Nat
  BY <1>1, <1>2, FileFacts
<1>5. queue[m][p].consumed \in Nat
  <2>1. \A x \in ProgressStates : x.consumed \in Nat
    BY DEF ProgressStates
  <2>2. queue[m][p] \in ProgressStates
    BY <1>1, LenProperties
  <2>. QED  BY <2>1, <2>2
<1>6. i \in 1..queue[m][p].consumed
  BY <1>3, <1>4, <1>5 DEF Drained
<1>. QED  BY <1>1, <1>6 DEF WorkerOK, Consumed

LEMMA PrepareKeeps ==
    ASSUME IInv, NEW m \in round, Prepare(m)
    PROVE  IInv'
<1>1. /\ phase = "visit" /\ pen = NoPen /\ m \in Nodes /\ round' = round \ {m}
      /\ UNCHANGED <<pen, sent, listed, found, queued, delivered>>
  BY DEF Prepare, Unlocked, IInv, Types
<1>2. /\ files[m] \in Seq(FileStates \cup {Gone}) /\ queue[m] \in Seq(ProgressStates)
      /\ queued[m] \in Seq(Messages) /\ delivered[m] \in Seq(Messages)
      /\ WorkerOK(files[m], queue[m], queued[m], delivered[m])
      /\ Listed(files[m], queue[m])
      /\ files \in [Nodes -> Seq(FileStates \cup {Gone})] /\ queue \in [Nodes -> Seq(ProgressStates)]
  BY <1>1 DEF IInv, Types, Workers, Rebuild
<1>3. PICK d \in 0..Len(queue[m]) : d = DrainedPrefix(m)
  BY <1>1, <1>2, PrefixIsDrained
<1>4. \A i \in 1..d : Drained(m, queue[m][i]) /\ i \in DOMAIN queue[m]
  <2>1. \A i \in 1..d : Drained(m, queue[m][i])
    BY <1>1, <1>2, <1>3, PrefixIsDrained
  <2>2. Len(queue[m]) \in Nat /\ DOMAIN queue[m] = 1..Len(queue[m])
    BY <1>2, LenProperties
  <2>. QED  BY <2>1, <2>2
<1>5. PICK S : S = {queue[m][i].file : i \in 1..d}
  OBVIOUS
<1>6. PICK G : G = Without(files[m], S)
  OBVIOUS
<1>7. PICK P : P = SubSeq(queue[m], d + 1, Len(queue[m]))
  OBVIOUS
<1>8. files' = [files EXCEPT ![m] = G] /\ queue' = [queue EXCEPT ![m] = P]
  <2>1. files' = [files EXCEPT ![m] = [k \in DOMAIN @ |-> IF k \in S THEN Gone ELSE @[k]]]
    BY <1>3, <1>5 DEF Prepare
  <2>2. queue' = [queue EXCEPT ![m] = P]
    BY <1>3, <1>7 DEF Prepare
  <2>. QED  BY <1>6, <2>1, <2>2 DEF Without
<1>9. /\ files'[m] = G /\ queue'[m] = P
      /\ \A n \in Nodes \ {m} : files'[n] = files[n] /\ queue'[n] = queue[n]
  BY <1>1, <1>2, <1>8
<1>10. Remain(files[m], S, queued[m], delivered[m], G)
  <2>1. AllArrived(files[m], S, delivered[m])
    BY <1>1, <1>4, <1>5, DrainedHaveArrived DEF AllArrived
  <2>2. /\ Placed(files[m], queued[m]) /\ InFileOrder(files[m], queued[m])
        /\ Kept(files[m], queued[m], delivered[m])
    BY <1>2 DEF WorkerOK
  <2>. QED  BY <1>2, <1>6, <2>1, <2>2, FilesGo
<1>11. /\ G \in Seq(FileStates \cup {Gone})
       /\ Existing(G) = Existing(files[m]) \ S /\ \A k \in Existing(G) : G[k] = files[m][k]
       /\ Placed(G, queued[m]) /\ InFileOrder(G, queued[m]) /\ Kept(G, queued[m], delivered[m])
  BY <1>10 DEF Remain
<1>12. /\ P \in Seq(ProgressStates)
       /\ ListOK(G, P) /\ Consumed(G, P, delivered[m]) /\ Listed(G, P)
       /\ P # <<>> => d + 1 \in DOMAIN queue[m] /\ P[1] = queue[m][d + 1]
  <2>1. ListOK(files[m], queue[m]) /\ Consumed(files[m], queue[m], delivered[m])
    BY <1>2 DEF WorkerOK
  <2>2. RestOK(G, SubSeq(queue[m], d + 1, Len(queue[m])), queue[m], delivered[m], d)
    BY <1>2, <1>5, <1>11, <2>1, RestOfList
  <2>. QED  BY <1>7, <2>2 DEF RestOK
<1>13. Workers'
  <2>1. WorkerOK(G, P, queued[m], delivered[m])
    BY <1>2, <1>11, <1>12 DEF WorkerOK
  <2>. QED  BY <1>1, <1>9, <2>1, OneWorker DEF IInv
<1>14. phase' \in {"visit", "deliver"}
  BY <1>1 DEF Prepare
<1>15. Types'
  <2>1. /\ files' \in [Nodes -> Seq(FileStates \cup {Gone})]
        /\ queue' \in [Nodes -> Seq(ProgressStates)]
    BY <1>2, <1>8, <1>11, <1>12
  <2>. QED  BY <1>1, <1>14, <2>1 DEF IInv, Types
<1>16. Numbered' /\ PenOK'
  BY <1>1 DEF IInv, Numbered, PenOK
<1>17. OneOpen'
  <2>1. \A n \in Nodes : \A k \in Existing(files[n]) : files[n][k].open = FALSE
    BY <1>1, NothingOpen
  <2>2. \A n \in Nodes : \A k \in Existing(files'[n]) : files'[n][k].open = FALSE
    BY <1>9, <1>11, <2>1
  <2>. QED  BY <1>1, <2>2 DEF OneOpen
<1>18. Rebuild'
  <2>1. \A n \in Nodes : Listed(files'[n], queue'[n])
    BY <1>1, <1>9, <1>12 DEF IInv, Rebuild
  <2>. QED  BY <1>14, <2>1 DEF Rebuild
<1>19. HandOK'
  <2>1. CASE phase' = "visit"
    BY <2>1 DEF HandOK
  <2>2. CASE phase' = "deliver"
    <3>1. PICK k : k = P[1].file
      OBVIOUS
    <3>2. PICK i : i = P[1].consumed + 1
      OBVIOUS
    <3>3. P # <<>> /\ i \in DOMAIN Entries(m, k) /\ hand' = Entries(m, k)[i] /\ target' = m
      BY <1>1, <1>3, <1>7, <2>2, <3>1, <3>2 DEF Prepare
    <3>4. k \in Existing(G)
      BY <1>12, <3>1, <3>3, LastOf DEF ListOK
    <3>5. k \in Existing(files[m]) /\ G[k] = files[m][k]
      BY <1>11, <3>4
    <3>6. i \in DOMAIN files[m][k].lines /\ hand' = Says(files[m], k, i)
      <4>1. /\ DOMAIN Entries(m, k) = 1..Len(files[m][k].lines)
            /\ \A j \in 1..Len(files[m][k].lines) : Entries(m, k)[j] = Says(files[m], k, j)
        BY <1>1, <3>5, EntriesAreLines DEF IInv
      <4>2. DOMAIN files[m][k].lines = 1..Len(files[m][k].lines)
        BY <1>2, <3>5, FileFacts
      <4>. QED  BY <3>3, <4>1, <4>2
    <3>7. hand' \in Range(queued[m])
      <4>1. files[m][k].open = FALSE
        BY <1>1, <3>5, NothingOpen
      <4>. QED  BY <1>2, <3>5, <3>6, <4>1 DEF WorkerOK, Placed, Loose
    <3>8. Says(G, k, i) = Says(files[m], k, i)
      BY <3>5 DEF Says
    <3>. QED  BY <1>1, <1>9, <2>2, <3>1, <3>2, <3>3, <3>5, <3>6, <3>7, <3>8 DEF HandOK
  <2>. QED  BY <1>14, <2>1, <2>2
<1>. QED  BY <1>13, <1>15, <1>16, <1>17, <1>18, <1>19 DEF IInv

\* The entry in hand arrives; whatever was queued before it has.
LEMMA ArrivedKeeps ==
    ASSUME IInv, phase = "deliver", Arrived, UNCHANGED <<files, queue, queued>>
    PROVE  /\ delivered' \in [Nodes -> Seq(Messages)] /\ Workers'
           /\ target \in Nodes /\ hand \in Range(delivered'[target])
<1>1. PICK m \in Nodes : m = target
  BY DEF IInv, HandOK
<1>2. /\ files[m] \in Seq(FileStates \cup {Gone}) /\ queue[m] \in Seq(ProgressStates)
      /\ queued[m] \in Seq(Messages) /\ delivered[m] \in Seq(Messages)
      /\ WorkerOK(files[m], queue[m], queued[m], delivered[m])
      /\ Listed(files[m], queue[m]) /\ delivered \in [Nodes -> Seq(Messages)]
  BY DEF IInv, Types, Workers, Rebuild
<1>3. PICK k, i : k = queue[m][1].file /\ i = queue[m][1].consumed + 1
  OBVIOUS
<1>4. /\ queue[m] # <<>> /\ i \in DOMAIN files[m][k].lines
      /\ hand = Says(files[m], k, i) /\ hand \in Range(queued[m])
  BY <1>1, <1>3 DEF IInv, HandOK
<1>5. PICK b \in DOMAIN queued[m] : hand = queued[m][b]
  BY <1>4 DEF Range
<1>6. CASE hand \in Range(delivered[m])
  <2>1. delivered' = delivered
    BY <1>1, <1>6 DEF Arrived
  <2>. QED  BY <1>1, <1>2, <1>6, <2>1 DEF IInv, Workers
<1>7. CASE hand \notin Range(delivered[m])
  <2>1. delivered' = [delivered EXCEPT ![m] = Append(delivered[m], hand)]
    BY <1>1, <1>7 DEF Arrived
  <2>2. \A a \in DOMAIN queued[m] : a < b => queued[m][a] \in Range(delivered[m])
    BY <1>2, <1>3, <1>4, <1>5, OldestIsNext
  <2>3. queued[m][b] \in Messages /\ Once(queued[m])
    BY <1>2 DEF WorkerOK
  <2>4. /\ Append(delivered[m], hand) \in Seq(Messages)
        /\ Range(Append(delivered[m], hand)) = Range(delivered[m]) \cup {hand}
        /\ WorkerOK(files[m], queue[m], queued[m], Append(delivered[m], hand))
    BY <1>2, <1>5, <1>7, <2>2, <2>3, MessageArrives
  <2>5. /\ delivered'[m] = Append(delivered[m], hand)
        /\ \A n \in Nodes \ {m} : delivered'[n] = delivered[n]
        /\ delivered' \in [Nodes -> Seq(Messages)]
    BY <1>2, <2>1, <2>4
  <2>6. Workers'
    BY <2>4, <2>5, OneWorker DEF IInv
  <2>. QED  BY <1>1, <2>4, <2>5, <2>6
<1>. QED  BY <1>6, <1>7

LEMMA DeliverKeeps ==
    ASSUME IInv, Deliver \/ DeliverFails
    PROVE  IInv'
<1>1. /\ phase = "deliver"
      /\ UNCHANGED <<files, queue, pen, sent, listed, found, round, target, queued>>
      /\ Arrived \/ delivered' = delivered
  BY DEF Deliver, DeliverFails
<1>2. delivered' \in [Nodes -> Seq(Messages)] /\ Workers'
  <2>1. CASE Arrived
    BY <1>1, <2>1, ArrivedKeeps
  <2>2. CASE delivered' = delivered
    BY <1>1, <2>2 DEF IInv, Types, Workers
  <2>. QED  BY <1>1, <2>1, <2>2
<1>3. phase' \in {"visit", "count"}
  BY DEF Deliver, DeliverFails
<1>4. Types' /\ Rebuild'
  BY <1>1, <1>2, <1>3 DEF IInv, Types, Rebuild
<1>5. Numbered' /\ OneOpen'
  BY <1>1 DEF IInv, Numbered, OneOpen, Entry, Current
<1>6. PenOK'
  BY <1>1, <1>3 DEF IInv, PenOK, Entry, Current
<1>7. HandOK'
  <2>1. CASE Deliver
    <3>1. phase' = "count" /\ hand' = hand /\ Arrived
      BY <2>1 DEF Deliver
    <3>2. hand \in Range(delivered'[target])
      BY <1>1, <3>1, ArrivedKeeps
    <3>. QED  BY <1>1, <3>1, <3>2 DEF IInv, HandOK
  <2>2. CASE DeliverFails
    BY <2>2 DEF DeliverFails, HandOK
  <2>. QED  BY <2>1, <2>2
<1>. QED  BY <1>2, <1>4, <1>5, <1>6, <1>7 DEF IInv

LEMMA CountKeeps ==
    ASSUME IInv, Count
    PROVE  IInv'
<1>1. /\ phase = "count" /\ pen = NoPen /\ phase' = "visit"
      /\ UNCHANGED <<files, pen, sent, listed, found, round, target, queued, delivered>>
  BY DEF Count, Unlocked
<1>2. PICK m \in Nodes : m = target
  BY <1>1 DEF IInv, HandOK
<1>3. /\ queue[m] \in Seq(ProgressStates) /\ queue \in [Nodes -> Seq(ProgressStates)]
      /\ WorkerOK(files[m], queue[m], queued[m], delivered[m]) /\ Listed(files[m], queue[m])
  BY <1>1 DEF IInv, Types, Workers, Rebuild
<1>4. PICK k, i : k = queue[m][1].file /\ i = queue[m][1].consumed + 1
  OBVIOUS
<1>5. /\ queue[m] # <<>> /\ i \in DOMAIN files[m][k].lines
      /\ Says(files[m], k, i) \in Range(delivered[m])
  BY <1>1, <1>2, <1>4 DEF IInv, HandOK
<1>6. PICK P : P = OneConsumed(queue[m])
  OBVIOUS
<1>7. P \in Seq(ProgressStates) /\ WorkerOK(files[m], P, queued[m], delivered[m])
      /\ Listed(files[m], P)
  <2>1. LET R == OneConsumed(queue[m])
        IN  /\ R \in Seq(ProgressStates) /\ WorkerOK(files[m], R, queued[m], delivered[m])
            /\ (Listed(files[m], queue[m]) => Listed(files[m], R))
    BY <1>3, <1>4, <1>5, EntryCounts
  <2>. QED  BY <1>3, <1>6, <2>1
<1>8. queue' = [queue EXCEPT ![m] = P]
  <2>1. queue' = [queue EXCEPT ![m][1].consumed = @ + 1]
    BY <1>2, <1>5 DEF Count
  <2>. QED  BY <1>6, <2>1 DEF OneConsumed
<1>9. queue'[m] = P /\ \A n \in Nodes \ {m} : queue'[n] = queue[n]
  BY <1>3, <1>8
<1>10. Types'
  <2>1. queue' \in [Nodes -> Seq(ProgressStates)]
    BY <1>3, <1>7, <1>8
  <2>. QED  BY <1>1, <2>1 DEF IInv, Types
<1>11. Workers'
  BY <1>1, <1>7, <1>9, OneWorker DEF IInv
<1>12. Numbered' /\ PenOK' /\ OneOpen' /\ HandOK'
  BY <1>1 DEF IInv, Numbered, PenOK, OneOpen, HandOK
<1>13. Rebuild'
  <2>1. \A n \in Nodes : Listed(files'[n], queue'[n])
    BY <1>1, <1>7, <1>9 DEF IInv, Rebuild
  <2>. QED  BY <1>1, <2>1 DEF Rebuild
<1>. QED  BY <1>10, <1>11, <1>12, <1>13 DEF IInv

-----------------------------------------------------------------------------
(***************************************************************************)
(* The theorems.                                                           *)
(***************************************************************************)
\* The two theorems are about a master that serves only after its rebuild and
\* whose crashes tear no line: without either the properties fail.
Whole == ~ServeEarly /\ ~TornCrash

LEMMA NextIInv == ASSUME Whole PROVE IInv /\ [Next]_vars => IInv'
<1>1. SUFFICES ASSUME IInv, [Next]_vars PROVE IInv'
  OBVIOUS
<1>2. ASSUME NEW h \in Handlers, NEW n \in Nodes, Open(h, n) PROVE IInv'
  BY <1>1, <1>2, OpenKeeps DEF Whole
<1>3. CASE WriteText
  BY <1>1, <1>3, WriteTextKeeps
<1>4. CASE WriteNewline
  BY <1>1, <1>4, WriteNewlineKeeps
<1>5. CASE AppendFails
  BY <1>1, <1>5, AppendFailsKeeps
<1>6. CASE List
  BY <1>1, <1>6, ListKeeps
<1>7. ASSUME NEW f \in listed, ReadOne(f) PROVE IInv'
  BY <1>1, <1>7, ReadOneKeeps
<1>8. CASE Insert
  BY <1>1, <1>8, InsertKeeps
<1>9. CASE Poll
  BY <1>1, <1>9, PollKeeps
<1>10. ASSUME NEW n \in round, Prepare(n) PROVE IInv'
  BY <1>1, <1>10, PrepareKeeps
<1>11. CASE Count
  BY <1>1, <1>11, CountKeeps
<1>12. CASE Deliver \/ DeliverFails
  BY <1>1, <1>12, DeliverKeeps
<1>13. CASE Crash
  BY <1>1, <1>13, CrashKeeps DEF Whole
<1>14. CASE UNCHANGED vars
  <2>1. UNCHANGED <<files, queue, pen, sent, phase, listed, found, round, target, hand, queued,
                    delivered>>
    BY <1>14 DEF vars, consumerVars, boundVars
  <2>2. Types' /\ Workers' /\ Numbered' /\ Rebuild' /\ HandOK'
    BY <1>1, <2>1 DEF IInv, Types, Workers, Numbered, Entry, Rebuild, HandOK
  <2>3. PenOK' /\ OneOpen'
    BY <1>1, <2>1 DEF IInv, PenOK, OneOpen, Current, Entry
  <2>. QED  BY <2>2, <2>3 DEF IInv
<1>. QED
  BY <1>1, <1>2, <1>3, <1>4, <1>5, <1>6, <1>7, <1>8, <1>9, <1>10, <1>11, <1>12, <1>13, <1>14
  DEF Next, Enqueuing, Consuming, Rebuilding

LEMMA AlwaysIInv == ASSUME Whole PROVE Spec => []IInv
BY InitIInv, NextIInv, PTL DEF Spec

\* "Undelivered broadcasts survive a master restart": whatever fails and however
\* often the master restarts, a message that enqueue took has arrived at its
\* worker or can be read from one of its files.
THEOREM UndeliveredSurvive == ASSUME Whole PROVE Spec => []NothingLost
<1>1. ASSUME IInv PROVE NothingLost
  <2>1. ASSUME NEW n \in Nodes, NEW m \in Range(queued[n]), m \notin Range(delivered[n])
        PROVE  m \in Stored(n)
    <3>1. PICK a \in DOMAIN queued[n] : m = queued[n][a]
      BY <2>1 DEF Range
    <3>2. PICK k \in Existing(files[n]) :
              \E i \in DOMAIN files[n][k].lines : m = Says(files[n], k, i)
      BY <1>1, <2>1, <3>1 DEF IInv, Workers, WorkerOK, Kept
    <3>3. PICK i \in DOMAIN files[n][k].lines : m = Says(files[n], k, i)
      BY <3>2
    <3>4. i \in DOMAIN Entries(n, k) /\ Entries(n, k)[i] = m
      <4>1. /\ DOMAIN Entries(n, k) = 1..Len(files[n][k].lines)
            /\ \A j \in 1..Len(files[n][k].lines) : Entries(n, k)[j] = Says(files[n], k, j)
        BY <1>1, EntriesAreLines DEF IInv
      <4>2. files[n] \in Seq(FileStates \cup {Gone})
        BY <1>1, OfWorker DEF IInv
      <4>3. DOMAIN files[n][k].lines = 1..Len(files[n][k].lines)
        BY <4>2, FileFacts
      <4>. QED  BY <3>3, <4>1, <4>3
    <3>5. k \in DOMAIN files[n]
      BY DEF Existing
    <3>. QED  BY <3>4, <3>5 DEF Stored, Range
  <2>. QED  BY <2>1 DEF NothingLost
<1>. QED  BY <1>1, AlwaysIInv, PTL

\* "Delivering the oldest undelivered entry in order": a message arrives for the
\* first time only after all that were queued for the worker before it, across
\* rolled files, redeliveries and restarts.
THEOREM DeliveredInOrder == ASSUME Whole PROVE Spec => []InOrder
<1>1. IInv => InOrder
  BY DEF IInv, Workers, WorkerOK, InTurn, InOrder
<1>. QED  BY <1>1, AlwaysIInv, PTL
=============================================================================
