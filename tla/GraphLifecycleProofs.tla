------------------------ MODULE GraphLifecycleProofs ------------------------
(***************************************************************************)
(* Proofs about the graphs of one process (GraphLifecycle, the part L of   *)
(* Components), for any number of requests, names, crashes and restarts:   *)
(* the requests for a graph share one open instance, and a graph that was  *)
(* answered stays listed.                                                  *)
(***************************************************************************)
EXTENDS Components, SequencesExt, FiniteSetsExt, FiniteSetTheorems, SequenceTheorems, WellFoundedInduction, TLAPS

\* The names of graphs have an order, and there are finitely many.
FinitelyNamed == lNames \subseteq Nat /\ \E n \in lNames : \A k \in lNames : n >= k

ThreadState ==
    [step : {"idle", "get", "open", "list", "insert", "describe", "remove", "unlist"},
     name : lNames \cup {0}, handle : Nat, meta : lMetas \cup {lNoMeta}]

\* What the requests keep: a graph that is worked on has a name, and an
\* instance that was opened has a number of its own.
RequestsOK ==
    /\ lOpened \in [lNames -> Nat] /\ lHandles \in Nat
    /\ lThread \in [Threads -> ThreadState]
    /\ \A t \in Threads : /\ lThread[t].step # "idle" => lThread[t].name \in lNames
                          /\ lThread[t].step \in {"list", "insert"} => lThread[t].handle # 0

\* Answered is what is in the map: nothing else was answered since the graph
\* was opened, and nothing while it is closed.
AnsweredOpened ==
    /\ lAnswered \in [lNames -> SUBSET Nat]
    /\ \A n \in lNames : lAnswered[n] \subseteq {lOpened[n]} \ {0}

IInv == RequestsOK /\ AnsweredOpened

\* The graphs are a part of the whole: its steps are theirs, or leave them alone.
LEMMA GraphsRun == ComponentsSpec => L!Spec
<1>1. ComponentsInit => L!Init
  BY DEF ComponentsInit
<1>2. [ComponentsNext]_componentsVars => [L!Next]_(L!vars)
  BY DEF ComponentsNext, componentsVars, lVars, L!vars
<1>. QED  BY <1>1, <1>2, PTL DEF ComponentsSpec, L!Spec

\* The library's operators are those of GraphLifecycle.
LEMMA GraphsLibrary ==
    ASSUME NEW X
    PROVE  /\ L!Cardinality(X) = Cardinality(X)
           /\ L!Max(X) = Max(X)
           /\ L!SetToSeqs(X) = SetToSeqs(X)
<1>1. \A Y : L!Cardinality(Y) = Cardinality(Y)
  BY DEF L!Cardinality, Cardinality
<1>2. \A Y : L!IsInjective(Y) <=> IsInjective(Y)
  BY DEF L!IsInjective, IsInjective
<1>3. L!SetToSeqs(X) = SetToSeqs(X)
  BY <1>1, <1>2 DEF L!SetToSeqs, SetToSeqs
<1>4. L!Max(X) = Max(X)
  BY DEF L!Max, Max
<1>. QED  BY <1>1, <1>3, <1>4

LEMMA MaxName == FinitelyNamed => L!Max(lNames) \in Nat
<1> SUFFICES ASSUME FinitelyNamed PROVE L!Max(lNames) \in Nat
  OBVIOUS
<1>1. PICK n \in lNames : \A k \in lNames : n >= k
  BY DEF FinitelyNamed
<1>2. Max(lNames) \in lNames
  BY <1>1 DEF Max
<1>. QED  BY <1>2, GraphsLibrary DEF FinitelyNamed

LEMMA HandlesAreNumbers ==
    ASSUME FinitelyNamed, NEW r, NEW from \in Nat
    PROVE  L!HandlesOf(r, from) \in [lNames -> Nat]
BY DEF L!HandlesOf, FinitelyNamed

LEMMA IdleState == L!Idle \in ThreadState
BY DEF L!Idle, ThreadState

LEMMA InitInvariant == FinitelyNamed /\ L!Init => IInv
<1> SUFFICES ASSUME FinitelyNamed, L!Init PROVE IInv
  OBVIOUS
<1>1. lOpened \in [lNames -> Nat] /\ lHandles \in Nat
  BY HandlesAreNumbers, MaxName DEF L!Init
<1>2. RequestsOK
  BY <1>1, IdleState DEF L!Init, RequestsOK, L!Idle
<1>3. AnsweredOpened
  BY <1>1 DEF L!Init, AnsweredOpened
<1>. QED  BY <1>2, <1>3 DEF IInv

\* A step that leaves the map and the answers alone and moves one request.
LEMMA OneMoves ==
    ASSUME IInv, NEW t \in Threads, NEW s \in ThreadState,
           lThread' = [lThread EXCEPT ![t] = s],
           s.step # "idle" => s.name \in lNames,
           s.step \in {"list", "insert"} => s.handle # 0,
           lOpened' = lOpened, lAnswered' = lAnswered, lHandles' \in Nat
    PROVE  IInv'
BY DEF IInv, RequestsOK, AnsweredOpened

\* A step that answers handle h for the graph of request t.
LEMMA AnswerOpened ==
    ASSUME IInv, NEW t \in Threads, NEW h \in Nat \ {0}, lThread[t].step # "idle",
           L!Answer(t, h), lOpened' = [lOpened EXCEPT ![lThread[t].name] = h],
           lOpened[lThread[t].name] \in {0, h}, lHandles' \in Nat
    PROVE  IInv'
<1>1. lThread[t].name \in lNames
  BY DEF IInv, RequestsOK
<1>2. lThread' \in [Threads -> ThreadState]
  BY IdleState DEF IInv, RequestsOK, L!Answer, ThreadState
<1>3. ASSUME NEW u \in Threads
      PROVE  /\ lThread'[u].step # "idle" => lThread'[u].name \in lNames
             /\ lThread'[u].step \in {"list", "insert"} => lThread'[u].handle # 0
  BY <1>1 DEF IInv, RequestsOK, L!Answer, ThreadState, L!Idle
<1>4. lOpened' \in [lNames -> Nat]
  BY DEF IInv, RequestsOK
<1>5. AnsweredOpened'
  BY <1>1 DEF IInv, RequestsOK, AnsweredOpened, L!Answer
<1>. QED  BY <1>2, <1>3, <1>4, <1>5 DEF IInv, RequestsOK

LEMMA StepInvariant == FinitelyNamed /\ IInv /\ [L!Next]_(L!vars) => IInv'
<1> SUFFICES ASSUME FinitelyNamed, IInv, [L!Next]_(L!vars) PROVE IInv'
  OBVIOUS
<1> USE DEF RequestsOK, AnsweredOpened
<1>1. ASSUME NEW t \in Threads, NEW n \in lNames, NEW m \in lMetas \cup {lNoMeta}, L!Request(t, n, m)
      PROVE  IInv'
  <2>1. [L!Idle EXCEPT !.step = "get", !.name = n, !.meta = m] \in ThreadState
    BY DEF L!Idle, ThreadState
  <2>2. lHandles' \in Nat
    BY <1>1 DEF L!Request, IInv
  <2>. QED  BY <1>1, <2>1, <2>2, OneMoves DEF L!Request, L!Idle
<1>2. ASSUME NEW t \in Threads, L!GetOpened(t)
      PROVE  IInv'
  <2>1. lThread[t].name \in lNames /\ lThread[t].step # "idle"
    BY <1>2 DEF L!GetOpened, L!At, IInv
  <2>2. lOpened' = [lOpened EXCEPT ![lThread[t].name] = lOpened[lThread[t].name]]
    BY <1>2, <2>1 DEF L!GetOpened, IInv
  <2>. QED  BY <1>2, <2>1, <2>2, AnswerOpened DEF L!GetOpened, IInv
<1>3. ASSUME NEW t \in Threads, L!Missed(t)
      PROVE  IInv'
  BY <1>3 DEF L!Missed, L!At, L!Goto, IInv, ThreadState
<1>4. ASSUME NEW t \in Threads, L!Open(t)
      PROVE  IInv'
  <2>1. lHandles' \in Nat \ {0}
    BY <1>4 DEF L!Open, IInv
  <2>2. lThread' = [lThread EXCEPT ![t] = [lThread[t] EXCEPT !.step = "list", !.handle = lHandles']]
    BY <1>4 DEF L!Open, IInv
  <2>3. lThread[t] \in ThreadState /\ lThread[t].name \in lNames
    BY <1>4 DEF L!Open, L!At, IInv
  <2>4. [lThread[t] EXCEPT !.step = "list", !.handle = lHandles'] \in ThreadState
    BY <2>1, <2>3 DEF ThreadState
  <2>. QED  BY <1>4, <2>1, <2>2, <2>3, <2>4, OneMoves DEF L!Open, ThreadState
<1>5. ASSUME NEW t \in Threads, L!List(t)
      PROVE  IInv'
  BY <1>5 DEF L!List, L!At, L!Goto, IInv, ThreadState
<1>6. ASSUME NEW t \in Threads, L!Insert(t)
      PROVE  IInv'
  <2>1. lThread[t].name \in lNames /\ lThread[t].step # "idle"
    BY <1>6 DEF L!Insert, L!At, IInv
  <2>2. L!Kept(lThread[t].name, lThread[t].handle) \in Nat \ {0}
    BY <1>6, <2>1 DEF L!Insert, L!At, L!Kept, IInv, ThreadState
  <2>. QED  BY <1>6, <2>1, <2>2, AnswerOpened DEF L!Insert, L!Kept, IInv
<1>7. ASSUME NEW t \in Threads, L!Describe(t)
      PROVE  IInv'
  <2>1. lHandles' \in Nat
    BY <1>7 DEF L!Describe, IInv
  <2>. QED  BY <1>7, <2>1, IdleState, OneMoves DEF L!Describe, L!Idle
<1>8. ASSUME NEW t \in Threads, NEW n \in lNames, NEW m \in lMetas, L!UpdateMeta(t, n, m)
      PROVE  IInv'
  <2>1. [L!Idle EXCEPT !.step = "describe", !.name = n, !.meta = m] \in ThreadState
    BY DEF L!Idle, ThreadState
  <2>2. lHandles' \in Nat
    BY <1>8 DEF L!UpdateMeta, IInv
  <2>. QED  BY <1>8, <2>1, <2>2, OneMoves DEF L!UpdateMeta, L!Idle
<1>9. ASSUME NEW t \in Threads, NEW n \in lNames, L!SetDefault(t, n)
      PROVE  IInv'
  BY <1>9 DEF L!SetDefault, IInv
<1>10. ASSUME NEW t \in Threads, NEW n \in lNames, L!Close(t, n)
      PROVE  IInv'
  BY <1>10 DEF L!Close, IInv, L!Idle, ThreadState
<1>11. ASSUME NEW t \in Threads, L!RemoveDir(t)
      PROVE  IInv'
  BY <1>11 DEF L!RemoveDir, L!At, L!Goto, IInv, ThreadState
<1>12. ASSUME NEW t \in Threads, L!Unlist(t)
      PROVE  IInv'
  <2>1. lHandles' \in Nat
    BY <1>12 DEF L!Unlist, IInv
  <2>. QED  BY <1>12, <2>1, IdleState, OneMoves DEF L!Unlist, L!Idle
<1>13. CASE L!Crash
  BY <1>13, IdleState DEF L!Crash, IInv, L!Idle
<1>14. CASE L!Restart
  <2>1. lOpened' \in [lNames -> Nat] /\ lHandles' \in Nat
    BY <1>14, HandlesAreNumbers, MaxName DEF L!Restart, IInv
  <2>. QED  BY <1>14, <2>1 DEF L!Restart, IInv
<1>15. CASE UNCHANGED L!vars
  BY <1>15 DEF L!vars, IInv
<1>. QED  BY <1>1, <1>2, <1>3, <1>4, <1>5, <1>6, <1>7, <1>8, <1>9, <1>10, <1>11, <1>12, <1>13, <1>14, <1>15 DEF L!Next

\* What is answered is what is in the map: one instance at most.
LEMMA OneInstance == ASSUME FinitelyNamed PROVE L!Spec => []L!OneHandle
<1>1. IInv => L!OneHandle
  <2> SUFFICES ASSUME IInv, NEW n \in lNames PROVE Cardinality(lAnswered[n]) <= 1
    BY GraphsLibrary DEF L!OneHandle
  <2>1. lAnswered[n] = {} \/ lAnswered[n] = {lOpened[n]}
    BY DEF IInv, AnsweredOpened
  <2>2. Cardinality({}) = 0
    BY FS_EmptySet
  <2>3. Cardinality({lOpened[n]}) = 1
    BY FS_Singleton
  <2>. QED  BY <2>1, <2>2, <2>3
<1>2. L!Init => IInv
  BY InitInvariant
<1>3. IInv /\ [L!Next]_(L!vars) => IInv'
  BY StepInvariant
<1>. QED  BY <1>1, <1>2, <1>3, PTL DEF L!Spec

(***************************************************************************)
(* However many requests get, create and delete graphs at the same time,   *)
(* and wherever the process dies, all of them work on the same open graph  *)
(* of a name until it is deleted.                                          *)
(***************************************************************************)
THEOREM RequestsShareOneGraph == ComponentsSpec => []OneHandle
<1>1. FinitelyNamed
  BY ComponentsAssumption DEF FinitelyNamed
<1>2. L!OneHandle => OneHandle
  BY DEF OneHandle
<1>. QED  BY <1>1, <1>2, OneInstance, GraphsRun, PTL

-----------------------------------------------------------------------------
(***************************************************************************)
(* A finite set of numbers can be listed in order.                         *)
(***************************************************************************)
LEMMA MinimalElement ==
    ASSUME NEW R, NEW X, NEW Y, Y \subseteq X, Y # {}, IsWellFoundedOn(R, X)
    PROVE  \E n \in Y : \A m \in Y : ~(<<m, n>> \in R)
BY WFMin, Zenon

LEMMA LeastBy ==
    ASSUME NEW R, NEW Y \in SUBSET Nat, Y # {}, IsWellFoundedOn(R, Nat),
           \A m, n \in Nat : m < n => <<m, n>> \in R
    PROVE  \E n \in Y : \A m \in Y : n <= m
<1>1. Y \subseteq Nat
  OBVIOUS
<1>2. PICK n \in Y : \A m \in Y : ~(<<m, n>> \in R)
  BY <1>1, MinimalElement, Zenon
<1>3. ASSUME NEW m \in Y PROVE n <= m
  <2>1. m \in Nat /\ n \in Nat
    OBVIOUS
  <2>2. ~(m < n)
    BY <1>2, <2>1, Zenon
  <2>. QED  BY <2>1, <2>2
<1>. QED  BY <1>3

LEMMA LeastNumber ==
    ASSUME NEW Y \in SUBSET Nat, Y # {}
    PROVE  \E n \in Y : \A m \in Y : n <= m
<1>1. \A m, n \in Nat : m < n => <<m, n>> \in OpToRel(<, Nat)
  BY DEF OpToRel
<1>. QED  BY <1>1, NatLessThanWellFounded, LeastBy, Zenon

Rising(q) == \A i, j \in DOMAIN q : i < j => q[i] < q[j]
Listing(X, q) == q \in SetToSeqs(X) /\ Rising(q)

\* The least element goes in front of a listing of the others.
LEMMA ListLeastFirst ==
    ASSUME NEW X \in SUBSET Nat, IsFiniteSet(X), NEW m \in X, \A k \in X : m <= k,
           NEW rest, Listing(X \ {m}, rest)
    PROVE  \E q : Listing(X, q)
<1>. DEFINE c == Cardinality(X)
            q == [i \in 1..c |-> IF i = 1 THEN m ELSE rest[i - 1]]
<1>1. c \in Nat /\ Cardinality(X \ {m}) = c - 1
  BY FS_CardinalityType, FS_RemoveElement
<1>2. /\ rest \in [1..(c - 1) -> X \ {m}]
      /\ \A i, j \in 1..(c - 1) : i # j => rest[i] # rest[j]
      /\ \A i, j \in 1..(c - 1) : i < j => rest[i] < rest[j]
  BY <1>1 DEF Listing, SetToSeqs, Rising
<1>. HIDE DEF c
<1>3. \A i \in 1..c : i # 1 => i - 1 \in 1..(c - 1)
  BY <1>1
<1>4. q \in [1..c -> X]
  BY <1>2, <1>3
<1>5. \A i, j \in 1..c : i # j => q[i] # q[j]
  BY <1>1, <1>2, <1>3
<1>6. ASSUME NEW i \in 1..c, NEW j \in 1..c, i < j PROVE q[i] < q[j]
  <2>1. j # 1 /\ j - 1 \in 1..(c - 1) /\ rest[j - 1] \in X \ {m}
    BY <1>1, <1>2, <1>6
  <2>2. CASE i = 1
    <3>1. /\ rest[j - 1] \in X /\ rest[j - 1] # m
          /\ rest[j - 1] \in Nat /\ m \in Nat
      BY <2>1
    <3>2. m <= rest[j - 1]
      BY <3>1
    <3>3. m < rest[j - 1]
      BY <3>1, <3>2
    <3>. QED  BY <2>1, <2>2, <3>3
  <2>3. CASE i # 1
    <3>1. i - 1 \in 1..(c - 1) /\ i - 1 < j - 1
      BY <1>1, <1>6, <2>3
    <3>. QED  BY <1>2, <2>1, <2>3, <3>1
  <2>. QED  BY <2>2, <2>3
<1>7. Listing(X, q)
  BY <1>4, <1>5, <1>6 DEF Listing, SetToSeqs, Rising, c
<1>. QED  BY <1>7

LEMMA ListingExists ==
    ASSUME NEW X \in SUBSET Nat, IsFiniteSet(X)
    PROVE  \E q : Listing(X, q)
<1>. DEFINE Unlisted(n) == \E Y \in SUBSET Nat : /\ IsFiniteSet(Y) /\ Cardinality(Y) = n
                                                 /\ ~\E q : Listing(Y, q)
            Bad == {n \in Nat : Unlisted(n)}
<1>1. ASSUME Bad # {} PROVE FALSE
  <2>1. PICK n \in Bad : \A k \in Bad : n <= k
    BY <1>1, LeastNumber
  <2>2. PICK Y \in SUBSET Nat : IsFiniteSet(Y) /\ Cardinality(Y) = n /\ ~\E q : Listing(Y, q)
    BY <2>1
  <2>3. CASE Y = {}
    <3>1. Cardinality(Y) = 0
      BY <2>3, FS_EmptySet
    <3>2. [i \in 1..0 |-> 0] \in SetToSeqs(Y) /\ Rising([i \in 1..0 |-> 0])
      BY <3>1 DEF SetToSeqs, Rising
    <3>. QED  BY <2>2, <3>2 DEF Listing
  <2>4. CASE Y # {}
    <3>1. PICK m \in Y : \A k \in Y : m <= k
      BY <2>4, LeastNumber
    <3>2. IsFiniteSet(Y \ {m}) /\ Cardinality(Y \ {m}) = n - 1 /\ n - 1 \in Nat
      <4>1. n # 0
        BY <2>2, <2>4, FS_EmptySet
      <4>. QED  BY <2>2, <4>1, FS_RemoveElement
    <3>3. n - 1 \notin Bad
      BY <2>1, <3>2
    <3>4. PICK rest : Listing(Y \ {m}, rest)
      BY <3>2, <3>3
    <3>. QED  BY <2>2, <3>1, <3>4, ListLeastFirst
  <2>. QED  BY <2>3, <2>4
<1>2. Cardinality(X) \in Nat
  BY FS_CardinalityType
<1>. QED  BY <1>1, <1>2

LEMMA AscendingLists ==
    ASSUME NEW X \in SUBSET Nat, IsFiniteSet(X)
    PROVE  /\ L!Ascending(X) \in [1..Cardinality(X) -> X] /\ Cardinality(X) \in Nat
           /\ Rising(L!Ascending(X)) /\ Range(L!Ascending(X)) = X
<1>. DEFINE q == L!Ascending(X)
            c == Cardinality(X)
<1>1. \E p \in SetToSeqs(X) : Rising(p)
  BY ListingExists DEF Listing
<1>2. q \in SetToSeqs(X) /\ Rising(q)
  BY <1>1, GraphsLibrary DEF L!Ascending, Rising
<1>3. c \in Nat /\ q \in [1..c -> X] /\ \A i, j \in 1..c : i # j => q[i] # q[j]
  BY <1>2, FS_CardinalityType DEF SetToSeqs
<1>. HIDE DEF q
<1>4. q \in Injection(1..c, X)
  BY <1>3 DEF Injection, IsInjective
<1>5. Cardinality(1..c) = c
  BY <1>3, FS_Interval
<1>6. q \in Surjection(1..c, X)
  <2>. DEFINE Z == 1..c
  <2>1. q \in Injection(Z, X) /\ Cardinality(Z) = Cardinality(X)
    BY <1>4, <1>5
  <2>. HIDE DEF Z
  <2>2. q \in Surjection(Z, X)
    BY <2>1, FS_Injection
  <2>. QED  BY <2>2 DEF Z
<1>7. Range(q) = X
  <2>1. DOMAIN q = 1..c /\ \A i \in 1..c : q[i] \in X
    BY <1>3
  <2>2. \A s \in X : \E i \in 1..c : q[i] = s
    BY <1>6 DEF Surjection
  <2>. QED  BY <2>1, <2>2 DEF Range
<1>. QED  BY <1>2, <1>3, <1>7 DEF q

-----------------------------------------------------------------------------
(***************************************************************************)
(* What the operations on a registry do to the names in it.                *)
(***************************************************************************)
Entries == [name : lNames, meta : lMetas \cup {lNoMeta}]
Unique(r) == \A i, j \in DOMAIN r.graphs : i # j => r.graphs[i].name # r.graphs[j].name
Registries == {r \in [graphs : Seq(Entries), default : lNames] : Unique(r)}

LEMMA RegistryFacts ==
    ASSUME NEW r \in Registries
    PROVE  /\ r.graphs \in Seq(Entries) /\ r.default \in lNames /\ Unique(r)
           /\ r = [graphs |-> r.graphs, default |-> r.default]
           /\ Len(r.graphs) \in Nat /\ DOMAIN r.graphs = 1..Len(r.graphs)
           /\ \A i \in DOMAIN r.graphs : r.graphs[i] \in Entries /\ r.graphs[i].name \in lNames
           /\ L!NamesOf(r) \subseteq lNames
<1>1. r.graphs \in Seq(Entries) /\ r.default \in lNames /\ Unique(r)
      /\ r = [graphs |-> r.graphs, default |-> r.default]
  BY DEF Registries
<1>2. Len(r.graphs) \in Nat /\ DOMAIN r.graphs = 1..Len(r.graphs)
  BY <1>1, LenProperties
<1>3. \A i \in DOMAIN r.graphs : r.graphs[i] \in Entries /\ r.graphs[i].name \in lNames
  <2>1. \A i \in 1..Len(r.graphs) : r.graphs[i] \in Entries
    BY <1>1, ElementOfSeq
  <2>2. \A e \in Entries : e.name \in lNames
    BY DEF Entries
  <2>. QED  BY <1>2, <2>1, <2>2
<1>4. L!NamesOf(r) \subseteq lNames
  BY <1>3 DEF L!NamesOf
<1>. QED  BY <1>1, <1>2, <1>3, <1>4

LEMMA IsRegistry ==
    ASSUME NEW g \in Seq(Entries), NEW d \in lNames, NEW r, r = [graphs |-> g, default |-> d],
           \A i, j \in DOMAIN g : i # j => g[i].name # g[j].name
    PROVE  r \in Registries
BY DEF Registries, Unique

\* The registry of a single graph, with which a process starts.
LEMMA SingleGraph ==
    ASSUME NEW n \in lNames, NEW r, r = [default |-> n, graphs |-> <<L!Entry(n, lNoMeta)>>]
    PROVE  r \in Registries /\ L!NamesOf(r) = {n}
<1>. DEFINE e == L!Entry(n, lNoMeta)
            g == <<e>>
<1>1. e \in Entries /\ e.name = n
  BY DEF L!Entry, Entries
<1>. HIDE DEF e
<1>2. g \in Seq(Entries) /\ DOMAIN g = {1} /\ g[1] = e
  BY <1>1
<1>3. r.graphs = g
  BY DEF e
<1>. HIDE DEF g
<1>4. r = [graphs |-> g, default |-> n]
  BY DEF g, e
<1>5. \A i, j \in DOMAIN g : i # j => g[i].name # g[j].name
  BY <1>2
<1>6. r \in Registries
  BY <1>2, <1>4, <1>5, IsRegistry
<1>7. L!NamesOf(r) = {n}
  BY <1>1, <1>2, <1>3 DEF L!NamesOf
<1>. QED  BY <1>6, <1>7

LEMMA EnsuredNames ==
    ASSUME NEW r \in Registries, NEW n \in lNames
    PROVE  L!Ensured(r, n) \in Registries /\ L!NamesOf(L!Ensured(r, n)) = L!NamesOf(r) \cup {n}
<1>1. CASE n \in L!NamesOf(r)
  BY <1>1 DEF L!Ensured
<1>2. CASE n \notin L!NamesOf(r)
  <2>. DEFINE e == L!Entry(n, lNoMeta)
              g == Append(r.graphs, e)
              c == Len(r.graphs)
  <2>1. e \in Entries /\ e.name = n
    BY DEF L!Entry, Entries
  <2>2. L!Ensured(r, n) = [graphs |-> g, default |-> r.default]
    <3>1. L!Ensured(r, n) = [r EXCEPT !.graphs = g]
      BY <1>2 DEF L!Ensured
    <3>. HIDE DEF g
    <3>. QED  BY <3>1, RegistryFacts
  <2>. HIDE DEF e
  <2>3. /\ g \in Seq(Entries) /\ c \in Nat /\ DOMAIN r.graphs = 1..c /\ DOMAIN g = 1..(c + 1)
        /\ g[c + 1] = e /\ \A i \in 1..c : g[i] = r.graphs[i]
    BY <2>1, RegistryFacts, AppendProperties
  <2>4. \A i \in 1..c : r.graphs[i].name # n
    BY <1>2, <2>3 DEF L!NamesOf
  <2>. HIDE DEF g, c
  <2>5. \A i, j \in 1..c : i # j => r.graphs[i].name # r.graphs[j].name
    BY <2>3, RegistryFacts DEF Unique
  <2>6. ASSUME NEW i \in DOMAIN g, NEW j \in DOMAIN g, i # j PROVE g[i].name # g[j].name
    BY <2>1, <2>3, <2>4, <2>5, <2>6
  <2>7. L!Ensured(r, n) \in Registries
    BY <2>2, <2>3, <2>6, RegistryFacts, IsRegistry
  <2>8. L!NamesOf(L!Ensured(r, n)) = {g[i].name : i \in 1..(c + 1)}
    BY <2>2, <2>3 DEF L!NamesOf
  <2>9. L!NamesOf(r) = {r.graphs[i].name : i \in 1..c}
    BY <2>3 DEF L!NamesOf
  <2>10. 1..(c + 1) = 1..c \cup {c + 1}
    BY <2>3
  <2>. QED  BY <2>1, <2>3, <2>7, <2>8, <2>9, <2>10
<1>. QED  BY <1>1, <1>2

LEMMA DescribedNames ==
    ASSUME NEW r \in Registries, NEW n \in lNames, NEW m \in lMetas \cup {lNoMeta}
    PROVE  /\ L!Described(r, n, m) \in Registries /\ L!NamesOf(L!Described(r, n, m)) = L!NamesOf(r)
           /\ n \notin L!NamesOf(r) => L!Described(r, n, m) = r
<1>. DEFINE g == [i \in DOMAIN r.graphs |->
                     IF r.graphs[i].name = n THEN L!Entry(n, m) ELSE r.graphs[i]]
            c == Len(r.graphs)
<1>1. L!Described(r, n, m) = [graphs |-> g, default |-> r.default]
  <2>1. L!Described(r, n, m) = [r EXCEPT !.graphs = g]
    BY DEF L!Described
  <2>. HIDE DEF g
  <2>. QED  BY <2>1, RegistryFacts
<1>2. L!Entry(n, m) \in Entries /\ L!Entry(n, m).name = n
  BY DEF L!Entry, Entries
<1>3. /\ DOMAIN g = DOMAIN r.graphs /\ DOMAIN g = 1..c /\ c \in Nat
      /\ \A i \in DOMAIN g : g[i] \in Entries /\ g[i].name = r.graphs[i].name
  BY <1>2, RegistryFacts
<1>4. n \notin L!NamesOf(r) => g = r.graphs
  <2>1. ASSUME n \notin L!NamesOf(r) PROVE \A i \in DOMAIN r.graphs : g[i] = r.graphs[i]
    BY <2>1 DEF L!NamesOf
  <2>2. r.graphs = [i \in DOMAIN r.graphs |-> r.graphs[i]]
    BY RegistryFacts
  <2>. QED  BY <2>1, <2>2
<1>. HIDE DEF g
<1>5. g \in Seq(Entries)
  <2>1. g \in [1..c -> Entries]
    <3>1. g = [i \in DOMAIN g |-> g[i]]
      BY DEF g
    <3>. QED  BY <1>3, <3>1
  <2>. QED  BY <1>3, <2>1
<1>6. \A i, j \in DOMAIN g : i # j => g[i].name # g[j].name
  BY <1>3, RegistryFacts DEF Unique
<1>7. L!Described(r, n, m) \in Registries
  BY <1>1, <1>5, <1>6, RegistryFacts, IsRegistry
<1>8. L!NamesOf(L!Described(r, n, m)) = L!NamesOf(r)
  BY <1>1, <1>3 DEF L!NamesOf
<1>9. n \notin L!NamesOf(r) => L!Described(r, n, m) = r
  BY <1>1, <1>4, RegistryFacts
<1>. QED  BY <1>7, <1>8, <1>9

\* Entries taken from a registry, each once, are a registry.
LEMMA Selected ==
    ASSUME NEW r \in Registries, NEW I \in SUBSET DOMAIN r.graphs, NEW g,
           g = [j \in DOMAIN L!Ascending(I) |-> r.graphs[L!Ascending(I)[j]]]
    PROVE  /\ g \in Seq(Entries)
           /\ \A i, j \in DOMAIN g : i # j => g[i].name # g[j].name
           /\ {g[j].name : j \in DOMAIN g} = {r.graphs[i].name : i \in I}
<1>. DEFINE q == L!Ascending(I)
            c == Cardinality(I)
<1>1. I \in SUBSET Nat /\ IsFiniteSet(I)
  <2>1. I \subseteq 1..Len(r.graphs) /\ IsFiniteSet(1..Len(r.graphs))
    <3>1. Len(r.graphs) \in Nat /\ DOMAIN r.graphs = 1..Len(r.graphs)
      BY RegistryFacts
    <3>. QED  BY <3>1, FS_Interval
  <2>2. IsFiniteSet(I)
    BY <2>1, FS_Subset
  <2>. QED  BY <2>1, <2>2
<1>2. q \in [1..c -> I] /\ c \in Nat /\ Rising(q) /\ Range(q) = I
  BY <1>1, AscendingLists
<1>. HIDE DEF q, c
<1>3. g = [j \in 1..c |-> r.graphs[q[j]]]
  BY <1>2 DEF q
<1>4. \A j \in 1..c : q[j] \in I /\ q[j] \in DOMAIN r.graphs /\ q[j] \in Nat
  BY <1>1, <1>2
<1>5. g \in [1..c -> Entries]
  BY <1>3, <1>4, RegistryFacts
<1>6. \A i, j \in 1..c : i # j => q[i] # q[j]
  <2>1. \A i, j \in 1..c : i < j => q[i] < q[j]
    BY <1>2 DEF Rising
  <2>. QED  BY <1>2, <1>4, <2>1
<1>7. \A i, j \in DOMAIN g : i # j => g[i].name # g[j].name
  <2>1. \A i, j \in DOMAIN r.graphs : i # j => r.graphs[i].name # r.graphs[j].name
    BY RegistryFacts DEF Unique
  <2>. QED  BY <1>3, <1>4, <1>6, <2>1
<1>8. {g[j].name : j \in DOMAIN g} = {r.graphs[i].name : i \in I}
  <2>1. I = {q[j] : j \in 1..c}
    BY <1>2 DEF Range
  <2>2. {g[j].name : j \in DOMAIN g} = {r.graphs[q[j]].name : j \in 1..c}
    BY <1>3
  <2>3. \A i \in I : \E j \in 1..c : i = q[j]
    BY <2>1
  <2>4. ASSUME NEW x PROVE (\E j \in 1..c : x = r.graphs[q[j]].name) <=> (\E i \in I : x = r.graphs[i].name)
    BY <1>4, <2>3, Zenon
  <2>. QED  BY <2>2, <2>4
<1>9. g \in Seq(Entries)
  BY <1>2, <1>5
<1>. QED  BY <1>7, <1>8, <1>9

LEMMA DroppedNames ==
    ASSUME NEW r \in Registries, NEW n \in lNames
    PROVE  L!Dropped(r, n) \in Registries /\ L!NamesOf(L!Dropped(r, n)) = L!NamesOf(r) \ {n}
<1>. DEFINE I == {i \in DOMAIN r.graphs : r.graphs[i].name # n}
            g == [j \in DOMAIN L!Ascending(I) |-> r.graphs[L!Ascending(I)[j]]]
            d == IF r.default = n /\ g # <<>> THEN Head(g).name ELSE r.default
<1>1. L!Dropped(r, n) = [graphs |-> g, default |-> d]
  BY DEF L!Dropped
<1>2. /\ g \in Seq(Entries)
      /\ \A i, j \in DOMAIN g : i # j => g[i].name # g[j].name
      /\ {g[j].name : j \in DOMAIN g} = {r.graphs[i].name : i \in I}
  BY Selected
<1>3. {r.graphs[i].name : i \in I} = L!NamesOf(r) \ {n}
  BY DEF L!NamesOf
<1>. HIDE DEF g
<1>4. d \in lNames
  <2>1. g # <<>> => Head(g) \in Entries
    BY <1>2
  <2>. QED  BY <2>1, RegistryFacts DEF Entries
<1>. HIDE DEF I, d
<1>5. L!Dropped(r, n) \in Registries
  BY <1>1, <1>2, <1>4, IsRegistry
<1>6. L!NamesOf(L!Dropped(r, n)) = {g[j].name : j \in DOMAIN g}
  BY <1>1 DEF L!NamesOf
<1>. QED  BY <1>2, <1>3, <1>5, <1>6

\* A registry made from the directories lists them all, each once.
LEMMA ScannedNames ==
    ASSUME FinitelyNamed, lGraph0 \in lNames, NEW found \in SUBSET lNames
    PROVE  L!Scanned(found) \in Registries /\ found \subseteq L!NamesOf(L!Scanned(found))
<1>1. CASE found = {}
  BY <1>1, SingleGraph DEF L!Scanned
<1>2. CASE found # {}
  <2>. DEFINE q == L!Ascending(found)
              c == Cardinality(found)
              g == [i \in DOMAIN q |-> L!Entry(q[i], lNoMeta)]
  <2>1. found \in SUBSET Nat /\ IsFiniteSet(found)
    <3>1. PICK n \in lNames : \A k \in lNames : n >= k
      BY DEF FinitelyNamed
    <3>2. found \subseteq 0..n /\ n \in Nat
      BY <3>1 DEF FinitelyNamed
    <3>3. IsFiniteSet(0..n)
      BY <3>2, FS_Interval
    <3>4. IsFiniteSet(found)
      BY <3>2, <3>3, FS_Subset
    <3>. QED  BY <3>4 DEF FinitelyNamed
  <2>2. q \in [1..c -> found] /\ c \in Nat /\ Rising(q) /\ Range(q) = found
    BY <2>1, AscendingLists
  <2>3. L!Scanned(found) = [graphs |-> g, default |-> Head(q)]
    BY <1>2 DEF L!Scanned
  <2>. HIDE DEF q, c
  <2>4. \A i \in 1..c : q[i] \in found /\ q[i] \in Nat /\ q[i] \in lNames
    BY <2>1, <2>2
  <2>5. g = [i \in 1..c |-> L!Entry(q[i], lNoMeta)]
    BY <2>2
  <2>6. \A i \in 1..c : L!Entry(q[i], lNoMeta) \in Entries /\ L!Entry(q[i], lNoMeta).name = q[i]
    BY <2>4 DEF L!Entry, Entries
  <2>. HIDE DEF g
  <2>7. g \in [1..c -> Entries] /\ \A i \in 1..c : g[i].name = q[i]
    BY <2>5, <2>6
  <2>8. \A i, j \in 1..c : i # j => q[i] # q[j]
    <3>1. \A i, j \in 1..c : i < j => q[i] < q[j]
      BY <2>2 DEF Rising
    <3>. QED  BY <2>2, <2>4, <3>1
  <2>9. found = {q[i] : i \in 1..c}
    BY <2>2 DEF Range
  <2>10. Head(q) \in lNames
    <3>1. c # 0
      BY <1>2, <2>9
    <3>2. q \in Seq(lNames) /\ q # <<>>
      BY <2>2, <2>4, <3>1
    <3>. QED  BY <3>2
  <2>11. g \in Seq(Entries) /\ \A i, j \in DOMAIN g : i # j => g[i].name # g[j].name
    BY <2>2, <2>7, <2>8
  <2>12. L!Scanned(found) \in Registries
    BY <2>3, <2>10, <2>11, IsRegistry
  <2>13. L!NamesOf(L!Scanned(found)) = {g[i].name : i \in DOMAIN g}
    BY <2>3 DEF L!NamesOf
  <2>14. found \subseteq L!NamesOf(L!Scanned(found))
    BY <2>7, <2>9, <2>13
  <2>. QED  BY <2>12, <2>14
<1>. QED  BY <1>1, <1>2

LEMMA LoadedNames ==
    ASSUME lGraph0 \in lNames, NEW r \in Registries
    PROVE  L!Loaded(r) \in Registries /\ L!NamesOf(r) \subseteq L!NamesOf(L!Loaded(r))
<1>1. CASE r.graphs = <<>>
  <2>1. L!NamesOf(r) = {}
    BY <1>1 DEF L!NamesOf
  <2>. QED  BY <1>1, <2>1, SingleGraph DEF L!Loaded
<1>2. CASE r.graphs # <<>> /\ r.default \in L!NamesOf(r)
  BY <1>2 DEF L!Loaded
<1>3. CASE r.graphs # <<>> /\ r.default \notin L!NamesOf(r)
  <2>. DEFINE d == Head(r.graphs).name
  <2>1. d \in lNames
    <3>1. Head(r.graphs) \in Entries
      BY <1>3, RegistryFacts
    <3>. QED  BY <3>1 DEF Entries
  <2>2. L!Loaded(r) = [graphs |-> r.graphs, default |-> d]
    <3>1. L!Loaded(r) = [r EXCEPT !.default = d]
      BY <1>3 DEF L!Loaded
    <3>. HIDE DEF d
    <3>. QED  BY <3>1, RegistryFacts
  <2>. HIDE DEF d
  <2>3. L!Loaded(r) \in Registries
    BY <2>1, <2>2, RegistryFacts, IsRegistry DEF Unique
  <2>. QED  BY <2>2, <2>3 DEF L!NamesOf
<1>. QED  BY <1>1, <1>2, <1>3

\* What was listed and has a directory is listed after a restart, whether the
\* file can be read or not.
LEMMA StartedNames ==
    ASSUME FinitelyNamed, lGraph0 \in lNames, NEW r \in Registries, NEW found \in SUBSET lNames,
           NEW f, f.reg = r
    PROVE  /\ L!Started(f, found) \in Registries
           /\ L!NamesOf(r) \cap found \subseteq L!NamesOf(L!Started(f, found))
<1>1. CASE f.ok
  BY <1>1, LoadedNames, EnsuredNames DEF L!Started
<1>2. CASE ~f.ok
  BY <1>2, ScannedNames, EnsuredNames DEF L!Started
<1>. QED  BY <1>1, <1>2

-----------------------------------------------------------------------------
(***************************************************************************)
(* The invariant of the second theorem.                                    *)
(***************************************************************************)
\* The registry lists no name twice, and the file says the same; it is not
\* readable at most while the process is down, when there are no requests.
RegistryOK ==
    /\ lReg \in Registries /\ lDirs \subseteq lNames
    /\ lFile.reg = lReg /\ lFile = [ok |-> lFile.ok, reg |-> lFile.reg] /\ (lUp => lFile.ok)
    /\ ~lUp => \A t \in Threads : lThread[t] = L!Idle

Standing == L!NamesOf(lReg) \cap lDirs

SettledOK == lSettled \subseteq Standing /\ lSettled \cap lSpoiled = {}

\* What is open is listed and has its directory,
OpenedOK == \A n \in lNames \ lSpoiled : lOpened[n] # 0 => n \in Standing

\* and so is what a request is about to answer.
OnTheWay ==
    \A t \in Threads : lThread[t].name \notin lSpoiled =>
        /\ lThread[t].step = "list" => lThread[t].name \in lDirs
        /\ lThread[t].step = "insert" => lThread[t].name \in Standing

\* Nobody answers for a graph while it is deleted, or it is spoiled.
DeletionsOK ==
    \A t \in Threads : lThread[t].step \in {"remove", "unlist"} =>
        /\ lThread[t].name \notin lSettled
        /\ lThread[t].name \notin lSpoiled =>
              /\ lOpened[lThread[t].name] = 0
              /\ \A u \in Threads \ {t} :
                    lThread[u].name = lThread[t].name => lThread[u].step \in {"idle", "describe"}

JInv == IInv /\ RegistryOK /\ SettledOK /\ OpenedOK /\ OnTheWay /\ DeletionsOK

\* Names that are listed once.
LEMMA ListedOnce ==
    ASSUME NEW r \in Registries, NEW n \in L!NamesOf(r)
    PROVE  Cardinality({i \in DOMAIN r.graphs : r.graphs[i].name = n}) = 1
<1>1. PICK i \in DOMAIN r.graphs : r.graphs[i].name = n
  BY DEF L!NamesOf
<1>2. {j \in DOMAIN r.graphs : r.graphs[j].name = n} = {i}
  BY <1>1, RegistryFacts DEF Unique
<1>. QED  BY <1>2, FS_Singleton

LEMMA InitJInv == FinitelyNamed /\ lGraph0 \in lNames /\ L!Init => JInv
<1>. SUFFICES ASSUME FinitelyNamed, lGraph0 \in lNames, L!Init PROVE JInv
  OBVIOUS
<1>1. IInv
  BY InitInvariant
<1>2. lReg = L!Scanned({}) /\ lFile = L!Saved(lReg) /\ lDirs = L!NamesOf(lReg) /\ lOpened = L!HandlesOf(lReg, 0)
      /\ lThread = [t \in Threads |-> L!Idle] /\ lSettled = {} /\ lSpoiled = {} /\ lUp = TRUE
  BY DEF L!Init
<1>3. lReg \in Registries
  BY <1>2, ScannedNames
<1>4. RegistryOK
  BY <1>2, <1>3, RegistryFacts DEF RegistryOK, L!Saved
<1>5. SettledOK
  BY <1>2 DEF SettledOK
<1>6. OpenedOK
  BY <1>2 DEF OpenedOK, L!HandlesOf, Standing
<1>7. OnTheWay /\ DeletionsOK
  BY <1>2 DEF OnTheWay, DeletionsOK, L!Idle
<1>. QED  BY <1>1, <1>4, <1>5, <1>6, <1>7 DEF JInv

\* A step that leaves the names in the registry alone and moves request t to a
\* state in which it neither opens nor deletes a graph.
LEMMA Elsewhere ==
    ASSUME JInv, IInv', NEW t \in Threads, NEW s \in ThreadState, lUp,
           lThread' = [lThread EXCEPT ![t] = s],
           s.step \in {"idle", "describe"} \/ (s.step = "get" /\ (L!Deleting(s.name) => s.name \in lSpoiled'))
           \/ (s.step = "open" /\ s.name = lThread[t].name /\ lThread[t].step = "get"),
           UNCHANGED <<lOpened, lDirs, lSettled>>, RegistryOK', L!NamesOf(lReg') = L!NamesOf(lReg),
           lSpoiled \subseteq lSpoiled', lSpoiled' \cap lSettled = {}
    PROVE  JInv'
<1>. USE DEF JInv
<1>1. lThread \in [Threads -> ThreadState]
  BY DEF IInv, RequestsOK
<1>2. lThread'[t] = s /\ \A u \in Threads \ {t} : lThread'[u] = lThread[u]
  BY <1>1
<1>4. SettledOK' /\ OpenedOK'
  BY DEF SettledOK, OpenedOK, Standing
<1>5. OnTheWay'
  BY <1>2 DEF OnTheWay, Standing
<1>6. DeletionsOK'
  <2>1. ASSUME NEW d \in Threads, lThread'[d].step \in {"remove", "unlist"}
        PROVE  /\ lThread'[d].name \notin lSettled'
               /\ lThread'[d].name \notin lSpoiled' =>
                     /\ lOpened'[lThread'[d].name] = 0
                     /\ \A u \in Threads \ {d} : lThread'[u].name = lThread'[d].name
                                                 => lThread'[u].step \in {"idle", "describe"}
    <3>1. d # t /\ lThread'[d] = lThread[d]
      BY <1>2, <2>1
    <3>2. /\ lThread[d].name \notin lSettled
          /\ lThread[d].name \notin lSpoiled =>
                /\ lOpened[lThread[d].name] = 0
                /\ \A u \in Threads \ {d} : lThread[u].name = lThread[d].name
                                            => lThread[u].step \in {"idle", "describe"}
      BY <2>1, <3>1 DEF DeletionsOK
    <3>3. ASSUME lThread[d].name \notin lSpoiled', NEW u \in Threads \ {d},
                 lThread'[u].name = lThread[d].name
          PROVE  lThread'[u].step \in {"idle", "describe"}
      <4>1. CASE u # t
        BY <1>2, <3>2, <3>3, <4>1
      <4>2. CASE u = t
        <5>1. s.name = lThread[d].name /\ s.name \notin lSpoiled'
          BY <1>2, <3>3, <4>2
        <5>2. L!Deleting(s.name)
          BY <2>1, <3>1, <5>1 DEF L!Deleting
        <5>3. ~(s.step = "open" /\ s.name = lThread[t].name /\ lThread[t].step = "get")
          BY <3>1, <3>2, <5>1
        <5>. QED  BY <1>2, <4>2, <5>1, <5>2, <5>3
      <4>. QED  BY <4>1, <4>2
    <3>. QED  BY <3>1, <3>2, <3>3
  <2>. QED  BY <2>1 DEF DeletionsOK
<1>. QED  BY <1>4, <1>5, <1>6

\* An answer for a graph that stands.
LEMMA AnswerSettles ==
    ASSUME JInv, IInv', NEW t \in Threads, NEW h \in Nat \ {0}, lUp,
           lThread[t].step \in {"get", "insert"}, L!Answer(t, h),
           lOpened' = [lOpened EXCEPT ![lThread[t].name] = h],
           lThread[t].name \in Standing \cup lSpoiled, 
           lThread[t].name \in lNames, 
           UNCHANGED <<lReg, lDirs, lFile, lUp, lSpoiled>>
    PROVE  JInv'
<1>. USE DEF JInv
<1>. DEFINE n == lThread[t].name
            s == IF lThread[t].meta = lNoMeta THEN L!Idle ELSE [lThread[t] EXCEPT !.step = "describe"]
<1>1. lThread \in [Threads -> ThreadState] /\ lOpened \in [lNames -> Nat]
  BY DEF IInv, RequestsOK
<1>2. lThread' = [lThread EXCEPT ![t] = s] /\ lSettled' = (lSettled \cup {n}) \ lSpoiled
  BY DEF L!Answer
<1>3. s.step \in {"idle", "describe"}
  BY <1>1 DEF L!Idle, ThreadState
<1>4. lThread'[t] = s /\ \A u \in Threads \ {t} : lThread'[u] = lThread[u]
  BY <1>1, <1>2
<1>5. lOpened'[n] = h /\ \A k \in lNames \ {n} : lOpened'[k] = lOpened[k]
  BY <1>1
<1>. HIDE DEF s, n
<1>6. RegistryOK'
  BY DEF RegistryOK
<1>7. n \in Standing \cup lSpoiled
  BY DEF n
<1>8. SettledOK'
  BY <1>2, <1>7 DEF SettledOK, Standing
<1>9. OpenedOK'
  BY <1>5, <1>7 DEF OpenedOK, Standing
<1>10. OnTheWay'
  BY <1>3, <1>4 DEF OnTheWay, Standing
<1>11. DeletionsOK'
  <2>1. ASSUME NEW d \in Threads, lThread'[d].step \in {"remove", "unlist"}
        PROVE  /\ lThread'[d].name \notin lSettled'
               /\ lThread'[d].name \notin lSpoiled' =>
                     /\ lOpened'[lThread'[d].name] = 0
                     /\ \A u \in Threads \ {d} : lThread'[u].name = lThread'[d].name
                                                 => lThread'[u].step \in {"idle", "describe"}
    <3>1. d # t /\ lThread'[d] = lThread[d] /\ lThread[d].step \in {"remove", "unlist"}
      BY <1>3, <1>4, <2>1
    <3>2. /\ lThread[d].name \notin lSettled
          /\ lThread[d].name \notin lSpoiled =>
                /\ lOpened[lThread[d].name] = 0
                /\ \A u \in Threads \ {d} : lThread[u].name = lThread[d].name
                                            => lThread[u].step \in {"idle", "describe"}
      BY <3>1 DEF DeletionsOK
    <3>3. lThread[d].name \notin lSpoiled => lThread[d].name # n
      BY <3>1, <3>2 DEF n
    <3>4. lThread[d].name \in lNames
      BY <3>1 DEF IInv, RequestsOK
    <3>5. lThread[d].name \notin lSettled'
      BY <1>2, <3>2, <3>3
    <3>6. lThread[d].name \notin lSpoiled => lOpened'[lThread[d].name] = 0
      BY <1>5, <3>2, <3>3, <3>4
    <3>7. ASSUME lThread[d].name \notin lSpoiled, NEW u \in Threads \ {d},
                 lThread'[u].name = lThread[d].name
          PROVE  lThread'[u].step \in {"idle", "describe"}
      <4>1. CASE u = t
        BY <1>3, <1>4, <4>1
      <4>2. CASE u # t
        BY <1>4, <3>2, <3>7, <4>2
      <4>. QED  BY <4>1, <4>2
    <3>. QED  BY <3>1, <3>5, <3>6, <3>7
  <2>. QED  BY <2>1 DEF DeletionsOK
<1>. QED  BY <1>6, <1>8, <1>9, <1>10, <1>11

\* The steps that open a graph: its directory comes first, then its entry.
LEMMA OpenSettles ==
    ASSUME JInv, IInv', NEW t \in Threads, L!Open(t)
    PROVE  JInv'
<1>. USE DEF JInv
<1>. DEFINE n == lThread[t].name
<1>1. lThread \in [Threads -> ThreadState] /\ n \in lNames /\ lUp /\ lThread[t].step = "open"
  BY DEF IInv, RequestsOK, L!Open, L!At
<1>2. /\ lDirs' = lDirs \cup {n} /\ UNCHANGED <<lOpened, lReg, lFile, lUp, lSettled, lSpoiled>>
      /\ lThread' = [lThread EXCEPT ![t] = [lThread[t] EXCEPT !.step = "list", !.handle = lHandles']]
  BY <1>1 DEF L!Open
<1>3. /\ lThread'[t].step = "list" /\ lThread'[t].name = n
      /\ \A u \in Threads \ {t} : lThread'[u] = lThread[u]
  BY <1>1, <1>2 DEF ThreadState
<1>. HIDE DEF n
<1>4. RegistryOK'
  BY <1>1, <1>2 DEF RegistryOK
<1>5. SettledOK' /\ OpenedOK'
  BY <1>2 DEF SettledOK, OpenedOK, Standing
<1>6. OnTheWay'
  BY <1>2, <1>3 DEF OnTheWay, Standing
<1>7. DeletionsOK'
  BY <1>1, <1>2, <1>3 DEF DeletionsOK, n
<1>. QED  BY <1>4, <1>5, <1>6, <1>7

LEMMA ListSettles ==
    ASSUME JInv, IInv', NEW t \in Threads, L!List(t)
    PROVE  JInv'
<1>. USE DEF JInv
<1>. DEFINE n == lThread[t].name
<1>1. lThread \in [Threads -> ThreadState] /\ n \in lNames /\ lUp /\ lThread[t].step = "list"
  BY DEF IInv, RequestsOK, L!List, L!At
<1>2. /\ lReg' = L!Ensured(lReg, n) /\ lFile' = (IF lReg' = lReg THEN lFile ELSE L!Saved(lReg'))
      /\ UNCHANGED <<lOpened, lDirs, lUp, lSettled, lSpoiled>>
      /\ lThread' = [lThread EXCEPT ![t] = [lThread[t] EXCEPT !.step = "insert"]]
  BY <1>1 DEF L!List, L!Goto
<1>3. /\ lThread'[t].step = "insert" /\ lThread'[t].name = n
      /\ \A u \in Threads \ {t} : lThread'[u] = lThread[u]
  BY <1>1, <1>2 DEF ThreadState
<1>. HIDE DEF n
<1>4. lReg' \in Registries /\ L!NamesOf(lReg') = L!NamesOf(lReg) \cup {n}
  BY <1>1, <1>2, EnsuredNames DEF RegistryOK
<1>5. RegistryOK'
  BY <1>1, <1>2, <1>4 DEF RegistryOK, L!Saved
<1>6. SettledOK' /\ OpenedOK'
  BY <1>2, <1>4 DEF SettledOK, OpenedOK, Standing
<1>7. OnTheWay'
  <2>1. n \notin lSpoiled => n \in lDirs
    BY <1>1 DEF OnTheWay, n
  <2>2. Standing \subseteq Standing' /\ (n \in lDirs => n \in Standing')
    BY <1>2, <1>4 DEF Standing
  <2>. QED  BY <1>2, <1>3, <2>1, <2>2 DEF OnTheWay
<1>8. DeletionsOK'
  BY <1>1, <1>2, <1>3 DEF DeletionsOK, n
<1>. QED  BY <1>5, <1>6, <1>7, <1>8

\* A deletion: from the moment the graph leaves the map, nobody is answered for
\* it, except requests that were under way, which spoil it.
LEMMA CloseSettles ==
    ASSUME JInv, IInv', NEW t \in Threads, NEW n \in lNames, L!Close(t, n)
    PROVE  JInv'
<1>. USE DEF JInv
<1>1. /\ lThread \in [Threads -> ThreadState] /\ lOpened \in [lNames -> Nat]
      /\ lUp /\ lThread[t].step = "idle"
  BY DEF IInv, RequestsOK, L!Close, L!At
<1>2. /\ lOpened' = [lOpened EXCEPT ![n] = 0] /\ lSettled' = lSettled \ {n}
      /\ lThread' = [lThread EXCEPT ![t] = [L!Idle EXCEPT !.step = "remove", !.name = n]]
      /\ lSpoiled' = IF \E u \in Threads \ {t} : lThread[u].name = n THEN lSpoiled \cup {n} ELSE lSpoiled
      /\ UNCHANGED <<lReg, lDirs, lFile, lUp>>
  BY DEF L!Close
<1>3. /\ lThread'[t].step = "remove" /\ lThread'[t].name = n
      /\ \A u \in Threads \ {t} : lThread'[u] = lThread[u]
  BY <1>1, <1>2 DEF L!Idle
<1>4. /\ lOpened'[n] = 0 /\ \A k \in lNames \ {n} : lOpened'[k] = lOpened[k]
  BY <1>1, <1>2
<1>5. RegistryOK'
  BY <1>1, <1>2 DEF RegistryOK
<1>6. lSpoiled \subseteq lSpoiled' /\ lSpoiled' \subseteq lSpoiled \cup {n}
  BY <1>2
<1>7. SettledOK' /\ OpenedOK'
  BY <1>2, <1>4, <1>6 DEF SettledOK, OpenedOK, Standing
<1>8. OnTheWay'
  BY <1>2, <1>3, <1>6 DEF OnTheWay, Standing
<1>9. DeletionsOK'
  <2>1. ASSUME NEW d \in Threads, lThread'[d].step \in {"remove", "unlist"}
        PROVE  /\ lThread'[d].name \notin lSettled'
               /\ lThread'[d].name \notin lSpoiled' =>
                     /\ lOpened'[lThread'[d].name] = 0
                     /\ \A u \in Threads \ {d} : lThread'[u].name = lThread'[d].name
                                                 => lThread'[u].step \in {"idle", "describe"}
    <3>1. CASE d = t
      <4>1. n \notin lSpoiled' => \A u \in Threads \ {t} : lThread[u].name # n
        BY <1>2
      <4>. QED  BY <1>2, <1>3, <1>4, <3>1, <4>1
    <3>2. CASE d # t
      <4>1. lThread'[d] = lThread[d] /\ lThread[d].step \in {"remove", "unlist"}
        BY <1>3, <2>1, <3>2
      <4>2. lThread[d].name \in lNames
        BY <4>1 DEF IInv, RequestsOK
      <4>3. lThread[d].name = n => n \in lSpoiled'
        BY <1>2, <3>2
      <4>4. /\ lThread[d].name \notin lSettled
            /\ lThread[d].name \notin lSpoiled =>
                  /\ lOpened[lThread[d].name] = 0
                  /\ \A u \in Threads \ {d} : lThread[u].name = lThread[d].name
                                              => lThread[u].step \in {"idle", "describe"}
        BY <4>1 DEF DeletionsOK
      <4>5. ASSUME lThread[d].name \notin lSpoiled', NEW u \in Threads \ {d},
                   lThread'[u].name = lThread[d].name
            PROVE  lThread'[u].step \in {"idle", "describe"}
        BY <1>3, <1>6, <4>3, <4>4, <4>5
      <4>. QED  BY <1>2, <1>4, <1>6, <4>1, <4>2, <4>3, <4>4, <4>5
    <3>. QED  BY <3>1, <3>2
  <2>. QED  BY <2>1 DEF DeletionsOK
<1>. QED  BY <1>5, <1>7, <1>8, <1>9

LEMMA DeleteSettles ==
    ASSUME JInv, IInv', NEW t \in Threads, L!RemoveDir(t) \/ L!Unlist(t)
    PROVE  JInv'
<1>. USE DEF JInv
<1>. DEFINE n == lThread[t].name
<1>1. /\ lThread \in [Threads -> ThreadState] /\ n \in lNames /\ lUp
      /\ lThread[t].step \in {"remove", "unlist"}
  BY DEF IInv, RequestsOK, L!RemoveDir, L!Unlist, L!At
<1>2. PICK s \in {"unlist", "idle"} :
        /\ lThread'[t].step = s /\ (s = "unlist" => lThread'[t].name = n)
        /\ \A u \in Threads \ {t} : lThread'[u] = lThread[u]
  <2>1. CASE L!RemoveDir(t)
    <3>1. lThread' = [lThread EXCEPT ![t] = [lThread[t] EXCEPT !.step = "unlist"]]
      BY <1>1, <2>1 DEF L!RemoveDir, L!Goto
    <3>2. /\ lThread'[t].step = "unlist" /\ lThread'[t].name = n
          /\ \A u \in Threads \ {t} : lThread'[u] = lThread[u]
      BY <1>1, <3>1 DEF ThreadState
    <3>. QED  BY <3>2
  <2>2. CASE L!Unlist(t)
    <3>1. /\ lThread'[t].step = "idle"
          /\ \A u \in Threads \ {t} : lThread'[u] = lThread[u]
      BY <1>1, <2>2 DEF L!Unlist, L!Idle
    <3>. QED  BY <3>1
  <2>. QED  BY <2>1, <2>2
<1>3. UNCHANGED <<lOpened, lUp, lSettled, lSpoiled>>
  BY DEF L!RemoveDir, L!Unlist
<1>4. RegistryOK' /\ Standing' = Standing \ {n} /\ lDirs \ {n} \subseteq lDirs'
  <2>1. CASE L!RemoveDir(t)
    BY <2>1, <1>1 DEF L!RemoveDir, RegistryOK, Standing
  <2>2. CASE L!Unlist(t)
    <3>1. lReg' = L!Dropped(lReg, n) /\ lFile' = L!Saved(lReg') /\ lDirs' = lDirs
      BY <2>2 DEF L!Unlist
    <3>2. lReg' \in Registries /\ L!NamesOf(lReg') = L!NamesOf(lReg) \ {n}
      BY <1>1, <3>1, DroppedNames DEF RegistryOK
    <3>. QED  BY <1>1, <1>3, <3>1, <3>2 DEF RegistryOK, Standing, L!Saved
  <2>. QED  BY <2>1, <2>2
<1>5. /\ n \notin lSettled
      /\ n \notin lSpoiled => /\ lOpened[n] = 0
                             /\ \A u \in Threads \ {t} : lThread[u].name = n
                                                         => lThread[u].step \in {"idle", "describe"}
  BY <1>1 DEF DeletionsOK
<1>. HIDE DEF n
<1>6. SettledOK'
  BY <1>3, <1>4, <1>5 DEF SettledOK
<1>7. OpenedOK'
  BY <1>3, <1>4, <1>5 DEF OpenedOK
<1>8. OnTheWay'
  <2>1. ASSUME NEW u \in Threads \ {t}, lThread[u].name \notin lSpoiled,
               lThread[u].step \in {"list", "insert"}
        PROVE  lThread[u].name # n
    BY <1>5, <2>1
  <2>. QED  BY <1>2, <1>3, <1>4, <2>1 DEF OnTheWay
<1>9. DeletionsOK'
  BY <1>1, <1>2, <1>3 DEF DeletionsOK, n
<1>. QED  BY <1>4, <1>6, <1>7, <1>8, <1>9

\* The process dies and starts again.
LEMMA CrashSettles ==
    ASSUME JInv, IInv', L!Crash
    PROVE  JInv'
<1>. USE DEF JInv
<1>1. /\ ~lUp' /\ UNCHANGED <<lOpened, lReg, lDirs, lSettled, lSpoiled>>
      /\ \A t \in Threads : lThread'[t] = L!Idle
      /\ lFile' = lFile \/ lFile' = L!Torn(lFile)
  BY DEF L!Crash
<1>2. RegistryOK'
  BY <1>1 DEF RegistryOK, L!Torn
<1>3. SettledOK' /\ OpenedOK'
  BY <1>1 DEF SettledOK, OpenedOK, Standing
<1>4. OnTheWay' /\ DeletionsOK'
  BY <1>1 DEF OnTheWay, DeletionsOK, L!Idle
<1>. QED  BY <1>2, <1>3, <1>4

LEMMA RestartSettles ==
    ASSUME FinitelyNamed, lGraph0 \in lNames, JInv, IInv', L!Restart
    PROVE  JInv'
<1>. USE DEF JInv
<1>1. /\ lUp' /\ lSpoiled' = {} /\ ~lUp
      /\ lReg' = L!Started(lFile, lDirs) /\ lFile' = L!Saved(lReg') /\ lDirs' = lDirs \cup L!NamesOf(lReg')
      /\ lOpened' = L!HandlesOf(lReg', lHandles) /\ UNCHANGED <<lThread, lSettled>>
  BY DEF L!Restart
<1>2. lReg' \in Registries /\ Standing \subseteq L!NamesOf(lReg') /\ L!NamesOf(lReg') \subseteq lNames
  <2>1. lReg \in Registries /\ lDirs \in SUBSET lNames /\ lFile.reg = lReg
    BY DEF RegistryOK
  <2>. QED  BY <1>1, <2>1, StartedNames, RegistryFacts DEF Standing
<1>3. RegistryOK'
  BY <1>1, <1>2 DEF RegistryOK, L!Saved
<1>4. SettledOK'
  BY <1>1, <1>2 DEF SettledOK, Standing
<1>5. OpenedOK'
  BY <1>1 DEF OpenedOK, Standing, L!HandlesOf
<1>6. \A t \in Threads : lThread'[t].step = "idle"
  BY <1>1 DEF RegistryOK, L!Idle
<1>7. OnTheWay' /\ DeletionsOK'
  BY <1>6 DEF OnTheWay, DeletionsOK
<1>. QED  BY <1>3, <1>4, <1>5, <1>7

LEMMA StepJInv == FinitelyNamed /\ lGraph0 \in lNames /\ JInv /\ [L!Next]_(L!vars) => JInv'
<1>. SUFFICES ASSUME FinitelyNamed, lGraph0 \in lNames, JInv, [L!Next]_(L!vars) PROVE JInv'
  OBVIOUS
<1>1. IInv' /\ IInv
  BY StepInvariant DEF JInv
<1>2. /\ lThread \in [Threads -> ThreadState] /\ RegistryOK
      /\ \A t \in Threads : lThread[t].step # "idle" => lThread[t].name \in lNames
  BY DEF JInv, IInv, RequestsOK
<1>3. ASSUME NEW t \in Threads, NEW n \in lNames, NEW m \in lMetas \cup {lNoMeta}, L!Request(t, n, m)
      PROVE  JInv'
  <2>. DEFINE s == [L!Idle EXCEPT !.step = "get", !.name = n, !.meta = m]
  <2>1. s \in ThreadState /\ s.step = "get" /\ s.name = n
    BY DEF L!Idle, ThreadState
  <2>2. /\ lUp /\ lThread' = [lThread EXCEPT ![t] = s]
        /\ UNCHANGED <<lOpened, lReg, lDirs, lFile, lUp, lSettled>>
        /\ lSpoiled' = IF L!Deleting(n) THEN lSpoiled \cup {n} ELSE lSpoiled
    BY <1>3 DEF L!Request, L!At
  <2>3. L!Deleting(n) => n \notin lSettled
    BY DEF L!Deleting, JInv, DeletionsOK
  <2>4. lSpoiled' \cap lSettled = {} /\ lSpoiled \subseteq lSpoiled' /\ (L!Deleting(n) => n \in lSpoiled')
    BY <2>2, <2>3 DEF JInv, SettledOK
  <2>5. RegistryOK' /\ L!NamesOf(lReg') = L!NamesOf(lReg)
    BY <1>2, <2>2 DEF RegistryOK
  <2>. HIDE DEF s
  <2>. QED  BY <1>1, <2>1, <2>2, <2>4, <2>5, Elsewhere
<1>4. ASSUME NEW t \in Threads, L!GetOpened(t)
      PROVE  JInv'
  <2>. DEFINE h == lOpened[lThread[t].name]
  <2>1. /\ lUp /\ lThread[t].step = "get" /\ lThread[t].name \in lNames /\ h # 0 /\ L!Answer(t, h)
        /\ UNCHANGED <<lOpened, lReg, lDirs, lFile, lUp, lSpoiled>>
    BY <1>2, <1>4 DEF L!GetOpened, L!At
  <2>2. h \in Nat \ {0} /\ lOpened' = [lOpened EXCEPT ![lThread[t].name] = h]
    BY <1>1, <2>1 DEF IInv, RequestsOK
  <2>3. lThread[t].name \in Standing \cup lSpoiled
    BY <2>1 DEF JInv, OpenedOK
  <2>. HIDE DEF h
  <2>. QED  BY <1>1, <2>1, <2>2, <2>3, AnswerSettles
<1>5. ASSUME NEW t \in Threads, L!Missed(t)
      PROVE  JInv'
  <2>. DEFINE s == [lThread[t] EXCEPT !.step = "open"]
  <2>1. /\ lUp /\ lThread[t].step = "get" /\ lThread' = [lThread EXCEPT ![t] = s]
        /\ UNCHANGED <<lOpened, lReg, lDirs, lFile, lUp, lSettled, lSpoiled>>
    BY <1>2, <1>5 DEF L!Missed, L!At, L!Goto
  <2>2. s \in ThreadState /\ s.step = "open" /\ s.name = lThread[t].name
    BY <1>2 DEF ThreadState
  <2>3. RegistryOK' /\ L!NamesOf(lReg') = L!NamesOf(lReg)
    BY <1>2, <2>1 DEF RegistryOK
  <2>4. lSpoiled' \cap lSettled = {} /\ lSpoiled \subseteq lSpoiled'
    BY <2>1 DEF JInv, SettledOK
  <2>. HIDE DEF s
  <2>. QED  BY <1>1, <2>1, <2>2, <2>3, <2>4, Elsewhere
<1>6. ASSUME NEW t \in Threads, L!Insert(t)
      PROVE  JInv'
  <2>. DEFINE h == L!Kept(lThread[t].name, lThread[t].handle)
  <2>1. /\ lUp /\ lThread[t].step = "insert" /\ lThread[t].name \in lNames /\ L!Answer(t, h)
        /\ lOpened' = [lOpened EXCEPT ![lThread[t].name] = h]
        /\ UNCHANGED <<lReg, lDirs, lFile, lUp, lSpoiled>>
    BY <1>2, <1>6 DEF L!Insert, L!At
  <2>2. h \in Nat \ {0}
    BY <1>1, <1>2, <2>1 DEF IInv, RequestsOK, L!Kept, ThreadState
  <2>3. lThread[t].name \in Standing \cup lSpoiled
    BY <2>1 DEF JInv, OnTheWay
  <2>. HIDE DEF h
  <2>. QED  BY <1>1, <2>1, <2>2, <2>3, AnswerSettles
<1>7. ASSUME NEW t \in Threads, L!Describe(t)
      PROVE  JInv'
  <2>. DEFINE n == lThread[t].name
              m == lThread[t].meta
  <2>1. /\ lUp /\ lThread[t].step = "describe" /\ lReg' = L!Described(lReg, n, m)
        /\ lFile' = (IF n \in L!NamesOf(lReg) THEN L!Saved(lReg') ELSE lFile)
        /\ lThread' = [lThread EXCEPT ![t] = L!Idle]
        /\ UNCHANGED <<lOpened, lDirs, lUp, lSettled, lSpoiled>>
    BY <1>7 DEF L!Describe, L!At
  <2>2. n \in lNames /\ m \in lMetas \cup {lNoMeta} /\ lReg \in Registries
    BY <1>2, <2>1 DEF ThreadState, RegistryOK
  <2>. HIDE DEF n, m
  <2>3. /\ lReg' \in Registries /\ L!NamesOf(lReg') = L!NamesOf(lReg)
        /\ n \notin L!NamesOf(lReg) => lReg' = lReg
    BY <2>1, <2>2, DescribedNames
  <2>4. RegistryOK'
    BY <1>2, <2>1, <2>3 DEF RegistryOK, L!Saved
  <2>5. lSpoiled' \cap lSettled = {} /\ lSpoiled \subseteq lSpoiled'
    BY <2>1 DEF JInv, SettledOK
  <2>6. L!Idle \in ThreadState /\ L!Idle.step = "idle"
    BY IdleState DEF L!Idle
  <2>. QED  BY <1>1, <2>1, <2>3, <2>4, <2>5, <2>6, Elsewhere
<1>8. ASSUME NEW t \in Threads, NEW n \in lNames, NEW m \in lMetas, L!UpdateMeta(t, n, m)
      PROVE  JInv'
  <2>. DEFINE s == [L!Idle EXCEPT !.step = "describe", !.name = n, !.meta = m]
  <2>1. s \in ThreadState /\ s.step = "describe"
    BY DEF L!Idle, ThreadState
  <2>2. /\ lUp /\ lThread' = [lThread EXCEPT ![t] = s]
        /\ UNCHANGED <<lOpened, lReg, lDirs, lFile, lUp, lSettled, lSpoiled>>
    BY <1>8 DEF L!UpdateMeta, L!At
  <2>3. RegistryOK' /\ L!NamesOf(lReg') = L!NamesOf(lReg)
    BY <1>2, <2>2 DEF RegistryOK
  <2>4. lSpoiled' \cap lSettled = {} /\ lSpoiled \subseteq lSpoiled'
    BY <2>2 DEF JInv, SettledOK
  <2>. HIDE DEF s
  <2>. QED  BY <1>1, <2>1, <2>2, <2>3, <2>4, Elsewhere
<1>9. ASSUME NEW t \in Threads, NEW n \in lNames, L!SetDefault(t, n)
      PROVE  JInv'
  <2>1. /\ lUp /\ lThread[t].step = "idle" /\ lReg' = [lReg EXCEPT !.default = n]
        /\ lFile' = L!Saved(lReg') /\ UNCHANGED <<lOpened, lDirs, lThread, lUp, lSettled, lSpoiled>>
    BY <1>9 DEF L!SetDefault, L!At
  <2>2. lReg \in Registries
    BY <1>2 DEF RegistryOK
  <2>3. lReg' = [graphs |-> lReg.graphs, default |-> n]
    BY <2>1, <2>2, RegistryFacts
  <2>4. lReg' \in Registries /\ L!NamesOf(lReg') = L!NamesOf(lReg)
    BY <2>2, <2>3, RegistryFacts, IsRegistry DEF L!NamesOf, Unique
  <2>5. RegistryOK'
    BY <1>2, <2>1, <2>4 DEF RegistryOK, L!Saved
  <2>6. lThread' = [lThread EXCEPT ![t] = lThread[t]] /\ lThread[t] \in ThreadState
    BY <1>2, <2>1
  <2>7. lSpoiled' \cap lSettled = {} /\ lSpoiled \subseteq lSpoiled'
    BY <2>1 DEF JInv, SettledOK
  <2>. QED  BY <1>1, <2>1, <2>4, <2>5, <2>6, <2>7, Elsewhere
<1>10. CASE UNCHANGED L!vars
  BY <1>1, <1>10 DEF L!vars, JInv, RegistryOK, SettledOK, OpenedOK, OnTheWay, DeletionsOK, Standing
<1>. QED
  BY <1>1, <1>3, <1>4, <1>5, <1>6, <1>7, <1>8, <1>9, <1>10,
     OpenSettles, ListSettles, CloseSettles, DeleteSettles, CrashSettles, RestartSettles DEF L!Next

\* What was answered is standing, and what is standing is listed once.
LEMMA AnsweredStayListed ==
    ASSUME FinitelyNamed, lGraph0 \in lNames PROVE L!Spec => []L!SettledListed
<1>1. JInv => L!SettledListed
  BY ListedOnce, GraphsLibrary DEF JInv, RegistryOK, SettledOK, Standing, L!SettledListed
<1>2. L!Init => JInv
  BY InitJInv
<1>3. JInv /\ [L!Next]_(L!vars) => JInv'
  BY StepJInv
<1>. QED  BY <1>1, <1>2, <1>3, PTL DEF L!Spec

(***************************************************************************)
(* A graph that a client was answered, and that nobody deletes, stays      *)
(* listed exactly once and keeps its directory, whatever is created and    *)
(* deleted beside it and wherever the process dies, also in the middle of  *)
(* writing the registry.                                                   *)
(***************************************************************************)
THEOREM AnsweredGraphsListed == ComponentsSpec => []SettledListed
<1>1. FinitelyNamed /\ lGraph0 \in lNames
  BY ComponentsAssumption DEF FinitelyNamed
<1>2. L!SettledListed => SettledListed
  BY DEF SettledListed
<1>. QED  BY <1>1, <1>2, AnsweredStayListed, GraphsRun, PTL
=============================================================================
