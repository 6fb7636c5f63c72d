-------------------------- MODULE ComponentsProofs --------------------------
(***************************************************************************)
(* Proofs about three parts of Components: the operations under entity     *)
(* locks (LockedOps, K), the versions of a record (TimeTravel, H) and the  *)
(* documents (Documents, D).                                               *)
(***************************************************************************)
EXTENDS Components, SequencesExt, FiniteSetTheorems, FunctionTheorems, SequenceTheorems, TLAPS

-----------------------------------------------------------------------------
(***************************************************************************)
(* The steps of the whole are those of a part, or leave it alone.          *)
(***************************************************************************)
LEMMA LocksRun == ComponentsSpec => K!Spec
<1>1. ComponentsInit => K!Init
  BY DEF ComponentsInit
<1>2. [ComponentsNext]_componentsVars => [K!Next]_(K!vars)
  BY DEF ComponentsNext, componentsVars, kVars, K!vars
<1>. QED  BY <1>1, <1>2, PTL DEF ComponentsSpec, K!Spec

LEMMA VersionsRun == ComponentsSpec => H!Spec
<1>1. ComponentsInit => H!Init
  BY DEF ComponentsInit
<1>2. [ComponentsNext]_componentsVars => [H!Next]_(H!vars)
  BY DEF ComponentsNext, componentsVars, hVars, H!vars
<1>. QED  BY <1>1, <1>2, PTL DEF ComponentsSpec, H!Spec

LEMMA DocumentsRun == ComponentsSpec => D!Spec
<1>1. ComponentsInit => D!Init
  BY DEF ComponentsInit
<1>2. [ComponentsNext]_componentsVars => [D!Next]_(D!vars)
  BY DEF ComponentsNext, componentsVars, dVars, D!vars
<1>. QED  BY <1>1, <1>2, PTL DEF ComponentsSpec, D!Spec

-----------------------------------------------------------------------------
(***************************************************************************)
(* LockedOps.  A record an operation looked up stays the record of its     *)
(* entity while the operation works with it, for any threads, entities and *)
(* assignment of entities to locks.                                        *)
(***************************************************************************)
ThreadState ==
    [op : K!Kinds \cup {"none"}, step : {"idle", "wait", "lookup", "work", "free", "unindex"},
     entity : K!Entities \cup {0}, work : Seq(K!Entities), at : Nat]

\* Types, and what the step of a thread says of its operation.
StepsOK ==
    /\ kIndex \in [K!Entities -> Nat] /\ kFresh \in Nat \ {0}
    /\ kThread \in [Threads -> ThreadState]
    /\ \A t \in Threads :
           /\ kThread[t].step \notin {"idle", "wait"} => kThread[t].work # <<>>
           /\ kThread[t].step # "idle" => kThread[t].entity \in K!Entities
           /\ K!At(t, "free") => K!Op(t) = "update"
           /\ K!At(t, "unindex") => K!Op(t) = "hard_delete"

\* Two threads hold one lock only to read.
Exclusive ==
    \A t, u \in Threads : t # u /\ K!Holds(t) /\ K!Covers(u, kThread[t].entity) => K!Op(t) = "get" /\ K!Op(u) = "get"

\* Two threads that work on one entity hold its lock, or the entity is unguarded.
Guarded ==
    \A x \in K!Entities \ kUnguarded, t, u \in Threads :
        t # u /\ K!WorksOn(t, x) /\ K!WorksOn(u, x) => K!Covers(t, x) /\ K!Covers(u, x)

InUse(t, x) == K!WorksOn(t, x) /\ (K!At(t, "work") \/ K!At(t, "free"))

\* A record belongs to one entity, in the index and in the hands of threads,
\* and a thread that has replaced a record finds another one in the index.
Owned ==
    /\ kFreed \subseteq 1..(kFresh - 1)
    /\ \A x \in K!Entities : kIndex[x] < kFresh
    /\ \A x, y \in K!Entities : x # y /\ kIndex[x] # 0 => kIndex[x] # kIndex[y]
    /\ \A t \in Threads, x \in K!Entities : InUse(t, x) => kThread[t].at \in 1..(kFresh - 1)
    /\ \A t \in Threads, x, y \in K!Entities : x # y /\ InUse(t, x) => kIndex[y] # kThread[t].at
    /\ \A t, u \in Threads, x, y \in K!Entities :
           x # y /\ InUse(t, x) /\ InUse(u, y) => kThread[t].at # kThread[u].at
    /\ \A t \in Threads, x \in K!Entities : K!WorksOn(t, x) /\ K!At(t, "free") => kIndex[x] # kThread[t].at

IInv == StepsOK /\ Exclusive /\ Guarded /\ Owned /\ K!LookedUpStays

-----------------------------------------------------------------------------
LEMMA SequenceOf ==
    ASSUME NEW X, IsFiniteSet(X)
    PROVE  SetToSeq(X) \in Seq(X)
<1>1. Cardinality(X) \in Nat /\ ExistsBijection(1..Cardinality(X), X)
  BY FS_CardinalityType
<1>2. \E f \in [1..Cardinality(X) -> X] : IsInjective(f)
  BY <1>1 DEF ExistsBijection, Bijection, Injection
<1>3. SetToSeq(X) \in [1..Cardinality(X) -> X]
  BY <1>2 DEF SetToSeq
<1>. QED  BY <1>1, <1>3

LEMMA Numbered ==
    ASSUME IsFiniteSet(K!Entities)
    PROVE  /\ Cardinality(K!Entities) \in Nat
           /\ \E f \in [K!Entities -> 1..Cardinality(K!Entities)] : IsInjective(f)
<1>1. Cardinality(K!Entities) \in Nat /\ ExistsBijection(1..Cardinality(K!Entities), K!Entities)
  BY FS_CardinalityType
<1>2. ExistsBijection(K!Entities, 1..Cardinality(K!Entities))
  BY <1>1, Fun_ExistsBijSymmetric
<1>. QED  BY <1>1, <1>2 DEF ExistsBijection, Bijection, Injection

\* The library's operators are those of LockedOps.
LEMMA LocksLibrary ==
    ASSUME NEW X
    PROVE  /\ K!Cardinality(X) = Cardinality(X)
           /\ K!IsInjective(X) <=> IsInjective(X)
           /\ K!SetToSeq(X) = SetToSeq(X)
<1>1. \A Y : K!Cardinality(Y) = Cardinality(Y)
  BY DEF K!Cardinality, Cardinality
<1>2. \A Y : K!IsInjective(Y) <=> IsInjective(Y)
  BY DEF K!IsInjective, IsInjective
<1>. QED  BY <1>1, <1>2 DEF K!SetToSeq, SetToSeq

LEMMA LocksStart ==
    K!Init <=> /\ kIndex = CHOOSE f \in [K!Entities -> 1..Cardinality(K!Entities)] : IsInjective(f)
               /\ kFreed = {} /\ kFresh = Cardinality(K!Entities) + 1
               /\ kThread = [t \in Threads |-> K!Idle]
               /\ kOps = 0 /\ kUnguarded = {}
BY LocksLibrary DEF K!Init

LEMMA IdleState == K!Idle \in ThreadState
BY DEF K!Idle, ThreadState

\* Two threads that work on a guarded entity both read it.
LEMMA BothRead ==
    ASSUME IInv, NEW x \in K!Entities \ kUnguarded, NEW t \in Threads, NEW u \in Threads, t # u,
           K!WorksOn(t, x), K!WorksOn(u, x)
    PROVE  K!Op(t) = "get" /\ K!Op(u) = "get"
<1>1. K!Covers(t, x) /\ K!Covers(u, x)
  BY DEF IInv, Guarded
<1>2. K!Holds(t) /\ K!Covers(u, kThread[t].entity)
  BY <1>1 DEF K!Covers
<1>. QED  BY <1>2 DEF IInv, Exclusive

LEMMA InitInvariant == IsFiniteSet(K!Entities) /\ K!Init => IInv
<1> SUFFICES ASSUME IsFiniteSet(K!Entities), K!Init PROVE IInv
  OBVIOUS
<1>1. kIndex \in [K!Entities -> 1..Cardinality(K!Entities)] /\ IsInjective(kIndex)
  BY Numbered, LocksStart
<1>2. StepsOK
  BY <1>1, Numbered, IdleState, LocksStart DEF StepsOK, K!Idle, K!At
<1>3. Exclusive /\ Guarded
  BY LocksStart DEF Exclusive, Guarded, K!Holds, K!WorksOn, K!Idle
<1>4. /\ \A t \in Threads, x \in K!Entities : ~InUse(t, x) /\ ~K!WorksOn(t, x)
      /\ kFreed = {} /\ kFresh = Cardinality(K!Entities) + 1
  BY LocksStart DEF InUse, K!WorksOn, K!At, K!Idle
<1>5. \A x \in K!Entities : kIndex[x] \in 1..Cardinality(K!Entities) /\ kIndex[x] < kFresh
  BY <1>1, <1>4, Numbered
<1>6. \A x, y \in K!Entities : x # y => kIndex[x] # kIndex[y]
  BY <1>1, Zenon DEF IsInjective
<1>7. Owned
  BY <1>4, <1>5, <1>6, Numbered DEF Owned
<1>8. K!LookedUpStays
  BY <1>1, LocksStart DEF K!LookedUpStays, K!At, K!WorksOn, K!Idle
<1>. QED  BY <1>2, <1>3, <1>7, <1>8 DEF IInv

-----------------------------------------------------------------------------
\* The state of one thread changes: it waits, is done, or goes on with the
\* operation it holds a lock for, on the entity it works on or the next one.
LEMMA LocksKept ==
    ASSUME IInv, NEW t \in Threads, NEW s \in ThreadState, kThread' = [kThread EXCEPT ![t] = s],
           \/ s.step \in {"idle", "wait"}
           \/ kThread[t].step \notin {"idle", "wait"} /\ s.op = K!Op(t) /\ s.entity = kThread[t].entity
    PROVE  Exclusive'
<1>1. ASSUME NEW u \in Threads, K!Holds(u)'
      PROVE  K!Holds(u) /\ kThread'[u].entity = kThread[u].entity /\ K!Op(u)' = K!Op(u)
  BY <1>1 DEF IInv, StepsOK, K!Holds, K!Op
<1>. QED  BY <1>1 DEF IInv, Exclusive, K!Covers

LEMMA GuardKept ==
    ASSUME IInv, NEW t \in Threads, NEW s \in ThreadState, kThread' = [kThread EXCEPT ![t] = s],
           \/ s.step \in {"idle", "wait", "lookup"}
           \/ /\ kThread[t].step \notin {"idle", "wait", "lookup"} /\ s.op = K!Op(t)
              /\ s.entity = kThread[t].entity /\ s.work = kThread[t].work,
           kUnguarded \subseteq kUnguarded'
    PROVE  Guarded'
<1>1. ASSUME NEW u \in Threads, NEW x \in K!Entities, K!WorksOn(u, x)'
      PROVE  K!WorksOn(u, x) /\ (K!Covers(u, x)' <=> K!Covers(u, x))
  BY <1>1 DEF IInv, StepsOK, K!WorksOn, K!Covers, K!Holds, K!Op, K!Now
<1>. QED  BY <1>1 DEF IInv, Guarded

\* What a thread may become.
Sound(s) ==
    /\ s \in ThreadState
    /\ s.step \notin {"idle", "wait"} => s.work # <<>>
    /\ s.step # "idle" => s.entity \in K!Entities
    /\ s.step = "free" => s.op = "update"
    /\ s.step = "unindex" => s.op = "hard_delete"

LEMMA StepsKept ==
    ASSUME IInv, NEW t \in Threads, NEW s, Sound(s), kThread' = [kThread EXCEPT ![t] = s],
           kIndex' \in [K!Entities -> Nat], kFresh' \in Nat \ {0}
    PROVE  StepsOK'
BY DEF IInv, StepsOK, Sound, K!At, K!Op

\* A thread that changes nothing but itself and looks no record up.
LEMMA RecordsKept ==
    ASSUME IInv, NEW t \in Threads, NEW s \in ThreadState, kThread' = [kThread EXCEPT ![t] = s],
           s.step \in {"idle", "wait", "lookup"}, ~K!At(t, "unindex"),
           UNCHANGED <<kIndex, kFreed, kFresh>>, kUnguarded \subseteq kUnguarded'
    PROVE  Owned' /\ K!LookedUpStays'
<1>1. ASSUME NEW u \in Threads, NEW x \in K!Entities, K!WorksOn(u, x)'
      PROVE  K!WorksOn(u, x) /\ kThread'[u] = kThread[u]
  BY <1>1 DEF IInv, StepsOK, K!WorksOn, K!Now
<1>2. ASSUME NEW u \in Threads, NEW x \in K!Entities, InUse(u, x)'
      PROVE  InUse(u, x) /\ kThread'[u] = kThread[u]
  BY <1>1, <1>2 DEF InUse, K!At
<1>4. Owned'
  <2>1. \A u \in Threads, x \in K!Entities : InUse(u, x)' => kThread'[u].at \in 1..(kFresh' - 1)
    BY <1>2 DEF IInv, Owned
  <2>2. \A u \in Threads, x, y \in K!Entities : x # y /\ InUse(u, x)' => kIndex'[y] # kThread'[u].at
    BY <1>2 DEF IInv, Owned
  <2>3. \A u, v \in Threads, x, y \in K!Entities :
            x # y /\ InUse(u, x)' /\ InUse(v, y)' => kThread'[u].at # kThread'[v].at
    BY <1>2 DEF IInv, Owned
  <2>4. \A u \in Threads, x \in K!Entities : K!WorksOn(u, x)' /\ K!At(u, "free")' => kIndex'[x] # kThread'[u].at
    BY <1>1 DEF IInv, Owned, K!At
  <2>. QED  BY <2>1, <2>2, <2>3, <2>4 DEF IInv, Owned
<1>3. ASSUME NEW u \in Threads, NEW x \in K!Entities, K!WorksOn(u, x), K!At(u, "unindex")
      PROVE  K!WorksOn(u, x)' /\ K!At(u, "unindex")'
  BY <1>3 DEF IInv, StepsOK, K!WorksOn, K!Now, K!At
<1>5. K!LookedUpStays'
  BY <1>1, <1>3 DEF IInv, K!LookedUpStays, K!At
<1>. QED  BY <1>4, <1>5

\* After an entity comes the next of its cascade, or the end.
LEMMA FurtherState ==
    ASSUME IInv, NEW t \in Threads, kThread[t].step \notin {"idle", "wait"}
    PROVE  \E s : /\ Sound(s) /\ K!Further(t) = [kThread EXCEPT ![t] = s]
                  /\ \/ s.step = "idle"
                     \/ s.step = "lookup" /\ s.op = K!Op(t) /\ s.entity = kThread[t].entity
<1>1. CASE Len(kThread[t].work) = 1
  <2>1. Sound(K!Idle)
    BY IdleState DEF Sound, K!Idle
  <2>2. K!Further(t) = [kThread EXCEPT ![t] = K!Idle]
    BY <1>1 DEF K!Further, K!Done
  <2>3. K!Idle.step = "idle"
    BY DEF K!Idle
  <2>. QED  BY <2>1, <2>2, <2>3
<1>2. CASE Len(kThread[t].work) # 1
  <2> DEFINE s == [kThread[t] EXCEPT !.step = "lookup", !.work = Tail(@)]
  <2>1. kThread[t] \in ThreadState /\ kThread[t].work # <<>> /\ kThread[t].entity \in K!Entities
    BY DEF IInv, StepsOK
  <2>2. kThread[t].work \in Seq(K!Entities)
    BY <2>1 DEF ThreadState
  <2>3. Len(kThread[t].work) \in Nat \ {0}
    BY <2>1, <2>2, EmptySeq
  <2>4. Tail(kThread[t].work) \in Seq(K!Entities) /\ Len(Tail(kThread[t].work)) = Len(kThread[t].work) - 1
    BY <2>1, <2>2, HeadTailProperties
  <2>5. Len(Tail(kThread[t].work)) # 0
    BY <1>2, <2>3, <2>4
  <2>6. Tail(kThread[t].work) # <<>>
    BY <2>5, EmptySeq
  <2>7. s.step = "lookup" /\ s.op = K!Op(t) /\ s.entity = kThread[t].entity /\ s.work = Tail(kThread[t].work)
    BY <2>1 DEF ThreadState, K!Op
  <2>8. s \in ThreadState
    BY <2>1, <2>4 DEF ThreadState
  <2>9. K!Further(t) = [kThread EXCEPT ![t] = s]
    BY <1>2 DEF K!Further, IInv, StepsOK
  <2> HIDE DEF s
  <2>10. Sound(s)
    BY <2>1, <2>6, <2>7, <2>8 DEF Sound
  <2>. QED  BY <2>7, <2>9, <2>10
<1>. QED  BY <1>1, <1>2

-----------------------------------------------------------------------------
LEMMA BeginStep ==
    ASSUME IInv, NEW t \in Threads, NEW op \in K!Kinds, NEW x \in K!Entities, K!Begin(t, op, x)
    PROVE  IInv'
<1> DEFINE s == [op |-> op, step |-> "wait", entity |-> x, work |-> <<>>, at |-> 0]
<1>1. Sound(s) /\ s \in ThreadState /\ s.step = "wait"
  BY DEF Sound, ThreadState
<1>2. kThread' = [kThread EXCEPT ![t] = s] /\ ~K!At(t, "unindex")
  BY DEF K!Begin, K!At
<1>3. UNCHANGED <<kIndex, kFreed, kFresh, kUnguarded>> /\ kIndex' \in [K!Entities -> Nat] /\ kFresh' \in Nat \ {0}
  BY DEF K!Begin, IInv, StepsOK
<1> HIDE DEF s
<1>. QED  BY <1>1, <1>2, <1>3, StepsKept, LocksKept, GuardKept, RecordsKept DEF IInv

\* The one step that takes a lock.
LEMMA AcquireStep ==
    ASSUME IsFiniteSet(K!Entities), IInv, NEW t \in Threads, K!Acquire(t)
    PROVE  IInv'
<1> DEFINE x == kThread[t].entity
           cascade == IF x \in kVertices /\ K!Op(t) \in {"soft_delete", "hard_delete"} THEN K!Incident(x) ELSE <<>>
           s == [kThread[t] EXCEPT !.step = "lookup", !.work = cascade \o <<x>>]
<1>1. x \in K!Entities /\ kThread[t] \in ThreadState /\ kThread[t].step = "wait"
  BY DEF IInv, StepsOK, K!Acquire, K!At
<1>2. cascade \in Seq(K!Entities)
  <2>1. IsFiniteSet({e \in kEdges : x \in kEnds[e] /\ kIndex[e] # 0})
    BY FS_Subset DEF K!Entities
  <2>2. K!Incident(x) \in Seq({e \in kEdges : x \in kEnds[e] /\ kIndex[e] # 0})
    BY <2>1, SequenceOf, LocksLibrary DEF K!Incident
  <2>3. K!Incident(x) \in Seq(K!Entities)
    BY <2>2, SeqMonotonic DEF K!Entities
  <2>. QED  BY <2>3, EmptySeq
<1>3. <<x>> \in Seq(K!Entities) /\ <<x>> # <<>>
  BY <1>1
<1>4. cascade \o <<x>> \in Seq(K!Entities) /\ cascade \o <<x>> # <<>>
  BY <1>2, <1>3, ConcatProperties, ConcatEqualIffEmpty
<1>5. s \in ThreadState /\ s.step = "lookup" /\ s.entity = x /\ s.op = K!Op(t) /\ s.work = cascade \o <<x>>
  BY <1>1, <1>4 DEF ThreadState, K!Op
<1>6. kThread' = [kThread EXCEPT ![t] = s] /\ UNCHANGED <<kIndex, kFreed, kFresh, kUnguarded>> /\ ~K!At(t, "unindex")
  BY <1>1 DEF K!Acquire, IInv, StepsOK, K!At
<1>7. \A u \in Threads \ {t} : ~K!Conflict(t, u)
  BY DEF K!Acquire
<1> HIDE DEF s, cascade
<1>8. Sound(s)
  BY <1>1, <1>4, <1>5 DEF Sound
<1>9. StepsOK'
  BY <1>6, <1>8, StepsKept DEF IInv, StepsOK
<1>10. Exclusive'
  <2>1. ASSUME NEW u \in Threads, u # t
        PROVE  /\ kThread'[u] = kThread[u] /\ K!Holds(u)' = K!Holds(u) /\ K!Op(u)' = K!Op(u)
               /\ \A y : K!Covers(u, y)' = K!Covers(u, y)
    BY <1>6, <2>1 DEF K!Holds, K!Covers, K!Op, IInv, StepsOK
  <2>2. kThread'[t] = s /\ K!Op(t)' = K!Op(t) /\ kThread'[t].entity = x
    BY <1>5, <1>6 DEF K!Op, IInv, StepsOK
  <2>3. ASSUME NEW u \in Threads, u # t, K!Holds(t)', K!Covers(u, x)
        PROVE  K!Op(t) = "get" /\ K!Op(u) = "get"
    BY <1>7, <2>2, <2>3 DEF K!Conflict, K!Holds
  <2>4. ASSUME NEW u \in Threads, u # t, K!Holds(u), K!Covers(t, kThread[u].entity)'
        PROVE  K!Holds(t)' /\ K!Covers(u, x)
    <3>1. kThread[u].entity \in K!Entities /\ kThread'[u] = kThread[u]
      BY <2>1, <2>4 DEF K!Holds, IInv, StepsOK
    <3>. QED  BY <1>1, <2>2, <2>4, <3>1 DEF K!Covers
  <2>5. ASSUME NEW u \in Threads, NEW v \in Threads, u # v, K!Holds(u)', K!Covers(v, kThread[u].entity)'
        PROVE  K!Op(u)' = "get" /\ K!Op(v)' = "get"
    <3>1. CASE u = t
      BY <2>1, <2>2, <2>3, <2>5, <3>1
    <3>2. CASE v = t
      BY <2>1, <2>2, <2>3, <2>4, <2>5, <3>2
    <3>3. CASE u # t /\ v # t
      BY <2>1, <2>5, <3>3 DEF IInv, Exclusive
    <3>. QED  BY <3>1, <3>2, <3>3
  <2>. QED  BY <2>5 DEF Exclusive
<1>11. Guarded' /\ Owned' /\ K!LookedUpStays'
  BY <1>5, <1>6, GuardKept, RecordsKept
<1>. QED  BY <1>9, <1>10, <1>11 DEF IInv

LEMMA InPlaceStep ==
    ASSUME IInv, NEW t \in Threads, K!InPlace(t)
    PROVE  IInv'
<1>1. kThread[t].step = "work" /\ kThread' = K!Further(t) /\ UNCHANGED <<kIndex, kFreed, kFresh, kUnguarded>>
  BY DEF K!InPlace, K!At
<1>2. PICK s : /\ Sound(s) /\ K!Further(t) = [kThread EXCEPT ![t] = s]
               /\ \/ s.step = "idle"
                  \/ s.step = "lookup" /\ s.op = K!Op(t) /\ s.entity = kThread[t].entity
  BY <1>1, FurtherState
<1>3. s \in ThreadState /\ ~K!At(t, "unindex") /\ kThread' = [kThread EXCEPT ![t] = s]
  BY <1>1, <1>2 DEF Sound, K!At
<1>4. kIndex' \in [K!Entities -> Nat] /\ kFresh' \in Nat \ {0}
  BY <1>1 DEF IInv, StepsOK
<1>. QED  BY <1>1, <1>2, <1>3, <1>4, StepsKept, LocksKept, GuardKept, RecordsKept DEF IInv

\* What a step of one thread leaves to the others.
LEMMA OthersSame ==
    ASSUME IInv, NEW t \in Threads, NEW s, kThread' = [kThread EXCEPT ![t] = s],
           NEW u \in Threads, u # t
    PROVE  /\ kThread'[u] = kThread[u] /\ K!Op(u)' = K!Op(u)
           /\ \A y \in K!Entities : /\ (K!WorksOn(u, y)' <=> K!WorksOn(u, y))
                                 /\ (InUse(u, y)' <=> InUse(u, y))
                                 /\ (K!Covers(u, y)' <=> K!Covers(u, y))
<1>1. kThread'[u] = kThread[u]
  BY DEF IInv, StepsOK
<1>2. \A y \in K!Entities : K!WorksOn(u, y)' <=> K!WorksOn(u, y)
  BY <1>1 DEF K!WorksOn, K!Now
<1>3. \A y \in K!Entities : InUse(u, y)' <=> InUse(u, y)
  BY <1>1, <1>2 DEF InUse, K!At
<1>4. \A y \in K!Entities : K!Covers(u, y)' <=> K!Covers(u, y)
  BY <1>1 DEF K!Covers, K!Holds, K!Op
<1>. QED  BY <1>1, <1>2, <1>3, <1>4 DEF K!Op

LEMMA LookupStep ==
    ASSUME IInv, NEW t \in Threads, K!Lookup(t)
    PROVE  IInv'
<1> DEFINE x == K!Now(t)
           s == [kThread[t] EXCEPT !.step = "work", !.at = kIndex[x]]
<1>1. kThread[t] \in ThreadState /\ kThread[t].step = "lookup" /\ kThread[t].work # <<>>
  BY DEF IInv, StepsOK, K!Lookup, K!At
<1>2. x \in K!Entities
  <2>1. kThread[t].work \in Seq(K!Entities)
    BY <1>1 DEF ThreadState
  <2>. QED  BY <1>1, <2>1, HeadTailProperties DEF K!Now
<1>3. /\ UNCHANGED <<kIndex, kFreed, kFresh>> /\ kUnguarded \subseteq kUnguarded'
      /\ kIndex' \in [K!Entities -> Nat] /\ kFresh' \in Nat \ {0}
  BY DEF K!Lookup, IInv, StepsOK
<1>4. CASE kIndex[x] = 0
  <2>1. kThread' = [kThread EXCEPT ![t] = K!Idle] /\ ~K!At(t, "unindex")
    BY <1>1, <1>4 DEF K!Lookup, K!Done, K!At
  <2>2. Sound(K!Idle) /\ K!Idle.step = "idle"
    BY IdleState DEF Sound, K!Idle
  <2>. QED  BY <1>3, <2>1, <2>2, IdleState, StepsKept, LocksKept, GuardKept, RecordsKept DEF IInv
<1>5. CASE kIndex[x] # 0
  <2>1. /\ s \in ThreadState /\ s.step = "work" /\ s.op = K!Op(t) /\ s.entity = kThread[t].entity
        /\ s.work = kThread[t].work /\ s.at = kIndex[x]
    BY <1>1, <1>2 DEF ThreadState, K!Op, IInv, StepsOK
  <2>2. kThread' = [kThread EXCEPT ![t] = s]
    BY <1>5 DEF K!Lookup, IInv, StepsOK
  <2>3. Sound(s)
    BY <1>1, <2>1 DEF Sound, IInv, StepsOK
  <2> HIDE DEF s
  <2>4. StepsOK' /\ Exclusive'
    BY <1>1, <1>3, <2>1, <2>2, <2>3, StepsKept, LocksKept
  <2>5. ASSUME NEW u \in Threads, u # t
        PROVE  /\ kThread'[u] = kThread[u] /\ K!Op(u)' = K!Op(u)
               /\ \A y \in K!Entities : /\ (K!WorksOn(u, y)' <=> K!WorksOn(u, y))
                                     /\ (InUse(u, y)' <=> InUse(u, y))
                                     /\ (K!Covers(u, y)' <=> K!Covers(u, y))
    BY <2>2, <2>5, OthersSame
  <2>6. kThread'[t] = s
    BY <2>2 DEF IInv, StepsOK
  <2>7. \A y \in K!Entities : /\ (K!WorksOn(t, y)' <=> y = x)
                            /\ (InUse(t, y)' <=> y = x)
                            /\ (K!Covers(t, y)' <=> K!Covers(t, y))
                            /\ ~K!WorksOn(t, y)
    BY <1>1, <2>1, <2>6 DEF K!WorksOn, InUse, K!At, K!Now, K!Covers, K!Holds, K!Op
  <2>8. ASSUME x \notin kUnguarded', NEW u \in Threads, u # t, K!WorksOn(u, x)
        PROVE  K!Covers(t, x) /\ K!Covers(u, x) /\ K!Op(t) = "get" /\ K!Op(u) = "get"
    <3>1. K!Covers(t, x) /\ K!Covers(u, x)
      BY <2>8 DEF K!Lookup
    <3>. QED  BY <2>8, <3>1 DEF IInv, Exclusive, K!Covers
  <2> HIDE DEF x
  <2>9. Guarded'
    <3> SUFFICES ASSUME NEW y \in K!Entities, y \notin kUnguarded', NEW u \in Threads, NEW v \in Threads,
                        u # v, K!WorksOn(u, y)', K!WorksOn(v, y)'
                 PROVE  K!Covers(u, y)' /\ K!Covers(v, y)'
      BY DEF Guarded
    <3>1. CASE u = t
      BY <2>5, <2>7, <2>8, <3>1
    <3>2. CASE v = t
      BY <2>5, <2>7, <2>8, <3>2
    <3>3. CASE u # t /\ v # t
      BY <1>3, <2>5, <3>3 DEF IInv, Guarded
    <3>. QED  BY <3>1, <3>2, <3>3
  <2>12. ASSUME NEW u \in Threads, NEW y \in K!Entities, InUse(u, y)'
         PROVE  \/ u # t /\ InUse(u, y) /\ kThread'[u].at = kThread[u].at
                \/ u = t /\ y = x /\ kThread'[u].at = kIndex[x]
    <3>1. CASE u = t
      BY <2>1, <2>6, <2>7, <2>12, <3>1
    <3>2. CASE u # t
      BY <2>5, <2>12, <3>2
    <3>. QED  BY <3>1, <3>2
  <2>10. Owned'
    <3>1. ASSUME NEW u \in Threads, NEW y \in K!Entities, InUse(u, y)'
          PROVE  kThread'[u].at \in 1..(kFresh' - 1)
      <4>1. kIndex[x] \in 1..(kFresh - 1)
        BY <1>2, <1>5 DEF IInv, Owned, StepsOK
      <4>. QED  BY <1>3, <2>12, <3>1, <4>1 DEF IInv, Owned
    <3>2. ASSUME NEW u \in Threads, NEW y \in K!Entities, NEW z \in K!Entities, y # z, InUse(u, y)'
          PROVE  kIndex'[z] # kThread'[u].at
      BY <1>2, <1>3, <1>5, <2>12, <3>2 DEF IInv, Owned
    <3>3. ASSUME NEW u \in Threads, NEW v \in Threads, NEW y \in K!Entities, NEW z \in K!Entities,
                 y # z, InUse(u, y)', InUse(v, z)'
          PROVE  kThread'[u].at # kThread'[v].at
      <4>1. CASE u # t /\ v # t
        BY <2>12, <3>3, <4>1 DEF IInv, Owned
      <4>2. CASE u = t
        BY <1>2, <2>12, <3>3, <4>2 DEF IInv, Owned
      <4>3. CASE v = t
        BY <1>2, <2>12, <3>3, <4>3 DEF IInv, Owned
      <4>. QED  BY <4>1, <4>2, <4>3
    <3>4. ASSUME NEW u \in Threads, NEW y \in K!Entities, K!WorksOn(u, y)', K!At(u, "free")'
          PROVE  kIndex'[y] # kThread'[u].at
      <4>1. u # t
        BY <2>1, <2>6, <3>4 DEF K!At
      <4>. QED  BY <1>3, <2>5, <3>4, <4>1 DEF IInv, Owned, K!At
    <3>. QED  BY <1>3, <3>1, <3>2, <3>3, <3>4 DEF IInv, Owned
  <2>11. K!LookedUpStays'
    <3> SUFFICES ASSUME NEW y \in K!Entities, y \notin kUnguarded'
                 PROVE  /\ \A u \in Threads : K!WorksOn(u, y)' /\ K!At(u, "work")' => kIndex'[y] = kThread'[u].at
                        /\ \A u \in Threads : K!WorksOn(u, y)' /\ (K!At(u, "work")' \/ K!At(u, "free")') =>
                                              kThread'[u].at \notin kFreed'
                        /\ kIndex'[y] \in kFreed' =>
                               \E u \in Threads : K!WorksOn(u, y)' /\ K!At(u, "unindex")'
      BY DEF K!LookedUpStays
    <3>1. y \in K!Entities \ kUnguarded
      BY <1>3
    <3>2. kIndex[y] \in kFreed => \E u \in Threads : u # t /\ K!WorksOn(u, y) /\ K!At(u, "unindex")
      BY <1>1, <3>1 DEF IInv, K!LookedUpStays, K!At
    <3>3. ASSUME y = x, kIndex[x] \in kFreed
          PROVE  FALSE
      <4>1. PICK u \in Threads : u # t /\ K!WorksOn(u, x) /\ K!At(u, "unindex")
        BY <3>2, <3>3
      <4>. QED  BY <2>8, <3>3, <4>1 DEF IInv, StepsOK
    <3>4. \A u \in Threads : K!WorksOn(u, y)' /\ K!At(u, "work")' => kIndex'[y] = kThread'[u].at
      <4>1. ASSUME NEW u \in Threads, u # t, K!WorksOn(u, y)', K!At(u, "work")'
            PROVE  kIndex'[y] = kThread'[u].at
        BY <1>3, <2>5, <3>1, <4>1 DEF IInv, K!LookedUpStays, K!At
      <4>. QED  BY <1>3, <2>1, <2>6, <2>7, <4>1
    <3>5. \A u \in Threads : K!WorksOn(u, y)' /\ (K!At(u, "work")' \/ K!At(u, "free")') => kThread'[u].at \notin kFreed'
      <4>1. ASSUME NEW u \in Threads, u # t, K!WorksOn(u, y)', K!At(u, "work")' \/ K!At(u, "free")'
            PROVE  kThread'[u].at \notin kFreed'
        BY <1>3, <2>5, <3>1, <4>1 DEF IInv, K!LookedUpStays, K!At
      <4>. QED  BY <1>3, <2>1, <2>6, <2>7, <3>3, <4>1
    <3>6. kIndex'[y] \in kFreed' => \E u \in Threads : K!WorksOn(u, y)' /\ K!At(u, "unindex")'
      BY <1>3, <2>5, <3>2 DEF K!At
    <3>. QED  BY <3>4, <3>5, <3>6
  <2>. QED  BY <2>4, <2>9, <2>10, <2>11 DEF IInv
<1>. QED  BY <1>4, <1>5

-----------------------------------------------------------------------------
\* A thread that changes a guarded entity works on it alone.
LEMMA Alone ==
    ASSUME IInv, NEW x \in K!Entities \ kUnguarded, NEW t \in Threads, K!WorksOn(t, x), K!Op(t) # "get",
           NEW u \in Threads, u # t
    PROVE  ~K!WorksOn(u, x)
BY BothRead

LEMMA Occupied ==
    ASSUME IInv, NEW t \in Threads, kThread[t].step \notin {"idle", "wait", "lookup"}
    PROVE  /\ kThread[t] \in ThreadState /\ kThread[t].work # <<>>
           /\ K!Now(t) \in K!Entities
           /\ \A y \in K!Entities : K!WorksOn(t, y) <=> y = K!Now(t)
<1>1. kThread[t] \in ThreadState /\ kThread[t].work # <<>>
  BY DEF IInv, StepsOK
<1>2. kThread[t].work \in Seq(K!Entities)
  BY <1>1 DEF ThreadState
<1>3. K!Now(t) \in K!Entities
  BY <1>1, <1>2, HeadTailProperties DEF K!Now
<1>. QED  BY <1>1, <1>3 DEF K!WorksOn

LEMMA InstallStep ==
    ASSUME IInv, NEW t \in Threads, K!Install(t)
    PROVE  IInv'
<1> DEFINE x == K!Now(t)
           s == [kThread[t] EXCEPT !.step = "free"]
<1>1. kThread[t].step = "work" /\ K!Op(t) = "update"
  BY DEF K!Install, K!At
<1>2. kThread[t] \in ThreadState /\ kThread[t].work # <<>> /\ x \in K!Entities
  BY <1>1, Occupied
<1>3. \A y \in K!Entities : K!WorksOn(t, y) <=> y = x
  BY <1>1, Occupied
<1>4. /\ s \in ThreadState /\ s.step = "free" /\ s.op = "update" /\ s.entity = kThread[t].entity
      /\ s.work = kThread[t].work /\ s.at = kThread[t].at
  BY <1>1, <1>2 DEF ThreadState, K!Op
<1>5. kThread' = [kThread EXCEPT ![t] = s] /\ kThread'[t] = s
  BY DEF K!Install, K!Goto, IInv, StepsOK
<1>6. /\ kIndex' = [kIndex EXCEPT ![x] = kFresh] /\ kFresh' = kFresh + 1 /\ kFreed' = kFreed /\ kUnguarded' = kUnguarded
      /\ kIndex' \in [K!Entities -> Nat] /\ kFresh' \in Nat \ {0} /\ kFresh \in Nat \ {0}
  BY <1>2 DEF K!Install, IInv, StepsOK
<1> HIDE DEF s
<1>7. Sound(s)
  BY <1>1, <1>2, <1>4 DEF Sound, IInv, StepsOK
<1>8. StepsOK' /\ Exclusive' /\ Guarded'
  BY <1>1, <1>4, <1>5, <1>6, <1>7, StepsKept, LocksKept, GuardKept
<1>9. ASSUME NEW u \in Threads, u # t
      PROVE  /\ kThread'[u] = kThread[u]
             /\ \A y \in K!Entities : (K!WorksOn(u, y)' <=> K!WorksOn(u, y)) /\ (InUse(u, y)' <=> InUse(u, y))
  BY <1>5, <1>9, OthersSame
<1>10. \A y \in K!Entities : (K!WorksOn(t, y)' <=> y = x) /\ (InUse(t, y)' <=> y = x) /\ (InUse(t, y) <=> y = x)
  BY <1>1, <1>3, <1>4, <1>5 DEF K!WorksOn, InUse, K!At, K!Now
<1>11. x \notin kUnguarded => \A u \in Threads : u # t => ~K!WorksOn(u, x)
  BY <1>1, <1>2, <1>3, Alone
<1> HIDE DEF x
<1>12. \A u \in Threads, y \in K!Entities : InUse(u, y)' => InUse(u, y) /\ kThread'[u].at = kThread[u].at
  BY <1>4, <1>5, <1>9, <1>10
<1>13. kIndex'[x] = kFresh /\ \A y \in K!Entities : y # x => kIndex'[y] = kIndex[y]
  BY <1>2, <1>6 DEF IInv, StepsOK
<1>14. Owned'
  <2>1. kFreed' \subseteq 1..(kFresh' - 1) /\ \A y \in K!Entities : kIndex'[y] < kFresh'
    BY <1>6, <1>13 DEF IInv, Owned, StepsOK
  <2>2. \A y, z \in K!Entities : y # z /\ kIndex'[y] # 0 => kIndex'[y] # kIndex'[z]
    BY <1>6, <1>13 DEF IInv, Owned, StepsOK
  <2>3. \A u \in Threads, y \in K!Entities : InUse(u, y)' => kThread'[u].at \in 1..(kFresh' - 1)
    BY <1>6, <1>12 DEF IInv, Owned
  <2>4. \A u \in Threads, y, z \in K!Entities : y # z /\ InUse(u, y)' => kIndex'[z] # kThread'[u].at
    BY <1>6, <1>12, <1>13 DEF IInv, Owned
  <2>5. \A u, v \in Threads, y, z \in K!Entities :
            y # z /\ InUse(u, y)' /\ InUse(v, z)' => kThread'[u].at # kThread'[v].at
    BY <1>12 DEF IInv, Owned
  <2>6. \A u \in Threads, y \in K!Entities : K!WorksOn(u, y)' /\ K!At(u, "free")' => kIndex'[y] # kThread'[u].at
    <3> SUFFICES ASSUME NEW u \in Threads, NEW y \in K!Entities, K!WorksOn(u, y)', K!At(u, "free")'
                 PROVE  kIndex'[y] # kThread'[u].at
      OBVIOUS
    <3>1. InUse(u, y)'
      BY DEF InUse
    <3>2. InUse(u, y) /\ kThread'[u].at = kThread[u].at /\ kThread[u].at \in 1..(kFresh - 1)
      BY <1>12, <3>1 DEF IInv, Owned
    <3>3. CASE y = x
      BY <1>6, <1>13, <3>2, <3>3
    <3>4. CASE y # x
      <4>1. u # t
        BY <1>10, <3>2, <3>4
      <4>. QED  BY <1>9, <1>13, <3>4, <4>1 DEF IInv, Owned, K!At
    <3>. QED  BY <3>3, <3>4
  <2>. QED  BY <2>1, <2>2, <2>3, <2>4, <2>5, <2>6 DEF Owned
<1>15. K!LookedUpStays'
  <2> SUFFICES ASSUME NEW y \in K!Entities, y \notin kUnguarded
               PROVE  /\ \A u \in Threads : K!WorksOn(u, y)' /\ K!At(u, "work")' => kIndex'[y] = kThread'[u].at
                      /\ \A u \in Threads : K!WorksOn(u, y)' /\ (K!At(u, "work")' \/ K!At(u, "free")') =>
                                            kThread'[u].at \notin kFreed'
                      /\ kIndex'[y] \in kFreed' =>
                             \E u \in Threads : K!WorksOn(u, y)' /\ K!At(u, "unindex")'
    BY <1>6 DEF K!LookedUpStays
  <2>1. ASSUME NEW u \in Threads, K!WorksOn(u, y)', K!At(u, "work")'
        PROVE  kIndex'[y] = kThread'[u].at
    <3>1. u # t
      BY <1>4, <1>5, <2>1 DEF K!At
    <3>2. y # x
      BY <1>9, <1>11, <2>1, <3>1
    <3>. QED  BY <1>9, <1>13, <2>1, <3>1, <3>2 DEF IInv, K!LookedUpStays, K!At
  <2>2. ASSUME NEW u \in Threads, K!WorksOn(u, y)', K!At(u, "work")' \/ K!At(u, "free")'
        PROVE  kThread'[u].at \notin kFreed'
    <3>1. InUse(u, y)'
      BY <2>2 DEF InUse
    <3>2. InUse(u, y) /\ kThread'[u].at = kThread[u].at
      BY <1>12, <3>1
    <3>. QED  BY <1>6, <3>2 DEF IInv, K!LookedUpStays, InUse
  <2>3. ASSUME kIndex'[y] \in kFreed'
        PROVE  \E u \in Threads : K!WorksOn(u, y)' /\ K!At(u, "unindex")'
    <3>1. y # x
      BY <1>6, <1>13, <2>3 DEF IInv, Owned
    <3>2. PICK u \in Threads : K!WorksOn(u, y) /\ K!At(u, "unindex")
      BY <1>6, <1>13, <2>3, <3>1 DEF IInv, K!LookedUpStays
    <3>3. u # t
      BY <1>1, <3>2 DEF K!At
    <3>. QED  BY <1>9, <3>2, <3>3 DEF K!At
  <2>. QED  BY <2>1, <2>2, <2>3
<1>. QED  BY <1>8, <1>14, <1>15 DEF IInv

\* A thread frees the record it works with; the index may lead to that record
\* only if the thread is then about to remove the entry.
LEMMA FreedRecord ==
    ASSUME IInv, NEW t \in Threads, K!At(t, "work") \/ K!At(t, "free"), K!Op(t) # "get",
           NEW s, Sound(s), kThread' = [kThread EXCEPT ![t] = s], kFreed' = kFreed \cup {kThread[t].at},
           UNCHANGED <<kIndex, kFresh, kUnguarded>>,
           \/ s.step = "idle" /\ K!At(t, "free")
           \/ s.step = "unindex" /\ s.op = K!Op(t) /\ s.entity = kThread[t].entity /\ s.work = kThread[t].work
    PROVE  IInv'
<1> DEFINE x == K!Now(t)
<1>1. x \in K!Entities /\ \A y \in K!Entities : (K!WorksOn(t, y) <=> y = x) /\ (InUse(t, y) <=> y = x)
  BY Occupied DEF K!At, InUse
<1>2. kThread'[t] = s /\ s \in ThreadState
  BY DEF IInv, StepsOK, Sound
<1>3. kIndex' \in [K!Entities -> Nat] /\ kFresh' \in Nat \ {0}
  BY DEF IInv, StepsOK
<1>4. StepsOK' /\ Exclusive' /\ Guarded'
  BY <1>2, <1>3, StepsKept, LocksKept, GuardKept DEF K!At
<1>5. ASSUME NEW u \in Threads, u # t
      PROVE  /\ kThread'[u] = kThread[u]
             /\ \A y \in K!Entities : (K!WorksOn(u, y)' <=> K!WorksOn(u, y)) /\ (InUse(u, y)' <=> InUse(u, y))
  BY <1>5, OthersSame
<1>6. \A y \in K!Entities : ~InUse(t, y)' /\ (s.step = "unindex" => (K!WorksOn(t, y)' <=> y = x))
  BY <1>2 DEF InUse, K!WorksOn, K!At, K!Now
<1>7. x \notin kUnguarded => \A u \in Threads : u # t => ~K!WorksOn(u, x)
  BY <1>1, Alone
<1>8. kThread[t].at \in 1..(kFresh - 1) /\ \A y \in K!Entities : y # x => kIndex[y] # kThread[t].at
  BY <1>1 DEF IInv, Owned
<1>9. K!At(t, "free") => kIndex[x] # kThread[t].at
  BY <1>1 DEF IInv, Owned
<1> HIDE DEF x
<1>10. \A u \in Threads, y \in K!Entities : InUse(u, y)' => u # t /\ InUse(u, y) /\ kThread'[u].at = kThread[u].at
  BY <1>5, <1>6
<1>11. Owned'
  <2>1. kFreed' \subseteq 1..(kFresh' - 1) /\ \A y \in K!Entities : kIndex'[y] < kFresh'
    BY <1>8 DEF IInv, Owned
  <2>2. \A y, z \in K!Entities : y # z /\ kIndex'[y] # 0 => kIndex'[y] # kIndex'[z]
    BY DEF IInv, Owned
  <2>3. \A u \in Threads, y \in K!Entities : InUse(u, y)' => kThread'[u].at \in 1..(kFresh' - 1)
    BY <1>10 DEF IInv, Owned
  <2>4. \A u \in Threads, y, z \in K!Entities : y # z /\ InUse(u, y)' => kIndex'[z] # kThread'[u].at
    BY <1>10 DEF IInv, Owned
  <2>5. \A u, v \in Threads, y, z \in K!Entities :
            y # z /\ InUse(u, y)' /\ InUse(v, z)' => kThread'[u].at # kThread'[v].at
    BY <1>10 DEF IInv, Owned
  <2>6. ASSUME NEW u \in Threads, NEW y \in K!Entities, K!WorksOn(u, y)', K!At(u, "free")'
        PROVE  kIndex'[y] # kThread'[u].at
    <3>1. u # t
      BY <1>2, <2>6 DEF K!At
    <3>. QED  BY <1>5, <2>6, <3>1 DEF IInv, Owned, K!At
  <2>. QED  BY <2>1, <2>2, <2>3, <2>4, <2>5, <2>6 DEF Owned
<1>12. K!LookedUpStays'
  <2> SUFFICES ASSUME NEW y \in K!Entities, y \notin kUnguarded
               PROVE  /\ \A u \in Threads : K!WorksOn(u, y)' /\ K!At(u, "work")' => kIndex'[y] = kThread'[u].at
                      /\ \A u \in Threads : K!WorksOn(u, y)' /\ (K!At(u, "work")' \/ K!At(u, "free")') =>
                                            kThread'[u].at \notin kFreed'
                      /\ kIndex'[y] \in kFreed' =>
                             \E u \in Threads : K!WorksOn(u, y)' /\ K!At(u, "unindex")'
    BY DEF K!LookedUpStays
  <2>1. ASSUME NEW u \in Threads, K!WorksOn(u, y)', K!At(u, "work")'
        PROVE  kIndex'[y] = kThread'[u].at
    <3>1. u # t
      BY <1>2, <2>1 DEF K!At
    <3>. QED  BY <1>5, <2>1, <3>1 DEF IInv, K!LookedUpStays, K!At
  <2>2. ASSUME NEW u \in Threads, K!WorksOn(u, y)', K!At(u, "work")' \/ K!At(u, "free")'
        PROVE  kThread'[u].at \notin kFreed'
    <3>1. InUse(u, y)'
      BY <2>2 DEF InUse
    <3>2. u # t /\ InUse(u, y) /\ kThread'[u].at = kThread[u].at
      BY <1>10, <3>1
    <3>3. y # x
      BY <1>7, <3>2 DEF InUse
    <3>4. kThread[u].at # kThread[t].at
      BY <1>1, <3>2, <3>3 DEF IInv, Owned
    <3>. QED  BY <3>2, <3>4 DEF IInv, K!LookedUpStays, InUse
  <2>3. ASSUME kIndex'[y] \in kFreed'
        PROVE  \E u \in Threads : K!WorksOn(u, y)' /\ K!At(u, "unindex")'
    <3>1. CASE kIndex[y] \in kFreed
      <4>1. PICK u \in Threads : K!WorksOn(u, y) /\ K!At(u, "unindex")
        BY <3>1 DEF IInv, K!LookedUpStays
      <4>2. u # t
        BY <4>1 DEF K!At
      <4>. QED  BY <1>5, <4>1, <4>2 DEF K!At
    <3>2. CASE kIndex[y] = kThread[t].at
      <4>1. y = x /\ s.step = "unindex"
        BY <1>8, <1>9, <3>2
      <4>. QED  BY <1>1, <1>2, <1>6, <4>1 DEF K!At
    <3>. QED  BY <2>3, <3>1, <3>2
  <2>. QED  BY <2>1, <2>2, <2>3
<1>. QED  BY <1>4, <1>11, <1>12 DEF IInv

LEMMA FreeOldStep ==
    ASSUME IInv, NEW t \in Threads, K!FreeOld(t)
    PROVE  IInv'
<1>1. K!At(t, "free") /\ K!Op(t) = "update"
  BY DEF K!FreeOld, IInv, StepsOK
<1>2. Sound(K!Idle) /\ K!Idle.step = "idle"
  BY IdleState DEF Sound, K!Idle
<1>. QED  BY <1>1, <1>2, FreedRecord DEF K!FreeOld, K!Done

LEMMA FreeStep ==
    ASSUME IInv, NEW t \in Threads, K!Free(t)
    PROVE  IInv'
<1> DEFINE s == [kThread[t] EXCEPT !.step = "unindex"]
<1>1. K!At(t, "work") /\ K!Op(t) = "hard_delete" /\ kThread[t] \in ThreadState
  BY DEF K!Free, IInv, StepsOK
<1>2. /\ s \in ThreadState /\ s.step = "unindex" /\ s.op = K!Op(t) /\ s.entity = kThread[t].entity
      /\ s.work = kThread[t].work
  BY <1>1 DEF ThreadState, K!Op
<1>3. kThread' = [kThread EXCEPT ![t] = s]
  BY DEF K!Free, K!Goto, IInv, StepsOK
<1> HIDE DEF s
<1>4. Sound(s)
  BY <1>1, <1>2 DEF Sound, IInv, StepsOK, K!At
<1>. QED  BY <1>1, <1>2, <1>3, <1>4, FreedRecord DEF K!Free

LEMMA UnindexStep ==
    ASSUME IInv, NEW t \in Threads, K!Unindex(t)
    PROVE  IInv'
<1> DEFINE x == K!Now(t)
<1>1. kThread[t].step = "unindex" /\ K!Op(t) = "hard_delete" /\ kThread' = K!Further(t)
  BY DEF K!Unindex, IInv, StepsOK, K!At
<1>2. PICK s : /\ Sound(s) /\ K!Further(t) = [kThread EXCEPT ![t] = s]
               /\ \/ s.step = "idle"
                  \/ s.step = "lookup" /\ s.op = K!Op(t) /\ s.entity = kThread[t].entity
  BY <1>1, FurtherState
<1>3. kThread' = [kThread EXCEPT ![t] = s] /\ kThread'[t] = s /\ s \in ThreadState
  BY <1>1, <1>2 DEF IInv, StepsOK, Sound
<1>4. x \in K!Entities /\ \A y \in K!Entities : K!WorksOn(t, y) <=> y = x
  BY <1>1, Occupied
<1>5. /\ kIndex' = [kIndex EXCEPT ![x] = 0] /\ kFreed' = kFreed /\ kFresh' = kFresh /\ kUnguarded' = kUnguarded
      /\ kIndex' \in [K!Entities -> Nat] /\ kFresh' \in Nat \ {0}
  BY <1>4 DEF K!Unindex, IInv, StepsOK
<1>6. StepsOK' /\ Exclusive' /\ Guarded'
  BY <1>1, <1>2, <1>3, <1>5, StepsKept, LocksKept, GuardKept
<1>7. ASSUME NEW u \in Threads, u # t
      PROVE  /\ kThread'[u] = kThread[u]
             /\ \A y \in K!Entities : (K!WorksOn(u, y)' <=> K!WorksOn(u, y)) /\ (InUse(u, y)' <=> InUse(u, y))
  BY <1>3, <1>7, OthersSame
<1>8. \A y \in K!Entities : ~K!WorksOn(t, y)' /\ ~InUse(t, y)'
  BY <1>2, <1>3 DEF K!WorksOn, InUse
<1>9. x \notin kUnguarded => \A u \in Threads : u # t => ~K!WorksOn(u, x)
  BY <1>1, <1>4, Alone
<1>10. kIndex'[x] = 0 /\ \A y \in K!Entities : y # x => kIndex'[y] = kIndex[y]
  BY <1>4, <1>5 DEF IInv, StepsOK
<1> HIDE DEF x
<1>11. \A u \in Threads, y \in K!Entities : K!WorksOn(u, y)' => u # t /\ K!WorksOn(u, y) /\ kThread'[u] = kThread[u]
  BY <1>7, <1>8
<1>12. \A u \in Threads, y \in K!Entities : InUse(u, y)' => InUse(u, y) /\ kThread'[u] = kThread[u]
  BY <1>7, <1>8
<1>13. Owned'
  <2>1. kFreed' \subseteq 1..(kFresh' - 1) /\ \A y \in K!Entities : kIndex'[y] < kFresh'
    BY <1>5, <1>10 DEF IInv, Owned, StepsOK
  <2>2. \A y, z \in K!Entities : y # z /\ kIndex'[y] # 0 => kIndex'[y] # kIndex'[z]
    BY <1>10 DEF IInv, Owned
  <2>3. \A u \in Threads, y \in K!Entities : InUse(u, y)' => kThread'[u].at \in 1..(kFresh' - 1)
    BY <1>5, <1>12 DEF IInv, Owned
  <2>4. \A u \in Threads, y, z \in K!Entities : y # z /\ InUse(u, y)' => kIndex'[z] # kThread'[u].at
    <3> SUFFICES ASSUME NEW u \in Threads, NEW y \in K!Entities, NEW z \in K!Entities, y # z, InUse(u, y)'
                 PROVE  kIndex'[z] # kThread'[u].at
      OBVIOUS
    <3>1. kThread'[u].at \in 1..(kFresh - 1) /\ kIndex[z] # kThread'[u].at
      BY <1>12 DEF IInv, Owned
    <3>. QED  BY <1>10, <3>1
  <2>5. \A u, v \in Threads, y, z \in K!Entities :
            y # z /\ InUse(u, y)' /\ InUse(v, z)' => kThread'[u].at # kThread'[v].at
    BY <1>12 DEF IInv, Owned
  <2>6. ASSUME NEW u \in Threads, NEW y \in K!Entities, K!WorksOn(u, y)', K!At(u, "free")'
        PROVE  kIndex'[y] # kThread'[u].at
    <3>1. K!WorksOn(u, y) /\ K!At(u, "free") /\ kThread'[u].at = kThread[u].at
      BY <1>11, <2>6 DEF K!At
    <3>2. kThread[u].at \in 1..(kFresh - 1) /\ kIndex[y] # kThread[u].at
      BY <3>1 DEF IInv, Owned, InUse
    <3>. QED  BY <1>10, <3>1, <3>2
  <2>. QED  BY <2>1, <2>2, <2>3, <2>4, <2>5, <2>6 DEF Owned
<1>14. K!LookedUpStays'
  <2> SUFFICES ASSUME NEW y \in K!Entities, y \notin kUnguarded
               PROVE  /\ \A u \in Threads : K!WorksOn(u, y)' /\ K!At(u, "work")' => kIndex'[y] = kThread'[u].at
                      /\ \A u \in Threads : K!WorksOn(u, y)' /\ (K!At(u, "work")' \/ K!At(u, "free")') =>
                                            kThread'[u].at \notin kFreed'
                      /\ kIndex'[y] \in kFreed' =>
                             \E u \in Threads : K!WorksOn(u, y)' /\ K!At(u, "unindex")'
    BY <1>5 DEF K!LookedUpStays
  <2>1. ASSUME NEW u \in Threads, K!WorksOn(u, y)', K!At(u, "work")'
        PROVE  kIndex'[y] = kThread'[u].at
    <3>1. y # x
      BY <1>9, <1>11, <2>1
    <3>. QED  BY <1>10, <1>11, <2>1, <3>1 DEF IInv, K!LookedUpStays, K!At
  <2>2. ASSUME NEW u \in Threads, K!WorksOn(u, y)', K!At(u, "work")' \/ K!At(u, "free")'
        PROVE  kThread'[u].at \notin kFreed'
    BY <1>5, <1>11, <2>2 DEF IInv, K!LookedUpStays, K!At
  <2>3. ASSUME kIndex'[y] \in kFreed'
        PROVE  \E u \in Threads : K!WorksOn(u, y)' /\ K!At(u, "unindex")'
    <3>1. y # x
      BY <1>5, <1>10, <2>3 DEF IInv, Owned
    <3>2. PICK u \in Threads : K!WorksOn(u, y) /\ K!At(u, "unindex")
      BY <1>5, <1>10, <2>3, <3>1 DEF IInv, K!LookedUpStays
    <3>3. u # t
      BY <1>4, <3>1, <3>2
    <3>. QED  BY <1>7, <3>2, <3>3 DEF K!At
  <2>. QED  BY <2>1, <2>2, <2>3
<1>. QED  BY <1>6, <1>13, <1>14 DEF IInv

-----------------------------------------------------------------------------
LEMMA StepInvariant == IsFiniteSet(K!Entities) /\ IInv /\ [K!Next]_(K!vars) => IInv'
<1> SUFFICES ASSUME IsFiniteSet(K!Entities), IInv, [K!Next]_(K!vars) PROVE IInv'
  OBVIOUS
<1>1. ASSUME NEW t \in Threads, NEW op \in K!Kinds, NEW x \in K!Entities, K!Begin(t, op, x)
      PROVE  IInv'
  BY <1>1, BeginStep
<1>2. ASSUME NEW t \in Threads,
             K!Acquire(t) \/ K!Lookup(t) \/ K!InPlace(t) \/ K!Install(t) \/ K!FreeOld(t) \/ K!Free(t) \/ K!Unindex(t)
      PROVE  IInv'
  BY <1>2, AcquireStep, LookupStep, InPlaceStep, InstallStep, FreeOldStep, FreeStep, UnindexStep
<1>3. CASE UNCHANGED K!vars
  BY <1>3 DEF K!vars, IInv, StepsOK, Exclusive, Guarded, Owned, K!LookedUpStays, InUse, K!WorksOn, K!Covers, K!Holds,
              K!At, K!Op, K!Now
<1>. QED  BY <1>1, <1>2, <1>3 DEF K!Next

(***************************************************************************)
(* Whatever operations run at the same time, on however many entities and  *)
(* however these share locks: as long as no cascade and no change of rank  *)
(* comes to work on an entity while another operation does, each operation *)
(* works with the record its entity has, and that record is not freed      *)
(* under it, nor twice.                                                    *)
(***************************************************************************)
THEOREM LocksProtect == ComponentsSpec => []LookedUpStays
<1>. IsFiniteSet(K!Entities)
  BY ComponentsAssumption DEF K!Entities
<1>1. K!Init => IInv
  BY InitInvariant
<1>2. IInv /\ [K!Next]_(K!vars) => IInv'
  BY StepInvariant
<1>3. IInv => LookedUpStays
  BY DEF IInv, LookedUpStays
<1>. QED  BY <1>1, <1>2, <1>3, LocksRun, PTL DEF K!Spec

-----------------------------------------------------------------------------
(***************************************************************************)
(* Versions (TimeTravel).  A read at an earlier time finds what the record *)
(* said then, for any values, number of operations and length of history.  *)
(***************************************************************************)
Versions == Seq([timestamp : Nat, data : hValues \cup {None}])
VersionRecord ==
    [ctime : Nat, mtime : Nat, atime : Nat, status : {"none", "Normal", "Deleted"},
     value : hValues \cup {None}, history : Versions]

Ordinary ==
    /\ hRec \in VersionRecord /\ hNow \in Nat /\ hTruth \in [H!Times -> hValues \cup {None}]
    /\ hNow <= hMaxTime /\ hRec.ctime <= hNow /\ hRec.mtime <= hNow /\ hTurns \subseteq 1..hNow

\* The newest entry of a history that is not later than t.
NewestAt(history, i, t) ==
    /\ i \in 1..Len(history) /\ history[i].timestamp <= t
    /\ \A j \in 1..Len(history) : j > i => history[j].timestamp > t

Told(history, t) == \E i \in 1..Len(history) : NewestAt(history, i, t) /\ history[i].data = hTruth[t]

\* The version began at b; what was before it stands in the history.
Began(b) ==
    /\ b \in hTurns /\ 1 <= hRec.ctime /\ hRec.ctime <= b
    /\ \A t \in b..hNow : (\A d \in hTurns : d = b \/ t < d) => hTruth[t] = hRec.value
    /\ hRec.status = "Deleted" => \E d \in hTurns : d > b /\ hTurns = {b, d} /\ \A t \in d..hNow : hTruth[t] = None
    /\ hRec.status = "Normal" => hTurns = {b}
    /\ \A t \in hRec.ctime..(b - 1) : t \notin hBlurred => Told(hRec.history, t)

VersionsOK ==
    /\ Ordinary
    /\ H!Exists => \E b \in hTurns : Began(b)
    /\ \A t \in 1..hNow : ~H!Exists \/ t < hRec.ctime => hTruth[t] = None

LEMMA HistoryEntries ==
    ASSUME NEW q \in Versions
    PROVE  /\ DOMAIN q = 1..Len(q) /\ Len(q) \in Nat
           /\ \A i \in 1..Len(q) : /\ q[i] \in [timestamp : Nat, data : hValues \cup {None}]
                                   /\ q[i].timestamp \in Nat
<1>. DEFINE E == [timestamp : Nat, data : hValues \cup {None}]
<1>1. \A e \in E : e.timestamp \in Nat
  OBVIOUS
<1>2. q \in Seq(E)
  BY DEF Versions
<1>. HIDE DEF E
<1>3. DOMAIN q = 1..Len(q) /\ Len(q) \in Nat /\ \A i \in 1..Len(q) : q[i] \in E
  BY <1>2
<1>. QED  BY <1>1, <1>3 DEF E

LEMMA InitVersions == ASSUME hMaxTime \in Nat, H!Init PROVE VersionsOK
<1>1. Ordinary
  BY DEF H!Init, Ordinary, VersionRecord, Versions, H!Times
<1>. QED  BY <1>1 DEF H!Init, VersionsOK, H!Exists

\* A time of the past that is neither blurred nor misled: the history tells, or the record.
LEMMA ToldOrCurrent ==
    ASSUME VersionsOK, H!Exists, NEW t \in 1..hNow, t \notin hBlurred \cup H!Misled
    PROVE  \/ t < hRec.ctime
           \/ hRec.ctime <= t /\ t < hRec.mtime /\ Told(hRec.history, t)
           \/ hRec.ctime <= t /\ t >= hRec.mtime /\ hRec.status = "Normal" /\ hTruth[t] = hRec.value
           \/ hRec.ctime <= t /\ t >= hRec.mtime /\ hRec.status = "Deleted" /\ hTruth[t] = None
<1>1. PICK b \in hTurns : Began(b)
  BY DEF VersionsOK
<1>2. /\ b \in Nat /\ hNow \in Nat /\ hRec.mtime \in Nat /\ hRec.ctime \in Nat /\ t \in Nat
      /\ \A d \in hTurns : d \in 1..hNow
  BY DEF VersionsOK, Ordinary, VersionRecord
<1>3. \A d \in hTurns : (t < d /\ t < hRec.mtime) \/ (t >= d /\ t >= hRec.mtime)
  <2>1. ASSUME NEW d \in hTurns PROVE t \notin H!Between(d, hRec.mtime)
    BY DEF H!Misled
  <2>. QED  BY <1>2, <2>1 DEF H!Between
<1>4. CASE t < b
  BY <1>1, <1>2, <1>3, <1>4 DEF Began
<1>5. CASE t >= b
  <2>1. t >= hRec.mtime /\ \A d \in hTurns : t >= d
    BY <1>1, <1>2, <1>3, <1>5 DEF Began
  <2>2. hRec.ctime <= t
    BY <1>1, <1>2, <1>5 DEF Began
  <2>3. CASE hRec.status = "Normal"
    BY <1>1, <1>2, <1>5, <2>1, <2>2, <2>3 DEF Began
  <2>4. CASE hRec.status = "Deleted"
    BY <1>1, <1>2, <2>1, <2>2, <2>4 DEF Began
  <2>. QED  BY <2>3, <2>4 DEF VersionsOK, Ordinary, VersionRecord, H!Exists
<1>. QED  BY <1>2, <1>4, <1>5

LEMMA ReadsTruth == VersionsOK => H!HistoryFaithful
<1> SUFFICES ASSUME VersionsOK PROVE H!HistoryFaithful
  OBVIOUS
<1>1. ASSUME NEW t \in 1..hNow, t \notin hBlurred \cup H!Misled PROVE H!ReadAt(t) = hTruth[t]
  <2>. DEFINE Old == {i \in DOMAIN hRec.history : hRec.history[i].timestamp <= t}
              newest == CHOOSE i \in Old : \A j \in Old : j <= i
  <2>1. /\ DOMAIN hRec.history = 1..Len(hRec.history) /\ Len(hRec.history) \in Nat
        /\ hNow \in Nat /\ hRec.ctime \in Nat /\ hRec.mtime \in Nat
        /\ \A i \in 1..Len(hRec.history) : hRec.history[i].timestamp \in Nat
    BY HistoryEntries DEF VersionsOK, Ordinary, VersionRecord
  <2>2. H!ReadAt(t) = IF ~H!Exists \/ t < hRec.ctime THEN None
                      ELSE IF Old # {} /\ t < hRec.mtime THEN hRec.history[newest].data
                      ELSE IF hRec.status = "Deleted" /\ t >= hRec.mtime THEN None
                      ELSE hRec.value
    BY DEF H!ReadAt
  <2>3. CASE ~H!Exists \/ t < hRec.ctime
    BY <2>2, <2>3 DEF VersionsOK
  <2>4. CASE H!Exists /\ hRec.ctime <= t /\ t < hRec.mtime /\ Told(hRec.history, t)
    <3>1. PICK i \in 1..Len(hRec.history) : NewestAt(hRec.history, i, t) /\ hRec.history[i].data = hTruth[t]
      BY <2>4 DEF Told
    <3>2. i \in Old /\ \A j \in Old : j <= i
      BY <2>1, <3>1 DEF NewestAt
    <3>3. newest \in Old /\ \A j \in Old : j <= newest
      BY <3>2
    <3>4. newest = i
      BY <2>1, <3>2, <3>3
    <3>5. H!ReadAt(t) = hRec.history[newest].data
      BY <2>1, <2>2, <2>4, <3>1, <3>2
    <3>. QED  BY <3>1, <3>4, <3>5
  <2>5. CASE /\ H!Exists /\ hRec.ctime <= t /\ t >= hRec.mtime
             /\ hTruth[t] = IF hRec.status = "Deleted" THEN None ELSE hRec.value
    BY <2>1, <2>2, <2>5
  <2>6. CASE H!Exists /\ ~(t < hRec.ctime)
    BY <1>1, <2>1, <2>4, <2>5, <2>6, ToldOrCurrent
  <2>. QED  BY <2>3, <2>6
<1>2. ASSUME hNow > 0 PROVE H!Read = hTruth[hNow]
  <2>1. hNow \in 1..hNow /\ hNow \in Nat
    BY <1>2 DEF VersionsOK, Ordinary, VersionRecord
  <2>2. CASE ~H!Exists
    BY <2>1, <2>2 DEF VersionsOK, H!Exists, H!Read
  <2>3. CASE H!Exists
    <3>1. PICK b \in hTurns : Began(b)
      BY <2>3 DEF VersionsOK
    <3>2. b \in 1..hNow /\ \A d \in hTurns : d \in 1..hNow
      BY DEF VersionsOK, Ordinary, VersionRecord
    <3>3. CASE hRec.status = "Normal"
      BY <2>1, <3>1, <3>2, <3>3 DEF Began, H!Read
    <3>4. CASE hRec.status = "Deleted"
      BY <2>1, <3>1, <3>2, <3>4 DEF Began, H!Read
    <3>. QED  BY <2>3, <3>3, <3>4 DEF VersionsOK, Ordinary, VersionRecord, H!Exists
  <2>. QED  BY <2>2, <2>3
<1>. QED  BY <1>1, <1>2 DEF H!HistoryFaithful

\* Steps that leave value, history and turns as they are, and what a reader finds.
LEMMA QuietVersions ==
    ASSUME hMaxTime \in Nat, VersionsOK, H!Exists, H!Tick, NEW a \in 0..hNow', NEW m \in 0..hNow',
           hRec' = [hRec EXCEPT !.atime = a, !.mtime = m], UNCHANGED <<hTurns, hBlurred>>,
           H!Says(IF hRec.status = "Deleted" THEN None ELSE hRec.value)
    PROVE  VersionsOK'
<1>1. /\ hNow' = hNow + 1 /\ hNow' \in Nat /\ hNow' <= hMaxTime /\ hNow \in Nat
      /\ \A t \in 1..hNow : hTruth'[t] = hTruth[t]
      /\ hTruth'[hNow'] = IF hRec.status = "Deleted" THEN None ELSE hRec.value
      /\ hTruth' \in [H!Times -> hValues \cup {None}]
  BY DEF H!Tick, H!Says, H!Times, VersionsOK, Ordinary, VersionRecord
<1>2. /\ hRec'.ctime = hRec.ctime /\ hRec'.value = hRec.value /\ hRec'.status = hRec.status
      /\ hRec'.history = hRec.history /\ hRec'.mtime = m
  BY DEF VersionsOK, Ordinary, VersionRecord
<1>3. Ordinary'
  <2>1. a \in Nat /\ m \in Nat
    BY <1>1
  <2>2. hRec' = [ctime |-> hRec.ctime, mtime |-> m, atime |-> a, status |-> hRec.status,
                value |-> hRec.value, history |-> hRec.history]
    BY DEF VersionsOK, Ordinary, VersionRecord
  <2>3. hRec' \in VersionRecord
    BY <2>1, <2>2 DEF VersionsOK, Ordinary, VersionRecord
  <2>. QED  BY <1>1, <1>2, <2>3 DEF VersionsOK, Ordinary, VersionRecord
<1>4. PICK b \in hTurns : Began(b)
  BY DEF VersionsOK
<1>5. b \in 1..hNow /\ hRec.ctime \in Nat /\ \A d \in hTurns : d \in 1..hNow
  BY DEF VersionsOK, Ordinary, VersionRecord
<1>6. Began(b)'
  <2>1. \A t \in b..hNow' : (\A d \in hTurns : d = b \/ t < d) => hTruth'[t] = hRec.value
    <3>1. ASSUME NEW t \in b..hNow', \A d \in hTurns : d = b \/ t < d PROVE hTruth'[t] = hRec.value
      <4>1. CASE t = hNow'
        <5>1. hRec.status # "Deleted"
          BY <1>1, <1>4, <1>5, <3>1, <4>1 DEF Began
        <5>. QED  BY <1>1, <4>1, <5>1
      <4>2. CASE t # hNow'
        BY <1>1, <1>4, <1>5, <3>1, <4>2 DEF Began
      <4>. QED  BY <4>1, <4>2
    <3>. QED  BY <3>1
  <2>2. hRec.status = "Deleted" =>
           \E d \in hTurns : d > b /\ hTurns = {b, d} /\ \A t \in d..hNow' : hTruth'[t] = None
    <3>1. ASSUME hRec.status = "Deleted" PROVE \E d \in hTurns : d > b /\ hTurns = {b, d} /\ \A t \in d..hNow' : hTruth'[t] = None
      <4>1. PICK d \in hTurns : d > b /\ hTurns = {b, d} /\ \A t \in d..hNow : hTruth[t] = None
        BY <1>4, <3>1 DEF Began
      <4>2. \A t \in d..hNow' : t = hNow' \/ (t \in d..hNow /\ t \in 1..hNow)
        BY <1>1, <1>5, <4>1
      <4>. QED  BY <1>1, <3>1, <4>1, <4>2
    <3>. QED  BY <3>1
  <2>3. \A t \in hRec.ctime..(b - 1) : t \notin hBlurred => Told(hRec.history, t)'
    BY <1>1, <1>2, <1>4, <1>5 DEF Began, Told, NewestAt
  <2>. QED  BY <1>2, <1>4, <2>1, <2>2, <2>3 DEF Began
<1>7. \A t \in 1..hNow' : t < hRec.ctime => hTruth'[t] = None
  BY <1>1, <1>4, <1>5 DEF VersionsOK, Began
<1>. QED  BY <1>2, <1>3, <1>6, <1>7 DEF VersionsOK, H!Exists


\* A time of the past that the history or the record tells is told by the history after an update.
LEMMA PushedTells ==
    ASSUME NEW q \in Versions, NEW e \in [timestamp : Nat, data : hValues \cup {None}], NEW t \in Nat
    PROVE  /\ Append(q, e) \in Versions
           /\ e.timestamp <= t => NewestAt(Append(q, e), Len(q) + 1, t)
           /\ e.timestamp > t => \A i \in 1..Len(q) : NewestAt(q, i, t) => NewestAt(Append(q, e), i, t)
           /\ Append(q, e)[Len(q) + 1] = e /\ \A i \in 1..Len(q) : Append(q, e)[i] = q[i]
           /\ Len(Append(q, e)) = Len(q) + 1
<1>1. Len(q) \in Nat /\ \A i \in 1..Len(q) : q[i].timestamp \in Nat
  BY HistoryEntries
<1>2. /\ Append(q, e) \in Versions /\ Len(Append(q, e)) = Len(q) + 1
      /\ Append(q, e)[Len(q) + 1] = e /\ \A i \in 1..Len(q) : Append(q, e)[i] = q[i]
  BY DEF Versions
<1>. DEFINE p == Append(q, e)
<1>. HIDE DEF p
<1>3. /\ p[Len(q) + 1] = e /\ Len(p) = Len(q) + 1 /\ \A i \in 1..Len(q) : p[i] = q[i]
  BY <1>2 DEF p
<1>4. e.timestamp <= t => NewestAt(p, Len(q) + 1, t)
  BY <1>1, <1>3 DEF NewestAt
<1>5. e.timestamp > t => \A i \in 1..Len(q) : NewestAt(q, i, t) => NewestAt(p, i, t)
  <2>1. \A j \in 1..(Len(q) + 1) : j = Len(q) + 1 \/ j \in 1..Len(q)
    BY <1>1
  <2>. QED  BY <1>1, <1>3, <2>1 DEF NewestAt
<1>. QED  BY <1>2, <1>4, <1>5 DEF p

\* What the cap leaves tells all times from its oldest entry on.
LEMMA CapTells ==
    ASSUME hMaxHistory \in Nat, NEW q \in Versions, NEW t \in Nat, NEW i \in 1..Len(q), NewestAt(q, i, t),
           Len(q) > hMaxHistory => H!Capped(q) # <<>> /\ t >= Head(H!Capped(q)).timestamp
    PROVE  \E k \in 1..Len(H!Capped(q)) : NewestAt(H!Capped(q), k, t) /\ H!Capped(q)[k] = q[i]
<1>. DEFINE n == Len(q)
            m == n - hMaxHistory
            c == SubSeq(q, m + 1, n)
<1>1. n \in Nat /\ \A j \in 1..n : q[j].timestamp \in Nat
  BY HistoryEntries
<1>2. CASE n <= hMaxHistory
  BY <1>2 DEF H!Capped
<1>3. CASE n > hMaxHistory
  <2>1. H!Capped(q) = c /\ m \in Nat /\ m >= 1 /\ m <= n
    BY <1>1, <1>3 DEF H!Capped
  <2>2. Len(c) = hMaxHistory /\ \A j \in 1..hMaxHistory : c[j] = q[j + m]
    <3>. DEFINE E == [timestamp : Nat, data : hValues \cup {None}]
    <3>1. q \in Seq(E)
      BY DEF Versions
    <3>. HIDE DEF E, n, m
    <3>2. Len(c) = n - m /\ \A j \in 1..(n - m) : c[j] = q[j + m]
      BY <1>1, <2>1, <3>1 DEF n
    <3>3. n - m = hMaxHistory
      BY <1>1, <2>1 DEF m
    <3>. QED  BY <3>2, <3>3
  <2>. HIDE DEF c
  <2>3. hMaxHistory >= 1
    BY <1>3, <2>1, <2>2
  <2>4. q[m + 1].timestamp <= t /\ m + 1 \in 1..n
    <3>1. Head(c) = c[1]
      OBVIOUS
    <3>. QED  BY <1>1, <1>3, <2>1, <2>2, <2>3, <3>1
  <2>5. i >= m + 1
    BY <1>1, <2>1, <2>4 DEF NewestAt
  <2>6. i - m \in 1..hMaxHistory /\ c[i - m] = q[i]
    BY <1>1, <2>1, <2>2, <2>5
  <2>7. \A j \in 1..hMaxHistory : j + m \in 1..n /\ (j > i - m => j + m > i)
    BY <1>1, <2>1, <2>6
  <2>8. NewestAt(c, i - m, t)
    BY <2>2, <2>6, <2>7 DEF NewestAt
  <2>. QED  BY <2>1, <2>2, <2>6, <2>8
<1>. QED  BY <1>1, <1>2, <1>3

LEMMA CappedVersions ==
    ASSUME hMaxHistory \in Nat, NEW q \in Versions
    PROVE  H!Capped(q) \in Versions
<1>1. Len(q) \in Nat
  BY HistoryEntries
<1>. QED  BY <1>1 DEF H!Capped, Versions

\* A version ends: what could be told of its time goes to the history, or is blurred.
LEMMA UpdateVersions ==
    ASSUME hMaxTime \in Nat, hMaxHistory \in Nat, VersionsOK, NEW v \in hValues, H!Update(v)
    PROVE  VersionsOK'
<1>. DEFINE e == [timestamp |-> hRec.mtime, data |-> hRec.value]
            p == Append(hRec.history, e)
            c == H!Capped(p)
<1>1. /\ hNow' = hNow + 1 /\ hNow' \in Nat /\ hNow' <= hMaxTime /\ hNow \in Nat
      /\ \A t \in 1..hNow : hTruth'[t] = hTruth[t]
      /\ hTruth'[hNow'] = v /\ hTruth' \in [H!Times -> hValues \cup {None}]
      /\ H!Exists /\ hTurns' = {hNow'}
  BY DEF H!Update, H!Tick, H!Says, H!Times, VersionsOK, Ordinary
<1>2. /\ hRec' = [hRec EXCEPT !.mtime = hNow', !.atime = hNow', !.status = "Normal", !.value = v, !.history = c]
      /\ hBlurred' = hBlurred \cup H!Misled
            \cup (IF hRec.status = "Deleted" THEN hRec.mtime..hNow ELSE {})
            \cup (IF Len(p) > hMaxHistory
                  THEN 1..((IF c = <<>> THEN hNow' ELSE Head(c).timestamp) - 1) ELSE {})
  BY DEF H!Update, H!Pushed
<1>3. /\ e \in [timestamp : Nat, data : hValues \cup {None}] /\ hRec.history \in Versions
      /\ hRec.ctime \in Nat /\ hRec.mtime \in Nat /\ hRec.ctime <= hNow /\ hRec.mtime <= hNow
  BY DEF VersionsOK, Ordinary, VersionRecord
<1>4. p \in Versions /\ c \in Versions
  BY <1>3, PushedTells, CappedVersions
<1>. HIDE DEF c
<1>5. /\ hRec'.ctime = hRec.ctime /\ hRec'.mtime = hNow' /\ hRec'.status = "Normal" /\ hRec'.value = v
      /\ hRec'.history = c /\ hRec' \in VersionRecord
  <2>1. hRec' = [ctime |-> hRec.ctime, mtime |-> hNow', atime |-> hNow', status |-> "Normal", value |-> v,
                history |-> c]
    BY <1>2 DEF VersionsOK, Ordinary, VersionRecord
  <2>. QED  BY <1>1, <1>3, <1>4, <2>1 DEF VersionRecord
<1>6. Ordinary'
  BY <1>1, <1>3, <1>5 DEF Ordinary
<1>7. 1 <= hRec.ctime
  BY DEF VersionsOK, Began, H!Update
<1>8. ASSUME NEW t \in hRec.ctime..hNow, t \notin hBlurred'
      PROVE  \E k \in 1..Len(c) : NewestAt(c, k, t) /\ c[k].data = hTruth'[t]
  <2>1. /\ t \in 1..hNow /\ t \in Nat /\ t \notin hBlurred \cup H!Misled
        /\ hRec.status = "Deleted" => t < hRec.mtime
    BY <1>1, <1>2, <1>3, <1>7, <1>8
  <2>2. \/ t < hRec.mtime /\ Told(hRec.history, t)
        \/ t >= hRec.mtime /\ hTruth[t] = hRec.value
    BY <1>1, <1>3, <1>8, <2>1, ToldOrCurrent
  <2>3. \E i \in 1..Len(p) : NewestAt(p, i, t) /\ p[i].data = hTruth[t]
    <3>1. Len(hRec.history) \in Nat
      BY <1>3, HistoryEntries
    <3>2. CASE t >= hRec.mtime /\ hTruth[t] = hRec.value
      <4>1. NewestAt(p, Len(hRec.history) + 1, t) /\ p[Len(hRec.history) + 1] = e /\ Len(p) = Len(hRec.history) + 1
        BY <1>3, <2>1, <3>2, PushedTells
      <4>. QED  BY <3>1, <3>2, <4>1
    <3>3. CASE t < hRec.mtime /\ Told(hRec.history, t)
      <4>1. PICK i \in 1..Len(hRec.history) : NewestAt(hRec.history, i, t) /\ hRec.history[i].data = hTruth[t]
        BY <3>3 DEF Told
      <4>2. NewestAt(p, i, t) /\ p[i] = hRec.history[i] /\ Len(p) = Len(hRec.history) + 1
        BY <1>3, <2>1, <3>3, <4>1, PushedTells
      <4>. QED  BY <3>1, <4>1, <4>2
    <3>. QED  BY <2>2, <3>2, <3>3
  <2>4. PICK i \in 1..Len(p) : NewestAt(p, i, t) /\ p[i].data = hTruth[t]
    BY <2>3
  <2>. HIDE DEF p
  <2>5. Len(p) > hMaxHistory => c # <<>> /\ t >= Head(c).timestamp
    <3>1. ASSUME Len(p) > hMaxHistory PROVE c # <<>> /\ t >= Head(c).timestamp
      <4>1. t \notin 1..((IF c = <<>> THEN hNow' ELSE Head(c).timestamp) - 1)
        BY <1>2, <1>8, <3>1
      <4>2. c # <<>>
        BY <1>1, <2>1, <4>1
      <4>3. Head(c).timestamp \in Nat
        <5>1. Head(c) = c[1] /\ 1 \in 1..Len(c)
          BY <1>4, <4>2 DEF Versions
        <5>. QED  BY <1>4, <5>1, HistoryEntries
      <4>. QED  BY <2>1, <4>1, <4>2, <4>3
    <3>. QED  BY <3>1
  <2>6. \E k \in 1..Len(c) : NewestAt(c, k, t) /\ c[k] = p[i]
    BY <1>4, <2>1, <2>4, <2>5, CapTells DEF c
  <2>. QED  BY <1>1, <2>1, <2>4, <2>6
<1>9. PICK n : n = hNow'
  OBVIOUS
<1>10. Began(n)'
  <2>1. \A t \in hRec.ctime..(n - 1) : t \notin hBlurred' => Told(hRec.history, t)'
    BY <1>1, <1>5, <1>8, <1>9 DEF Told, NewestAt
  <2>. QED  BY <1>1, <1>3, <1>5, <1>7, <1>9, <2>1 DEF Began
<1>11. \A t \in 1..hNow' : t < hRec.ctime => hTruth'[t] = None
  BY <1>1, <1>3 DEF VersionsOK
<1>. QED  BY <1>1, <1>5, <1>6, <1>9, <1>10, <1>11 DEF VersionsOK, H!Exists

LEMMA CreateVersions ==
    ASSUME hMaxTime \in Nat, VersionsOK, NEW v \in hValues, H!Create(v)
    PROVE  VersionsOK'
<1>1. /\ hNow' = hNow + 1 /\ hNow' \in Nat /\ hNow' <= hMaxTime /\ hNow \in Nat
      /\ \A t \in 1..hNow : hTruth'[t] = hTruth[t]
      /\ hTruth'[hNow'] = v /\ hTruth' \in [H!Times -> hValues \cup {None}]
      /\ ~H!Exists /\ hTurns' = {hNow'}
  BY DEF H!Create, H!Tick, H!Says, H!Times, VersionsOK, Ordinary
<1>2. PICK n : n = hNow'
  OBVIOUS
<1>3. /\ hRec' = [ctime |-> n, mtime |-> n, atime |-> n, status |-> "Normal", value |-> v, history |-> <<>>]
      /\ hRec' \in VersionRecord
  BY <1>1, <1>2 DEF H!Create, VersionRecord, Versions
<1>4. Ordinary'
  BY <1>1, <1>2, <1>3 DEF Ordinary
<1>5. Began(n)'
  BY <1>1, <1>2, <1>3 DEF Began
<1>6. \A t \in 1..hNow' : t < hRec'.ctime => hTruth'[t] = None
  BY <1>1, <1>2, <1>3 DEF VersionsOK
<1>. QED  BY <1>1, <1>2, <1>3, <1>4, <1>5, <1>6 DEF VersionsOK, H!Exists

LEMMA DeleteVersions ==
    ASSUME hMaxTime \in Nat, VersionsOK, H!SoftDelete
    PROVE  VersionsOK'
<1>1. /\ hNow' = hNow + 1 /\ hNow' \in Nat /\ hNow' <= hMaxTime /\ hNow \in Nat
      /\ \A t \in 1..hNow : hTruth'[t] = hTruth[t]
      /\ hTruth'[hNow'] = None /\ hTruth' \in [H!Times -> hValues \cup {None}]
      /\ H!Exists /\ hBlurred' = hBlurred
      /\ hTurns' = IF hRec.status = "Deleted" THEN hTurns ELSE hTurns \cup {hNow'}
  BY DEF H!SoftDelete, H!Tick, H!Says, H!Times, VersionsOK, Ordinary
<1>2. PICK n : n = hNow'
  OBVIOUS
<1>3. hRec' = [ctime |-> hRec.ctime, mtime |-> n, atime |-> hRec.atime, status |-> "Deleted",
              value |-> hRec.value, history |-> hRec.history]
  BY <1>2 DEF H!SoftDelete, VersionsOK, Ordinary, VersionRecord
<1>4. hRec' \in VersionRecord /\ hRec.ctime \in Nat /\ hRec.ctime <= hNow
  BY <1>1, <1>2, <1>3 DEF VersionsOK, Ordinary, VersionRecord
<1>5. PICK b \in hTurns : Began(b)
  BY <1>1 DEF VersionsOK
<1>6. b \in 1..hNow /\ \A d \in hTurns : d \in 1..hNow
  BY DEF VersionsOK, Ordinary
<1>7. Ordinary'
  BY <1>1, <1>2, <1>3, <1>4, <1>6 DEF Ordinary
<1>8. \A t \in hRec.ctime..(b - 1) : t \notin hBlurred => Told(hRec.history, t)'
  BY <1>1, <1>3, <1>4, <1>5, <1>6 DEF Began, Told, NewestAt
<1>9. Began(b)'
  <2>1. CASE hRec.status = "Deleted"
    <3>1. PICK d \in hTurns : d > b /\ hTurns = {b, d} /\ \A t \in d..hNow : hTruth[t] = None
      BY <1>5, <2>1 DEF Began
    <3>2. \A t \in d..hNow' : hTruth'[t] = None
      <4>1. \A t \in d..hNow' : t = hNow' \/ (t \in d..hNow /\ t \in 1..hNow)
        BY <1>1, <1>6, <3>1
      <4>. QED  BY <1>1, <3>1, <4>1
    <3>3. \A t \in b..hNow' : (\A x \in hTurns' : x = b \/ t < x) => hTruth'[t] = hRec.value
      <4>1. \A t \in b..hNow' : t < d => t \in b..hNow /\ t \in 1..hNow
        BY <1>1, <1>6, <3>1
      <4>. QED  BY <1>1, <1>5, <1>6, <2>1, <3>1, <4>1 DEF Began
    <3>. QED  BY <1>1, <1>3, <1>5, <1>8, <2>1, <3>1, <3>2, <3>3 DEF Began
  <2>2. CASE hRec.status # "Deleted"
    <3>. hRec.status = "Normal" /\ hTurns = {b}
      BY <1>1, <1>5, <2>2 DEF Began, VersionsOK, Ordinary, VersionRecord, H!Exists
    <3>1. hTurns' = {b, n} /\ n > b
      BY <1>1, <1>2, <1>6
    <3>2. \A t \in b..hNow' : t < n => t \in b..hNow /\ t \in 1..hNow
      BY <1>1, <1>2, <1>6
    <3>3. \A t \in b..hNow : hTruth[t] = hRec.value
      BY <1>5 DEF Began
    <3>4. \A t \in n..hNow' : hTruth'[t] = None
      BY <1>1, <1>2
    <3>5. ASSUME NEW t \in b..hNow', \A x \in hTurns' : x = b \/ t < x PROVE hTruth'[t] = hRec.value
      <4>1. t < n
        BY <1>2, <1>6, <3>1, <3>5
      <4>. QED  BY <1>1, <3>2, <3>3, <4>1
    <3>6. hRec'.value = hRec.value /\ hRec'.ctime = hRec.ctime /\ hRec'.history = hRec.history
          /\ hRec'.status = "Deleted" /\ n \in hTurns' /\ b \in hTurns'
      BY <1>3, <3>1
    <3>. QED  BY <1>1, <1>5, <1>8, <3>1, <3>4, <3>5, <3>6 DEF Began
  <2>. QED  BY <2>1, <2>2
<1>10. \A t \in 1..hNow' : t < hRec.ctime => hTruth'[t] = None
  BY <1>1, <1>4 DEF VersionsOK
<1>. QED  BY <1>1, <1>3, <1>7, <1>9, <1>10 DEF VersionsOK, H!Exists

LEMMA NextVersions ==
    ASSUME hMaxTime \in Nat, hMaxHistory \in Nat, VersionsOK, [H!Next]_H!vars
    PROVE  VersionsOK'
<1>1. CASE \E v \in hValues : H!Create(v) \/ H!Update(v)
  BY <1>1, CreateVersions, UpdateVersions
<1>2. CASE H!SoftDelete
  BY <1>2, DeleteVersions
<1>3. CASE H!Get
  <2>1. H!Tick /\ H!Exists /\ H!Says(IF hRec.status = "Deleted" THEN None ELSE hRec.value)
    BY <1>3 DEF H!Get, H!Exists
  <2>2. hRec.mtime \in 0..hNow' /\ hNow' \in 0..hNow'
    BY <2>1 DEF H!Tick, VersionsOK, Ordinary, VersionRecord
  <2>3. hRec' = [hRec EXCEPT !.atime = hNow', !.mtime = hRec.mtime]
    BY <1>3 DEF H!Get, VersionsOK, Ordinary, VersionRecord
  <2>. QED  BY <1>3, <2>1, <2>2, <2>3, QuietVersions DEF H!Get
<1>4. ASSUME NEW t \in H!Times, t <= hNow, H!UpdateMeta(t) PROVE VersionsOK'
  <2>1. t \in 0..hNow'
    BY <1>4 DEF H!UpdateMeta, H!Tick, H!Times, VersionsOK, Ordinary
  <2>. QED  BY <1>4, <2>1, QuietVersions DEF H!UpdateMeta
<1>5. CASE H!Decay
  <2>1. hNow' \in 0..hNow'
    BY <1>5 DEF H!Decay, H!Tick, VersionsOK, Ordinary
  <2>. QED  BY <1>5, <2>1, QuietVersions DEF H!Decay
<1>6. CASE UNCHANGED H!vars
  <2>1. UNCHANGED <<hRec, hNow, hTruth, hTurns, hBlurred>>
    BY <1>6 DEF H!vars
  <2>2. Ordinary' /\ (H!Exists' <=> H!Exists)
    BY <2>1 DEF VersionsOK, Ordinary, H!Exists
  <2>3. \A b : Began(b)' <=> Began(b)
    BY <2>1 DEF Began, Told, NewestAt
  <2>. QED  BY <2>1, <2>2, <2>3 DEF VersionsOK
<1>. QED  BY <1>1, <1>2, <1>3, <1>4, <1>5, <1>6 DEF H!Next

\* Whatever operations there were, a read at an earlier time answers what the record said then,
\* at every time that is neither blurred nor misled.
THEOREM VersionsReadBack == ComponentsSpec => []HistoryFaithful
<1>. hMaxTime \in Nat /\ hMaxHistory \in Nat
  BY ComponentsAssumption
<1>1. H!Init => VersionsOK
  BY InitVersions
<1>2. VersionsOK /\ [H!Next]_(H!vars) => VersionsOK'
  BY NextVersions
<1>3. VersionsOK => HistoryFaithful
  BY ReadsTruth DEF HistoryFaithful
<1>. QED  BY <1>1, <1>2, <1>3, VersionsRun, PTL DEF H!Spec

-----------------------------------------------------------------------------
(***************************************************************************)
(* Documents.  The file of the index holds what the memory holds, and a    *)
(* clean deletion leaves nothing of its document, for any number of        *)
(* handlers, documents, graphs, requests and crashes.                      *)
(***************************************************************************)
HandlerSteps == {"idle", "push", "save", "remove", "collect", "purge", "ask", "import", "finish",
                 "panicked"}

Handler ==
    [op : {"none", "create", "update", "delete", "clean", "extract"}, step : HandlerSteps,
     doc : dDocs \cup {None}, graph : dGraphs \cup {None}, names : SUBSET dFound, tries : Nat]

Indices == UNION {[X -> dGraphs \cup {None}] : X \in SUBSET dDocs}

DocTypes ==
    /\ dThread \in [Threads -> Handler]
    /\ dSource \in [dGraphs -> [dFound -> dDocs \cup {None}]]
    /\ dIndex \in Indices /\ dSaved \in [ok : BOOLEAN, index : Indices]
    /\ dCleaned \subseteq dDocs

\* What the step of a handler says of its operation.
DocSteps ==
    \A t \in Threads :
        /\ dThread[t].op = "none" => D!At(t, "idle") \/ D!At(t, "panicked")
        /\ dThread[t].op = "create" => D!At(t, "push") \/ D!At(t, "save")
        /\ dThread[t].op = "update" => D!At(t, "save")
        /\ dThread[t].op = "delete" => D!At(t, "remove") \/ D!At(t, "save")
        /\ dThread[t].op = "clean" =>
               D!At(t, "remove") \/ D!At(t, "save") \/ D!At(t, "collect") \/ D!At(t, "purge")
        /\ dThread[t].op = "extract" =>
               /\ D!At(t, "ask") \/ D!At(t, "import") \/ D!At(t, "save") \/ D!At(t, "finish")
               /\ dThread[t].graph \in dGraphs /\ dThread[t].doc \in dDocs
        /\ dThread[t].op \in {"create", "update", "delete", "clean"} => dThread[t].doc \in dDocs

\* Whoever changed the index saves it, unless somebody has saved it since.
FileCurrent == dSaved.ok => dSaved.index = dIndex \/ \E t \in Threads : D!At(t, "save")

Adds(t, d) == D!At(t, "push") /\ dThread[t].doc = d
Extracts(t, d) == dThread[t].op = "extract" /\ dThread[t].doc = d
Cleans(t, d) == dThread[t].op = "clean" /\ dThread[t].doc = d

\* A document that was not created is nowhere.
Known ==
    /\ DOMAIN dIndex \subseteq dUsed /\ DOMAIN dSaved.index \subseteq dUsed /\ dCleaned \subseteq dUsed
    /\ \A t \in Threads : dThread[t].op \in {"create", "extract", "clean"} => dThread[t].doc \in dUsed
    /\ \A g \in dGraphs, n \in dFound : dSource[g][n] \in dUsed \cup {None}

\* Nor does anybody work with one that is not yet in the index.
NewAlone ==
    \A t \in Threads, d \in dDocs : Adds(t, d) =>
        /\ ~D!Listed(d) /\ d \notin dCleaned /\ \A g \in dGraphs, n \in dFound : dSource[g][n] # d
        /\ \A u \in Threads : ~Extracts(u, d) /\ ~Cleans(u, d) /\ (u # t => ~Adds(u, d))

\* All that was imported of a document is in the graph that its entry names,
\* or in the one into which it is being extracted.
OneGraph ==
    \A d \in dDocs \ dBlurred :
        /\ \A t \in Threads : Extracts(t, d) =>
               /\ D!Listed(d) /\ ~D!Deleting(d)
               /\ D!GraphOf(d) \in {None, dThread[t].graph}
               /\ ~D!At(t, "ask") /\ ~D!At(t, "import") => D!GraphOf(d) = dThread[t].graph
               /\ \A u \in Threads : Extracts(u, d) => dThread[u].graph = dThread[t].graph
        /\ D!Listed(d) => \A g \in dGraphs, n \in dFound : dSource[g][n] = d =>
               \/ D!GraphOf(d) = g
               \/ \E t \in Threads : Extracts(t, d) /\ D!At(t, "import") /\ dThread[t].graph = g

\* A clean deletion has them all in view.
Cleaning ==
    \A d \in dDocs \ dBlurred, t \in Threads : Cleans(t, d) =>
        /\ ~D!At(t, "remove") => ~D!Listed(d)
        /\ \A g \in dGraphs, n \in dFound : dSource[g][n] = d =>
               g = dThread[t].graph /\ (D!At(t, "purge") => n \in dThread[t].names)

Gone ==
    \A d \in dCleaned \ dBlurred :
        /\ ~D!Listed(d) /\ \A t \in Threads : ~Extracts(t, d)
        /\ \A g \in dGraphs, n \in dFound : dSource[g][n] # d

DocsKept == Known /\ NewAlone /\ OneGraph /\ Cleaning /\ Gone
DocsOK == DocTypes /\ DocSteps /\ FileCurrent

Distinct == None \notin dDocs /\ None \notin dGraphs /\ dPresent \in dDocs

LEMMA InitDocs == ASSUME Distinct, D!Init PROVE DocsOK /\ DocsKept
<1>1. dIndex \in Indices /\ DOMAIN dIndex = {dPresent}
  BY DEF Distinct, D!Init, Indices
<1>2. \A t \in Threads : dThread[t] = D!Idle /\ D!Idle.op = "none" /\ D!Idle.step = "idle"
  BY DEF D!Init, D!Idle, D!Doing
<1>3. DocTypes
  BY <1>1 DEF D!Init, DocTypes, Handler, HandlerSteps, D!Idle, D!Doing
<1>4. DocSteps /\ FileCurrent
  BY <1>2 DEF DocSteps, FileCurrent, D!Init, D!At
<1>5. \A g \in dGraphs, n \in dFound : dSource[g][n] = None
  BY DEF D!Init
<1>6. Known /\ NewAlone /\ OneGraph /\ Cleaning /\ Gone
  BY <1>1, <1>2, <1>5 DEF Distinct, D!Init, Known, NewAlone, OneGraph, Cleaning, Gone, Adds, Extracts, Cleans, D!At
<1>. QED  BY <1>3, <1>4, <1>6 DEF DocsOK, DocsKept

LEMMA CreateDocs ==
    ASSUME Distinct, DocsOK, DocsKept, NEW t \in Threads, NEW d \in dDocs, D!Create(t, d)
    PROVE  DocsOK' /\ DocsKept'
<1> USE DEF DocsOK, DocsKept
<1>1. /\ dThread' = [dThread EXCEPT ![t] = [op |-> "create", step |-> "push", doc |-> d, graph |-> None,
                                            names |-> {}, tries |-> 0]]
      /\ D!At(t, "idle") /\ d \notin dUsed /\ dUsed' = dUsed \cup {d}
      /\ UNCHANGED <<dIndex, dSaved, dSource, dCleaned, dBlurred>>
  BY DEF D!Create, D!Start, D!Doing
<1>2. DocTypes' /\ DocSteps' /\ FileCurrent'
  BY <1>1 DEF DocTypes, Handler, HandlerSteps, DocSteps, FileCurrent, D!At
<1>3. Known'
  BY <1>1 DEF Known, DocTypes, Handler, HandlerSteps
<1>4. NewAlone'
  <2>1. \A u \in Threads, x \in dDocs :
            /\ u # t => Adds(u, x)' = Adds(u, x)
            /\ Adds(t, x)' => x = d
            /\ Extracts(u, x)' => Extracts(u, x)
            /\ Cleans(u, x)' => Cleans(u, x)
    BY <1>1 DEF Adds, Extracts, Cleans, D!At, DocTypes, Handler
  <2>2. \A x \in dDocs : D!Listed(x)' = D!Listed(x)
    BY <1>1 DEF D!Listed
  <2>3. /\ ~D!Listed(d) /\ d \notin dCleaned /\ \A g \in dGraphs, n \in dFound : dSource[g][n] # d
        /\ \A u \in Threads : ~Extracts(u, d) /\ ~Cleans(u, d)
    BY <1>1 DEF Known, Extracts, Cleans, D!Listed, Distinct
  <2>4. \A u \in Threads : ~Adds(u, d)
    <3>1. \A u \in Threads : D!At(u, "push") => dThread[u].op = "create"
      BY DEF DocSteps, DocTypes, Handler, D!At
    <3>. QED  BY <1>1, <3>1 DEF Adds, Known
  <2>. QED  BY <1>1, <2>1, <2>2, <2>3, <2>4 DEF NewAlone
<1>5. OneGraph'
  BY <1>1 DEF OneGraph, Extracts, D!At, D!Listed, D!GraphOf, D!Deleting, DocTypes, Handler, HandlerSteps, DocSteps
<1>6. Cleaning' /\ Gone'
  BY <1>1 DEF Cleaning, Gone, Extracts, Cleans, D!At, D!Listed, DocTypes, Handler, HandlerSteps, DocSteps
<1>. QED  BY <1>2, <1>3, <1>4, <1>5, <1>6

LEMMA StepChanges ==
    ASSUME NEW f \in [Threads -> Handler], NEW t \in Threads, NEW step \in HandlerSteps
    PROVE  [f EXCEPT ![t].step = step] \in [Threads -> Handler]
BY DEF Handler

LEMMA NamesChange ==
    ASSUME NEW f \in [Threads -> Handler], NEW t \in Threads, NEW step \in HandlerSteps, NEW names \in SUBSET dFound
    PROVE  [f EXCEPT ![t].step = step, ![t].names = names] \in [Threads -> Handler]
<1>1. [f[t] EXCEPT !.step = step, !.names = names] \in Handler
  BY DEF Handler
<1>2. [f EXCEPT ![t].step = step, ![t].names = names] = [f EXCEPT ![t] = [f[t] EXCEPT !.step = step, !.names = names]]
  OBVIOUS
<1>. QED  BY <1>1, <1>2

LEMMA WithIs ==
    ASSUME DocTypes, NEW d \in dDocs, NEW g \in dGraphs \cup {None}, dIndex' = D!With(d, g)
    PROVE  /\ dIndex' \in Indices /\ DOMAIN dIndex' = DOMAIN dIndex \cup {d}
           /\ dIndex'[d] = g /\ \A x \in DOMAIN dIndex : x # d => dIndex'[x] = dIndex[x]
<1>1. dIndex' = [x \in DOMAIN dIndex \cup {d} |-> IF x = d THEN g ELSE dIndex[x]]
  BY DEF D!With
<1>2. PICK X \in SUBSET dDocs : dIndex \in [X -> dGraphs \cup {None}]
  BY DEF DocTypes, Indices
<1>3. dIndex' \in [X \cup {d} -> dGraphs \cup {None}] /\ X \cup {d} \in SUBSET dDocs
  BY <1>1, <1>2
<1>4. dIndex' \in Indices
  BY <1>3 DEF Indices
<1>. QED  BY <1>1, <1>4

LEMMA WithoutIs ==
    ASSUME DocTypes, NEW d \in dDocs, dIndex' = D!Without(d)
    PROVE  /\ dIndex' \in Indices /\ DOMAIN dIndex' = DOMAIN dIndex \ {d}
           /\ \A x \in DOMAIN dIndex : x # d => dIndex'[x] = dIndex[x]
<1>1. dIndex' = [x \in DOMAIN dIndex \ {d} |-> dIndex[x]]
  BY DEF D!Without
<1>2. PICK X \in SUBSET dDocs : dIndex \in [X -> dGraphs \cup {None}]
  BY DEF DocTypes, Indices
<1>3. dIndex' \in [X \ {d} -> dGraphs \cup {None}] /\ X \ {d} \in SUBSET dDocs
  BY <1>1, <1>2
<1>4. dIndex' \in Indices
  BY <1>3 DEF Indices
<1>. QED  BY <1>1, <1>4

LEMMA GraphIs ==
    ASSUME DocTypes, NEW d \in DOMAIN dIndex PROVE d \in dDocs /\ dIndex[d] \in dGraphs \cup {None}
BY DEF DocTypes, Indices

LEMMA PushDocs ==
    ASSUME Distinct, DocsOK, DocsKept, NEW t \in Threads, D!Push(t)
    PROVE  DocsOK' /\ DocsKept'
<1> USE DEF DocsOK, DocsKept
<1> DEFINE d == dThread[t].doc
<1>1. /\ D!At(t, "push") /\ dThread' = [dThread EXCEPT ![t].step = "save"]
      /\ dIndex' = D!With(d, None)
      /\ UNCHANGED <<dUsed, dSaved, dSource, dCleaned, dBlurred>>
  BY DEF D!Push, D!Goto
<1>2. d \in dDocs /\ dThread[t].op = "create" /\ Adds(t, d)
  BY <1>1 DEF DocSteps, DocTypes, Handler, HandlerSteps, D!At, Adds
<1>3. /\ dIndex' \in Indices /\ DOMAIN dIndex' = DOMAIN dIndex \cup {d}
      /\ dIndex'[d] = None /\ \A x \in DOMAIN dIndex : x # d => dIndex'[x] = dIndex[x]
  <2>1. PICK x \in dDocs, g \in dGraphs \cup {None} : x = d /\ g = None
    BY <1>2
  <2>2. dIndex' = D!With(x, g)
    BY <1>1, <2>1
  <2>. HIDE DEF d
  <2>3. /\ dIndex' \in Indices /\ DOMAIN dIndex' = DOMAIN dIndex \cup {x}
        /\ dIndex'[x] = g /\ \A y \in DOMAIN dIndex : y # x => dIndex'[y] = dIndex[y]
    BY <2>2, WithIs
  <2>. QED  BY <2>1, <2>3
<1>. HIDE DEF d
<1>4. DocTypes' /\ DocSteps' /\ FileCurrent'
  <2>1. DocTypes'
    <3>1. [dThread EXCEPT ![t].step = "save"] \in [Threads -> Handler]
      BY StepChanges DEF DocTypes, HandlerSteps
    <3>. QED  BY <3>1, <1>1, <1>3 DEF DocTypes
  <2>2. DocSteps'
    BY <1>1, <1>2 DEF DocTypes, Handler, HandlerSteps, DocSteps, D!At, d
  <2>3. FileCurrent'
    BY <1>1 DEF DocTypes, FileCurrent, D!At
  <2>. QED  BY <2>1, <2>2, <2>3
<1>5. Known' /\ d \notin DOMAIN dIndex /\ d \in dUsed
  BY <1>1, <1>2, <1>3 DEF Known, DocTypes, Handler, HandlerSteps, NewAlone, Adds, D!Listed, d
<1>6. NewAlone'
  BY <1>1, <1>2, <1>3 DEF NewAlone, Adds, Extracts, Cleans, D!At, D!Listed, DocTypes, Handler, HandlerSteps, d
<1>7. OneGraph'
  <2>1. /\ \A u \in Threads : ~Extracts(u, d) /\ ~Cleans(u, d)
        /\ \A g \in dGraphs, n \in dFound : dSource[g][n] # d
    BY <1>2 DEF NewAlone
  <2>. QED  BY <2>1, <1>1, <1>2, <1>3 DEF OneGraph, Extracts, D!At, D!Listed, D!GraphOf, D!Deleting, DocTypes, Handler, HandlerSteps
<1>8. Cleaning' /\ Gone'
  BY <1>1, <1>2, <1>3 DEF NewAlone, Adds, Cleaning, Gone, Extracts, Cleans, D!At, D!Listed, DocTypes, Handler, HandlerSteps, d
<1>. QED  BY <1>4, <1>5, <1>6, <1>7, <1>8

LEMMA SaveDocs ==
    ASSUME Distinct, DocsOK, DocsKept, NEW t \in Threads, D!Save(t)
    PROVE  DocsOK' /\ DocsKept'
<1> USE DEF DocsOK, DocsKept
<1>1. D!At(t, "save") /\ dSaved' = [ok |-> TRUE, index |-> dIndex] /\ UNCHANGED <<dUsed, dIndex, dSource, dCleaned, dBlurred>>
  BY DEF D!Save
<1>2. CASE dThread[t].op \in {"create", "update", "delete"}
  <2>1. dThread' = [dThread EXCEPT ![t] = [op |-> "none", step |-> "idle", doc |-> None, graph |-> None,
                                           names |-> {}, tries |-> 0]]
    BY <1>2 DEF D!Save, D!Return, D!Idle, D!Doing
  <2>2. DocTypes' /\ DocSteps' /\ FileCurrent'
    BY <1>1, <2>1 DEF DocTypes, Handler, HandlerSteps, DocSteps, FileCurrent, D!At
  <2>3. Known' /\ NewAlone'
    BY <1>1, <2>1 DEF Known, NewAlone, Adds, Extracts, Cleans, D!At, D!Listed, DocTypes, Handler, HandlerSteps
  <2>4. OneGraph'
    BY <1>1, <1>2, <2>1 DEF OneGraph, Extracts, D!At, D!Listed, D!GraphOf, D!Deleting, DocTypes, Handler, HandlerSteps
  <2>5. Cleaning' /\ Gone'
    BY <1>1, <1>2, <2>1 DEF Cleaning, Gone, Extracts, Cleans, D!At, D!Listed, DocTypes, Handler, HandlerSteps
  <2>. QED  BY <2>2, <2>3, <2>4, <2>5
<1>3. CASE dThread[t].op \in {"clean", "extract"}
  <2>1. PICK step \in {"collect", "finish"} :
          /\ dThread' = [dThread EXCEPT ![t].step = step]
          /\ dThread[t].op = "clean" <=> step = "collect"
    BY <1>3 DEF D!Save, D!Goto
  <2>2. DocTypes'
    <3>1. [dThread EXCEPT ![t].step = step] \in [Threads -> Handler]
      BY StepChanges DEF DocTypes, HandlerSteps
    <3>. QED  BY <3>1, <1>1, <2>1 DEF DocTypes
  <2>3. DocSteps' /\ FileCurrent'
    BY <1>1, <1>3, <2>1 DEF DocTypes, Handler, HandlerSteps, DocSteps, FileCurrent, D!At
  <2>4. Known' /\ NewAlone'
    BY <1>1, <2>1 DEF Known, NewAlone, Adds, Extracts, Cleans, D!At, D!Listed, DocTypes, Handler, HandlerSteps
  <2>5. OneGraph'
    BY <1>1, <2>1 DEF OneGraph, Extracts, D!At, D!Listed, D!GraphOf, D!Deleting, DocTypes, Handler, HandlerSteps
  <2>6. Cleaning' /\ Gone'
    BY <1>1, <2>1 DEF Cleaning, Gone, Extracts, Cleans, D!At, D!Listed, DocTypes, Handler, HandlerSteps
  <2>. QED  BY <2>2, <2>3, <2>4, <2>5, <2>6
<1>. QED  BY <1>1, <1>2, <1>3 DEF DocSteps, DocTypes, Handler, HandlerSteps, D!At

LEMMA UpdateDocs ==
    ASSUME Distinct, DocsOK, DocsKept, NEW t \in Threads, NEW d \in dDocs, NEW g \in dGraphs \cup {None},
           D!UpdateDocument(t, d, g)
    PROVE  DocsOK' /\ DocsKept'
<1> USE DEF DocsOK, DocsKept
<1>1. /\ dThread' = [dThread EXCEPT ![t] = [op |-> "update", step |-> "save", doc |-> d, graph |-> g,
                                            names |-> {}, tries |-> 0]]
      /\ D!At(t, "idle") /\ d \in DOMAIN dIndex
      /\ UNCHANGED <<dUsed, dSaved, dSource, dCleaned>>
  BY DEF D!UpdateDocument, D!Start, D!Doing, D!Listed
<1>2. /\ dIndex' \in Indices /\ DOMAIN dIndex' = DOMAIN dIndex
      /\ \A x \in DOMAIN dIndex : x # d => dIndex'[x] = dIndex[x]
      /\ (dIndex'[d] = dIndex[d] /\ dBlurred' = dBlurred) \/ dBlurred' = dBlurred \cup {d}
  <2>1. CASE g = None
    BY <2>1, <1>1 DEF D!UpdateDocument, DocTypes
  <2>2. CASE g # None
    <3>1. dIndex' = D!With(d, g)
      BY <2>2, <1>1 DEF D!UpdateDocument, D!Assigned, D!Listed
    <3>2. /\ dIndex' \in Indices /\ DOMAIN dIndex' = DOMAIN dIndex \cup {d}
          /\ dIndex'[d] = g /\ \A x \in DOMAIN dIndex : x # d => dIndex'[x] = dIndex[x]
      BY <3>1, WithIs
    <3>. QED  BY <2>2, <3>2, <1>1 DEF D!UpdateDocument, D!GraphOf
  <2>. QED  BY <2>1, <2>2
<1>3. DocTypes' /\ DocSteps' /\ FileCurrent'
  BY <1>1, <1>2 DEF DocTypes, Handler, HandlerSteps, DocSteps, FileCurrent, D!At
<1>4. Known'
  BY <1>1, <1>2 DEF Known, DocTypes, Handler, HandlerSteps
<1>5. NewAlone'
  BY <1>1, <1>2 DEF NewAlone, Adds, Extracts, Cleans, D!At, D!Listed, DocTypes, Handler, HandlerSteps
<1>6. OneGraph'
  BY <1>1, <1>2 DEF OneGraph, Extracts, D!At, D!Listed, D!GraphOf, D!Deleting, DocTypes, Handler, HandlerSteps, DocSteps
<1>7. Cleaning' /\ Gone'
  BY <1>1, <1>2 DEF Cleaning, Gone, Extracts, Cleans, D!At, D!Listed, DocTypes, Handler, HandlerSteps, DocSteps
<1>. QED  BY <1>3, <1>4, <1>5, <1>6, <1>7

LEMMA DeleteDocs ==
    ASSUME Distinct, DocsOK, DocsKept, NEW t \in Threads, NEW op \in {"delete", "clean"}, NEW d \in dDocs,
           D!Delete(t, op, d)
    PROVE  DocsOK' /\ DocsKept'
<1> USE DEF DocsOK, DocsKept
<1>1. PICK o \in {"delete", "clean"}, g \in dGraphs \cup {None} :
      /\ dThread' = [dThread EXCEPT ![t] = [op |-> o, step |-> "remove", doc |-> d, graph |-> g,
                                            names |-> {}, tries |-> 0]]
      /\ D!At(t, "idle") /\ (o = "clean" => d \in DOMAIN dIndex /\ g = dIndex[d])
  <2>1. CASE d \in DOMAIN dIndex
    BY <2>1, GraphIs DEF D!Delete, D!Start, D!Doing, D!Listed, D!GraphOf
  <2>2. CASE d \notin DOMAIN dIndex
    BY <2>2 DEF D!Delete, D!Start, D!Doing, D!Listed
  <2>. QED  BY <2>1, <2>2
<1>2. /\ dBlurred' = IF D!Extracting(d) THEN dBlurred \cup {d} ELSE dBlurred
      /\ UNCHANGED <<dUsed, dIndex, dSaved, dSource, dCleaned>>
  BY DEF D!Delete
<1>3. dBlurred \subseteq dBlurred' /\ (d \notin dBlurred' => \A u \in Threads : ~Extracts(u, d))
  BY <1>2 DEF D!Extracting, Extracts
<1>4. DocTypes' /\ DocSteps' /\ FileCurrent'
  BY <1>1, <1>2 DEF DocTypes, Handler, HandlerSteps, DocSteps, FileCurrent, D!At
<1>5. Known'
  BY <1>1, <1>2 DEF Known, DocTypes, Handler, HandlerSteps
<1>6. NewAlone'
  BY <1>1, <1>2 DEF NewAlone, Adds, Extracts, Cleans, D!At, D!Listed, DocTypes, Handler, HandlerSteps
<1>7. OneGraph'
  BY <1>1, <1>2, <1>3 DEF OneGraph, Extracts, D!At, D!Listed, D!GraphOf, D!Deleting, DocTypes, Handler, HandlerSteps, DocSteps
<1>8. Cleaning'
  BY <1>1, <1>2, <1>3 DEF OneGraph, Cleaning, Extracts, Cleans, D!At, D!Listed, D!GraphOf, DocTypes, Handler, HandlerSteps, DocSteps
<1>9. Gone'
  BY <1>1, <1>2, <1>3 DEF Gone, Extracts, D!At, D!Listed, DocTypes, Handler, HandlerSteps
<1>. QED  BY <1>4, <1>5, <1>6, <1>7, <1>8, <1>9

LEMMA UnlistDocs ==
    ASSUME Distinct, DocsOK, DocsKept, NEW t \in Threads, D!Unlist(t)
    PROVE  DocsOK' /\ DocsKept'
<1> USE DEF DocsOK, DocsKept
<1>1. D!At(t, "remove") /\ UNCHANGED <<dUsed, dSaved, dSource, dCleaned, dBlurred>>
  BY DEF D!Unlist
<1>2. PICK d \in dDocs : d = dThread[t].doc
  BY <1>1 DEF DocSteps, DocTypes, Handler, HandlerSteps, D!At
<1>3. dThread[t].op \in {"delete", "clean"} /\ D!Deleting(d)
  BY <1>1, <1>2 DEF DocSteps, DocTypes, Handler, HandlerSteps, D!At, D!Deleting
<1>4. dIndex' = D!Without(d)
  BY <1>2 DEF D!Unlist
<1>5. /\ dIndex' \in Indices /\ DOMAIN dIndex' = DOMAIN dIndex \ {d}
      /\ \A x \in DOMAIN dIndex : x # d => dIndex'[x] = dIndex[x]
  BY <1>4, WithoutIs
<1>6. \/ d \in DOMAIN dIndex /\ dThread' = [dThread EXCEPT ![t].step = "save"]
      \/ /\ d \notin DOMAIN dIndex /\ dThread[t].op = "clean"
         /\ dThread' = [dThread EXCEPT ![t].step = "collect"]
      \/ /\ d \notin DOMAIN dIndex /\ dThread[t].op = "delete"
         /\ dThread' = [dThread EXCEPT ![t] = [op |-> "none", step |-> "idle", doc |-> None, graph |-> None,
                                               names |-> {}, tries |-> 0]]
  BY <1>2, <1>3 DEF D!Unlist, D!Goto, D!Return, D!Idle, D!Doing, D!Listed
<1>7. d \notin DOMAIN dIndex => dIndex' = dIndex
  BY <1>4 DEF D!Without, DocTypes, Indices
<1>8. DocTypes'
  <2>1. dThread' \in [Threads -> Handler]
    <3>1. [op |-> "none", step |-> "idle", doc |-> None, graph |-> None, names |-> {}, tries |-> 0] \in Handler
      BY DEF Handler, HandlerSteps
    <3>2. CASE \E step \in {"save", "collect"} : dThread' = [dThread EXCEPT ![t].step = step]
      <4>1. PICK step \in HandlerSteps : dThread' = [dThread EXCEPT ![t].step = step]
        BY <3>2 DEF HandlerSteps
      <4>2. [dThread EXCEPT ![t].step = step] \in [Threads -> Handler]
        BY StepChanges DEF DocTypes
      <4>. QED  BY <4>1, <4>2
    <3>. QED  BY <3>1, <3>2, <1>6 DEF DocTypes
  <2>. QED  BY <2>1, <1>1, <1>5 DEF DocTypes
<1>9. /\ \A u \in Threads : u # t => dThread'[u] = dThread[u]
      /\ dThread'[t].op \in {"none", dThread[t].op} /\ (dThread'[t].op # "none" => dThread'[t].doc = d)
      /\ dThread'[t].op \in {"none", "delete", "clean"} /\ dThread'[t].graph \in {None, dThread[t].graph}
      /\ dThread'[t].op = "clean" => dThread'[t].graph = dThread[t].graph
      /\ dThread'[t].op = "none" => dThread'[t].step = "idle"
      /\ dThread'[t].op = "delete" => dThread'[t].step = "save"
      /\ dThread'[t].op = "clean" => dThread'[t].step \in {"save", "collect"}
      /\ dThread'[t].step \in {"save", "collect", "idle"} /\ (d \in DOMAIN dIndex => dThread'[t].step = "save")
  BY <1>2, <1>3, <1>6 DEF DocTypes, Handler, HandlerSteps
<1>10. DocSteps'
  BY <1>2, <1>9 DEF DocSteps, D!At
<1>11. FileCurrent'
  BY <1>1, <1>7, <1>9 DEF FileCurrent, D!At
<1>12. Known' /\ NewAlone'
  BY <1>1, <1>2, <1>5, <1>9 DEF Known, NewAlone, Adds, Extracts, Cleans, D!At, D!Listed
<1>13. OneGraph'
  <2>1. \A x \in dDocs, u \in Threads : Extracts(u, x)' => u # t /\ Extracts(u, x) /\ (x \notin dBlurred => x # d)
    BY <1>3, <1>9 DEF OneGraph, Extracts
  <2>2. \A x \in dDocs, u \in Threads : Extracts(u, x) => u # t /\ Extracts(u, x)'
    BY <1>3, <1>9 DEF Extracts
  <2>3. \A x \in dDocs : D!Deleting(x)' => D!Deleting(x)
    BY <1>2, <1>3, <1>9 DEF D!Deleting
  <2>. QED  BY <2>1, <2>2, <2>3, <1>1, <1>5, <1>9 DEF OneGraph, Extracts, D!At, D!Listed, D!GraphOf
<1>14. Cleaning'
  BY <1>1, <1>2, <1>3, <1>5, <1>9 DEF Cleaning, Cleans, D!At, D!Listed
<1>15. Gone'
  BY <1>1, <1>5, <1>9 DEF Gone, Extracts, D!Listed
<1>. QED  BY <1>8, <1>10, <1>11, <1>12, <1>13, <1>14, <1>15

LEMMA CollectDocs ==
    ASSUME Distinct, DocsOK, DocsKept, NEW t \in Threads, D!Collect(t)
    PROVE  DocsOK' /\ DocsKept'
<1> USE DEF DocsOK, DocsKept
<1>1. PICK names \in SUBSET dFound :
        /\ names = D!OfDocument(dThread[t].graph, dThread[t].doc)
        /\ dThread' = [dThread EXCEPT ![t].step = "purge", ![t].names = names]
  BY DEF D!Collect, D!OfDocument
<1>2. D!At(t, "collect") /\ UNCHANGED <<dUsed, dIndex, dSaved, dSource, dCleaned, dBlurred>>
  BY DEF D!Collect
<1>3. dThread[t].op = "clean"
  BY <1>2 DEF DocSteps, DocTypes, Handler, HandlerSteps, D!At
<1>4. DocTypes' /\ DocSteps' /\ FileCurrent'
  <2>1. DocTypes'
    <3>1. [dThread EXCEPT ![t].step = "purge", ![t].names = names] \in [Threads -> Handler]
      BY NamesChange DEF DocTypes, HandlerSteps
    <3>. QED  BY <3>1, <1>1, <1>2 DEF DocTypes
  <2>2. DocSteps'
    BY <1>1, <1>3 DEF DocTypes, Handler, HandlerSteps, DocSteps, D!At
  <2>3. FileCurrent'
    BY <1>1, <1>2 DEF DocTypes, Handler, HandlerSteps, FileCurrent, D!At
  <2>. QED  BY <2>1, <2>2, <2>3
<1>5. Known' /\ NewAlone'
  BY <1>1, <1>2 DEF Known, NewAlone, Adds, Extracts, Cleans, D!At, D!Listed, DocTypes, Handler, HandlerSteps
<1>6. OneGraph' /\ Gone'
  <2>0. \A u \in Threads :
          /\ dThread'[u].op = dThread[u].op /\ dThread'[u].doc = dThread[u].doc
          /\ dThread'[u].graph = dThread[u].graph /\ (u # t => dThread'[u].step = dThread[u].step)
    BY <1>1 DEF DocTypes, Handler
  <2>1. OneGraph'
    <3>1. \A x \in dDocs, u \in Threads : Extracts(u, x)' <=> (u # t /\ Extracts(u, x))
      BY <1>3, <2>0 DEF Extracts
    <3>2. \A x \in dDocs, u \in Threads : Extracts(u, x) => u # t
      BY <1>3 DEF Extracts
    <3>3. \A x \in dDocs : D!Deleting(x)' <=> D!Deleting(x)
      BY <2>0 DEF D!Deleting
    <3>4. \A x \in dDocs : (D!Listed(x)' <=> D!Listed(x)) /\ D!GraphOf(x)' = D!GraphOf(x)
      BY <1>2 DEF D!Listed, D!GraphOf
    <3>5. \A u \in Threads : u # t => (D!At(u, "ask")' <=> D!At(u, "ask")) /\ (D!At(u, "import")' <=> D!At(u, "import"))
      BY <2>0 DEF D!At
    <3>. HIDE DEF Extracts
    <3>. QED  BY <1>2, <2>0, <3>1, <3>2, <3>3, <3>4, <3>5 DEF OneGraph
  <2>2. Gone'
    BY <1>2, <1>3, <2>0 DEF Gone, Extracts, D!Listed
  <2>. QED  BY <2>1, <2>2
<1>7. Cleaning'
  <2>1. \A g \in dGraphs, n \in dFound : dSource[g][n] = dThread[t].doc /\ g = dThread[t].graph => n \in names
    BY <1>1 DEF D!OfDocument, Distinct
  <2>. QED  BY <2>1, <1>1, <1>2, <1>3 DEF Cleaning, Cleans, D!At, D!Listed, DocTypes, Handler, HandlerSteps
<1>. QED  BY <1>4, <1>5, <1>6, <1>7

LEMMA PurgeDocs ==
    ASSUME Distinct, DocsOK, DocsKept, NEW t \in Threads, NEW n \in dFound, D!Purge(t, n)
    PROVE  DocsOK' /\ DocsKept'
<1> USE DEF DocsOK, DocsKept
<1>1. /\ D!At(t, "purge") /\ dThread' = [dThread EXCEPT ![t].names = dThread[t].names \ {n}]
      /\ dSource' = [dSource EXCEPT ![dThread[t].graph][n] = None]
      /\ UNCHANGED <<dUsed, dIndex, dSaved, dCleaned, dBlurred>>
  BY DEF D!Purge
<1>2. dThread[t].op = "clean"
  BY <1>1 DEF DocSteps, DocTypes, Handler, HandlerSteps, D!At
<1>3. /\ dSource' \in [dGraphs -> [dFound -> dDocs \cup {None}]]
      /\ \A g \in dGraphs, m \in dFound : dSource'[g][m] = IF g = dThread[t].graph /\ m = n THEN None ELSE dSource[g][m]
  BY <1>1 DEF DocTypes
<1>31. \A u \in Threads :
         /\ dThread'[u].op = dThread[u].op /\ dThread'[u].doc = dThread[u].doc
         /\ dThread'[u].graph = dThread[u].graph /\ dThread'[u].step = dThread[u].step
  BY <1>1 DEF DocTypes, Handler
<1>4. DocTypes' /\ DocSteps' /\ FileCurrent'
  <2>0. dThread[t].names \ {n} \in SUBSET dFound /\ dThread[t] \in Handler
    BY DEF DocTypes, Handler
  <2>4. [dThread[t] EXCEPT !.names = dThread[t].names \ {n}] \in Handler
    BY <2>0 DEF Handler
  <2>5. dThread' = [dThread EXCEPT ![t] = [dThread[t] EXCEPT !.names = dThread[t].names \ {n}]]
    BY <1>1 DEF DocTypes
  <2>6. dThread' \in [Threads -> Handler]
    BY <2>4, <2>5 DEF DocTypes
  <2>1. DocTypes'
    BY <1>1, <1>3, <2>6 DEF DocTypes
  <2>2. DocSteps'
    BY <1>31 DEF DocSteps, D!At
  <2>3. FileCurrent'
    BY <1>1, <1>31 DEF FileCurrent, D!At
  <2>. QED  BY <2>1, <2>2, <2>3
<1>5. Known' /\ NewAlone'
  BY <1>1, <1>3 DEF Known, NewAlone, Adds, Extracts, Cleans, D!At, D!Listed, DocTypes, Handler, HandlerSteps, Distinct
<1>6. OneGraph' /\ Gone'
  <2>1. OneGraph'
    BY <1>1, <1>3, <1>31 DEF OneGraph, Extracts, D!At, D!Listed, D!GraphOf, D!Deleting, Distinct
  <2>2. ASSUME NEW d \in dCleaned \ dBlurred, d \in dDocs, ~D!Listed(d),
               \A u \in Threads : ~Extracts(u, d), \A g \in dGraphs, m \in dFound : dSource[g][m] # d
        PROVE  /\ \A u \in Threads : ~(Extracts(u, d))'
               /\ \A g \in dGraphs, m \in dFound : dSource'[g][m] # d
    <3>1. \A u \in Threads : ~(Extracts(u, d))'
      BY <1>31, <2>2 DEF Extracts
    <3>2. \A g \in dGraphs, m \in dFound : dSource'[g][m] # d
      BY <1>3, <2>2 DEF Distinct
    <3>. QED  BY <3>1, <3>2
  <2>3. dCleaned' = dCleaned /\ dBlurred' = dBlurred /\ dIndex' = dIndex /\ dCleaned \subseteq dDocs
    BY <1>1 DEF DocTypes
  <2>4. Gone'
    BY <2>2, <2>3 DEF Gone, D!Listed
  <2>. QED  BY <2>1, <2>4
<1>7. Cleaning'
  BY <1>1, <1>2, <1>3 DEF Cleaning, Cleans, D!At, D!Listed, DocTypes, Handler, HandlerSteps, Distinct
<1>. QED  BY <1>4, <1>5, <1>6, <1>7

LEMMA CleanedDocs ==
    ASSUME Distinct, DocsOK, DocsKept, NEW t \in Threads, D!Cleaned(t)
    PROVE  DocsOK' /\ DocsKept'
<1> USE DEF DocsOK, DocsKept
<1>1. /\ D!At(t, "purge") /\ dThread[t].names = {}
      /\ dThread' = [dThread EXCEPT ![t] = [op |-> "none", step |-> "idle", doc |-> None, graph |-> None,
                                            names |-> {}, tries |-> 0]]
      /\ dCleaned' = dCleaned \cup {dThread[t].doc}
      /\ UNCHANGED <<dUsed, dIndex, dSaved, dSource, dBlurred>>
  BY DEF D!Cleaned, D!Return, D!Idle, D!Doing
<1>2. PICK d \in dDocs : d = dThread[t].doc /\ dThread[t].op = "clean" /\ Cleans(t, d) /\ D!Deleting(d)
  BY <1>1 DEF DocSteps, DocTypes, Handler, HandlerSteps, D!At, Cleans, D!Deleting
<1>3. DocTypes' /\ DocSteps' /\ FileCurrent'
  BY <1>1, <1>2 DEF DocTypes, Handler, HandlerSteps, DocSteps, FileCurrent, D!At
<1>4. Known'
  BY <1>1, <1>2 DEF Known, DocTypes, Handler, HandlerSteps
<1>5. NewAlone'
  BY <1>1, <1>2 DEF NewAlone, Adds, Extracts, Cleans, D!At, D!Listed, DocTypes, Handler, HandlerSteps
<1>6. OneGraph'
  BY <1>1, <1>2 DEF OneGraph, Extracts, D!At, D!Listed, D!GraphOf, D!Deleting, DocTypes, Handler, HandlerSteps
<1>7. Cleaning'
  BY <1>1 DEF Cleaning, Cleans, D!At, D!Listed, DocTypes, Handler, HandlerSteps
<1>8. Gone'
  <2>1. d \in dBlurred \/ (/\ ~D!Listed(d) /\ \A u \in Threads : ~Extracts(u, d)
                           /\ \A g \in dGraphs, m \in dFound : dSource[g][m] # d)
    BY <1>1, <1>2 DEF Cleaning, OneGraph, D!At
  <2>. QED  BY <2>1, <1>1, <1>2 DEF Gone, Extracts, D!Listed, DocTypes, Handler, HandlerSteps
<1>. QED  BY <1>3, <1>4, <1>5, <1>6, <1>7, <1>8

LEMMA ExtractDocs ==
    ASSUME Distinct, DocsOK, DocsKept, NEW t \in Threads, NEW d \in dDocs, NEW g \in dGraphs, D!Extract(t, d, g)
    PROVE  DocsOK' /\ DocsKept'
<1> USE DEF DocsOK, DocsKept
<1>1. /\ dThread' = [dThread EXCEPT ![t] = [op |-> "extract", step |-> "ask", doc |-> d, graph |-> g,
                                            names |-> {}, tries |-> 0]]
      /\ D!At(t, "idle") /\ D!Listed(d)
      /\ UNCHANGED <<dUsed, dIndex, dSaved, dSource, dCleaned>>
  BY DEF D!Extract, D!Start, D!Doing
<1>2. /\ dBlurred \subseteq dBlurred'
      /\ d \notin dBlurred' =>
             /\ ~D!Deleting(d) /\ D!GraphOf(d) \in {None, g}
             /\ \A u \in Threads : Extracts(u, d) => dThread[u].graph = g
  BY DEF D!Extract, Extracts
<1>3. DocTypes' /\ DocSteps' /\ FileCurrent'
  BY <1>1 DEF DocTypes, Handler, HandlerSteps, DocSteps, FileCurrent, D!At
<1>4. Known'
  BY <1>1 DEF Known, D!Listed, DocTypes, Handler, HandlerSteps
<1>5. NewAlone'
  BY <1>1 DEF NewAlone, Adds, Extracts, Cleans, D!At, D!Listed, DocTypes, Handler, HandlerSteps
<1>6. OneGraph'
  <2>1. \A u \in Threads : u # t => dThread'[u] = dThread[u]
    BY <1>1 DEF DocTypes
  <2>2. /\ dThread'[t].op = "extract" /\ dThread'[t].step = "ask" /\ dThread'[t].doc = d /\ dThread'[t].graph = g
        /\ dThread[t].op = "none"
    BY <1>1 DEF DocTypes, DocSteps, D!At, Handler, HandlerSteps
  <2>3. \A x \in dDocs : D!Deleting(x)' => D!Deleting(x)
    BY <2>1, <2>2 DEF D!Deleting
  <2>. QED  BY <1>1, <1>2, <2>1, <2>2, <2>3 DEF OneGraph, Extracts, D!At, D!Listed, D!GraphOf
<1>7. Cleaning'
  <2>1. \A x \in dDocs, u \in Threads : Cleans(u, x)' => u # t /\ Cleans(u, x) /\ dThread'[u] = dThread[u]
    BY <1>1 DEF Cleans, DocTypes, Handler
  <2>. QED  BY <1>1, <1>2, <2>1 DEF Cleaning, D!At, D!Listed
<1>8. Gone'
  BY <1>1, <1>2 DEF Gone, Extracts, D!Listed, DocTypes, Handler, HandlerSteps
<1>. QED  BY <1>3, <1>4, <1>5, <1>6, <1>7, <1>8

LEMMA AskDocs ==
    ASSUME Distinct, DocsOK, DocsKept, NEW t \in Threads,
           D!Retry(t) \/ \E names \in SUBSET dFound : D!Answered(t, names)
    PROVE  DocsOK' /\ DocsKept'
<1> USE DEF DocsOK, DocsKept
<1>1. D!At(t, "ask") /\ UNCHANGED <<dUsed, dIndex, dSaved, dSource, dCleaned, dBlurred>>
  BY DEF D!Retry, D!Answered
<1>2. dThread[t].op = "extract"
  BY <1>1 DEF DocSteps, DocTypes, Handler, HandlerSteps, D!At
<1>3. dThread' \in [Threads -> Handler]
  <2>1. CASE D!Retry(t)
    <3>1. dThread' = [dThread EXCEPT ![t] = [dThread[t] EXCEPT !.tries = dThread[t].tries + 1]]
      BY <2>1 DEF D!Retry, DocTypes
    <3>2. [dThread[t] EXCEPT !.tries = dThread[t].tries + 1] \in Handler
      BY DEF DocTypes, Handler
    <3>. QED  BY <3>1, <3>2 DEF DocTypes
  <2>2. CASE \E names \in SUBSET dFound : D!Answered(t, names)
    <3>1. PICK names \in SUBSET dFound : dThread' = [dThread EXCEPT ![t].step = "import", ![t].names = names]
      BY <2>2 DEF D!Answered
    <3>. QED  BY <3>1, NamesChange DEF DocTypes, HandlerSteps
  <2>. QED  BY <2>1, <2>2
<1>4. /\ \A u \in Threads : u # t => dThread'[u] = dThread[u]
      /\ dThread'[t].op = dThread[t].op /\ dThread'[t].doc = dThread[t].doc
      /\ dThread'[t].graph = dThread[t].graph /\ dThread'[t].step \in {"ask", "import"}
  BY <1>1 DEF D!Retry, D!Answered, D!At, DocTypes, Handler
<1>5. DocTypes' /\ DocSteps' /\ FileCurrent'
  BY <1>1, <1>2, <1>3, <1>4 DEF DocTypes, DocSteps, FileCurrent, D!At
<1>6. Known' /\ NewAlone'
  BY <1>1, <1>4 DEF Known, NewAlone, Adds, Extracts, Cleans, D!At, D!Listed
<1>7. OneGraph' /\ Gone'
  BY <1>1, <1>2, <1>4 DEF OneGraph, Gone, Extracts, D!At, D!Listed, D!GraphOf, D!Deleting
<1>8. Cleaning'
  BY <1>1, <1>2, <1>4 DEF Cleaning, Cleans, D!At, D!Listed
<1>. QED  BY <1>5, <1>6, <1>7, <1>8

LEMMA ExtractedDocs ==
    ASSUME Distinct, DocsOK, DocsKept, NEW t \in Threads, D!GiveUp(t) \/ D!Finish(t) \/ D!Panic(t)
    PROVE  DocsOK' /\ DocsKept'
<1> USE DEF DocsOK, DocsKept
<1>a. PICK step \in {"idle", "panicked"} :
          dThread' = [dThread EXCEPT ![t] = [op |-> "none", step |-> step, doc |-> None, graph |-> None,
                                             names |-> {}, tries |-> 0]]
  BY DEF D!GiveUp, D!Finish, D!Panic, D!Return, D!Idle, D!Doing
<1>1. /\ D!At(t, "ask") \/ D!At(t, "finish")
      /\ dThread' = [dThread EXCEPT ![t] = [op |-> "none", step |-> step, doc |-> None, graph |-> None,
                                            names |-> {}, tries |-> 0]]
      /\ UNCHANGED <<dUsed, dIndex, dSaved, dSource, dCleaned, dBlurred>>
  BY <1>a DEF D!GiveUp, D!Finish, D!Panic
<1>2. DocTypes' /\ DocSteps' /\ FileCurrent'
  BY <1>1 DEF DocTypes, Handler, HandlerSteps, DocSteps, FileCurrent, D!At
<1>3. Known' /\ NewAlone'
  BY <1>1 DEF Known, NewAlone, Adds, Extracts, Cleans, D!At, D!Listed, DocTypes, Handler, HandlerSteps
<1>4. OneGraph'
  BY <1>1 DEF OneGraph, Extracts, D!At, D!Listed, D!GraphOf, D!Deleting, DocTypes, Handler, HandlerSteps
<1>5. Cleaning' /\ Gone'
  BY <1>1 DEF Cleaning, Gone, Extracts, Cleans, D!At, D!Listed, DocTypes, Handler, HandlerSteps
<1>. QED  BY <1>2, <1>3, <1>4, <1>5

LEMMA ImportDocs ==
    ASSUME Distinct, DocsOK, DocsKept, NEW t \in Threads, NEW n \in dFound, D!Import(t, n)
    PROVE  DocsOK' /\ DocsKept'
<1> USE DEF DocsOK, DocsKept
<1>1. /\ D!At(t, "import") /\ dThread' = [dThread EXCEPT ![t].names = dThread[t].names \ {n}]
      /\ dSource' = [dSource EXCEPT ![dThread[t].graph][n] = dThread[t].doc]
      /\ UNCHANGED <<dUsed, dIndex, dSaved, dCleaned, dBlurred>>
  BY DEF D!Import
<1>2. PICK d \in dDocs, h \in dGraphs : d = dThread[t].doc /\ h = dThread[t].graph /\ dThread[t].op = "extract"
  BY <1>1 DEF DocSteps, DocTypes, Handler, HandlerSteps, D!At
<1>3. /\ dSource' \in [dGraphs -> [dFound -> dDocs \cup {None}]]
      /\ \A g \in dGraphs, m \in dFound : dSource'[g][m] = IF g = h /\ m = n THEN d ELSE dSource[g][m]
  BY <1>1, <1>2 DEF DocTypes
<1>4. /\ dThread' \in [Threads -> Handler]
      /\ \A u \in Threads :
            /\ dThread'[u].op = dThread[u].op /\ dThread'[u].doc = dThread[u].doc
            /\ dThread'[u].graph = dThread[u].graph /\ dThread'[u].step = dThread[u].step
            /\ u # t => dThread'[u] = dThread[u]
  <2>1. [dThread[t] EXCEPT !.names = dThread[t].names \ {n}] \in Handler
    <3>1. dThread[t] \in Handler /\ dThread[t].names \ {n} \in SUBSET dFound
      BY DEF DocTypes, Handler
    <3>. QED  BY <3>1 DEF Handler
  <2>2. dThread' = [dThread EXCEPT ![t] = [dThread[t] EXCEPT !.names = dThread[t].names \ {n}]]
    BY <1>1 DEF DocTypes
  <2>3. dThread' \in [Threads -> Handler]
    BY <2>1, <2>2 DEF DocTypes
  <2>4. \A u \in Threads : u # t => dThread'[u] = dThread[u]
    BY <2>2 DEF DocTypes
  <2>5. /\ dThread'[t].op = dThread[t].op /\ dThread'[t].doc = dThread[t].doc
        /\ dThread'[t].graph = dThread[t].graph /\ dThread'[t].step = dThread[t].step
    BY <2>2 DEF DocTypes, Handler
  <2>. QED  BY <2>3, <2>4, <2>5
<1>5. DocTypes' /\ DocSteps' /\ FileCurrent'
  BY <1>1, <1>3, <1>4 DEF DocTypes, DocSteps, FileCurrent, D!At
<1>6. Known'
  BY <1>1, <1>2, <1>3, <1>4 DEF Known
<1>7. NewAlone'
  BY <1>1, <1>2, <1>3, <1>4 DEF NewAlone, Adds, Extracts, Cleans, D!At, D!Listed
<1>8. OneGraph'
  BY <1>1, <1>2, <1>3, <1>4 DEF OneGraph, Extracts, D!At, D!Listed, D!GraphOf, D!Deleting
<1>9. Cleaning' /\ Gone'
  <2>1. d \notin dBlurred => \A u \in Threads : ~Cleans(u, d)
    BY <1>2 DEF OneGraph, Extracts, Cleans, D!Deleting
  <2>2. Cleaning'
    BY <2>1, <1>1, <1>2, <1>3, <1>4 DEF Cleaning, Cleans, D!At, D!Listed
  <2>3. Gone'
    BY <1>1, <1>2, <1>3, <1>4 DEF Gone, Extracts, D!Listed
  <2>. QED  BY <2>2, <2>3
<1>. QED  BY <1>5, <1>6, <1>7, <1>8, <1>9

LEMMA AssignDocs ==
    ASSUME Distinct, DocsOK, DocsKept, NEW t \in Threads, D!Assign(t)
    PROVE  DocsOK' /\ DocsKept'
<1> USE DEF DocsOK, DocsKept
<1>1. D!At(t, "import") /\ UNCHANGED <<dUsed, dSaved, dSource, dCleaned, dBlurred>>
  BY DEF D!Assign
<1>2. PICK d \in dDocs, h \in dGraphs : d = dThread[t].doc /\ h = dThread[t].graph /\ dThread[t].op = "extract"
  BY <1>1 DEF DocSteps, DocTypes, Handler, HandlerSteps, D!At
<1>3. \/ d \in DOMAIN dIndex /\ dIndex' = D!With(d, h) /\ dThread' = [dThread EXCEPT ![t].step = "save"]
      \/ d \notin DOMAIN dIndex /\ dIndex' = dIndex /\ dThread' = [dThread EXCEPT ![t].step = "finish"]
  BY <1>2 DEF D!Assign, D!Assigned, D!Listed, D!Goto
<1>4. /\ dThread' \in [Threads -> Handler]
      /\ \A u \in Threads :
            /\ dThread'[u].op = dThread[u].op /\ dThread'[u].doc = dThread[u].doc
            /\ dThread'[u].graph = dThread[u].graph /\ (u # t => dThread'[u] = dThread[u])
      /\ dThread'[t].step = IF d \in DOMAIN dIndex THEN "save" ELSE "finish"
  <2>1. PICK step \in HandlerSteps : /\ dThread' = [dThread EXCEPT ![t].step = step]
                                     /\ step = IF d \in DOMAIN dIndex THEN "save" ELSE "finish"
    BY <1>3 DEF HandlerSteps
  <2>2. [dThread EXCEPT ![t].step = step] \in [Threads -> Handler]
    BY StepChanges DEF DocTypes
  <2>3. \A u \in Threads :
            /\ dThread'[u].op = dThread[u].op /\ dThread'[u].doc = dThread[u].doc
            /\ dThread'[u].graph = dThread[u].graph /\ (u # t => dThread'[u] = dThread[u])
    BY <2>1 DEF DocTypes, Handler
  <2>4. dThread'[t].step = step
    BY <2>1 DEF DocTypes, Handler
  <2>. QED  BY <2>1, <2>2, <2>3, <2>4
<1>5. /\ dIndex' \in Indices /\ DOMAIN dIndex' = DOMAIN dIndex
      /\ \A x \in DOMAIN dIndex : dIndex'[x] = IF x = d THEN h ELSE dIndex[x]
  <2>1. CASE d \notin DOMAIN dIndex
    BY <2>1, <1>3 DEF DocTypes
  <2>2. CASE d \in DOMAIN dIndex
    <3>1. dIndex' = D!With(d, h)
      BY <2>2, <1>3
    <3>2. /\ dIndex' \in Indices /\ DOMAIN dIndex' = DOMAIN dIndex \cup {d}
          /\ dIndex'[d] = h /\ \A x \in DOMAIN dIndex : x # d => dIndex'[x] = dIndex[x]
      BY <3>1, WithIs
    <3>. QED  BY <2>2, <3>2
  <2>. QED  BY <2>1, <2>2
<1>6. DocTypes' /\ DocSteps'
  BY <1>1, <1>2, <1>4, <1>5 DEF DocTypes, DocSteps, D!At
<1>7. FileCurrent'
  BY <1>1, <1>3, <1>4 DEF FileCurrent, D!At
<1>8. Known' /\ NewAlone'
  BY <1>1, <1>2, <1>4, <1>5 DEF Known, NewAlone, Adds, Extracts, Cleans, D!At, D!Listed
<1>9. OneGraph'
  <2>1. Extracts(t, d) /\ \A x \in dDocs : D!Deleting(x)' => D!Deleting(x)
    BY <1>2, <1>4 DEF Extracts, D!Deleting
  <2>2. \A x \in dDocs, u \in Threads : Extracts(u, x)' <=> Extracts(u, x)
    BY <1>4 DEF Extracts
  <2>3. ASSUME NEW x \in dDocs \ dBlurred, NEW u \in Threads, Extracts(u, x)
        PROVE  /\ x \in DOMAIN dIndex' /\ ~D!Deleting(x)' /\ dIndex'[x] \in {None, dThread'[u].graph}
               /\ dThread'[u].step \notin {"ask", "import"} => dIndex'[x] = dThread'[u].graph
               /\ \A v \in Threads : Extracts(v, x) => dThread'[v].graph = dThread'[u].graph
    <3>1. CASE x = d
      BY <3>1, <2>1, <2>3, <1>2, <1>4, <1>5 DEF OneGraph, D!Listed
    <3>2. CASE x # d
      <4>1. u # t
        BY <3>2, <2>3, <1>2 DEF Extracts
      <4>. QED  BY <3>2, <4>1, <2>1, <2>3, <1>4, <1>5 DEF OneGraph, D!Listed, D!GraphOf, D!At
    <3>. QED  BY <3>1, <3>2
  <2>4. ASSUME NEW x \in dDocs \ dBlurred, x \in DOMAIN dIndex, NEW g \in dGraphs, NEW n \in dFound, dSource[g][n] = x
        PROVE  \/ dIndex'[x] = g
               \/ \E u \in Threads : Extracts(u, x) /\ dThread'[u].step = "import" /\ dThread'[u].graph = g
    <3>1. CASE x = d
      BY <3>1, <2>1, <2>4, <1>2, <1>4, <1>5 DEF OneGraph, D!Listed, D!GraphOf, Distinct
    <3>2. CASE x # d
      BY <3>2, <2>4, <1>2, <1>4, <1>5 DEF OneGraph, D!Listed, D!GraphOf, D!At, Extracts
    <3>. QED  BY <3>1, <3>2
  <2>. QED  BY <2>2, <2>3, <2>4, <1>1, <1>5 DEF OneGraph, D!Listed, D!GraphOf, D!At
<1>10. Cleaning' /\ Gone'
  BY <1>1, <1>2, <1>4, <1>5 DEF Cleaning, Gone, Cleans, Extracts, D!At, D!Listed
<1>. QED  BY <1>6, <1>7, <1>8, <1>9, <1>10

LEMMA CrashDocs == ASSUME Distinct, DocsOK, DocsKept, D!Crash PROVE DocsOK' /\ DocsKept'
<1> USE DEF DocsOK, DocsKept
<1>1. /\ dThread' = [u \in Threads |-> [op |-> "none", step |-> "idle", doc |-> None, graph |-> None,
                                        names |-> {}, tries |-> 0]]
      /\ UNCHANGED <<dUsed, dSource, dCleaned>> /\ dBlurred \subseteq dBlurred'
  BY DEF D!Crash, D!Idle, D!Doing
<1>2. /\ dSaved' \in [ok : BOOLEAN, index : Indices] /\ dSaved'.index = dSaved.index
      /\ dIndex' = IF dSaved'.ok THEN dSaved.index ELSE D!NoEntries
  BY DEF D!Crash, DocTypes
<1>3. D!NoEntries \in Indices /\ DOMAIN D!NoEntries = {}
  BY DEF D!NoEntries, Indices
<1>4. dIndex' \in Indices /\ DOMAIN dIndex' \subseteq dUsed
  BY <1>2, <1>3 DEF DocTypes, Known
<1>5. dIndex' = dIndex \/ dDocs \subseteq dBlurred'
  BY <1>2 DEF D!Crash
<1>6. DocTypes' /\ DocSteps' /\ FileCurrent'
  BY <1>1, <1>2, <1>4 DEF DocTypes, Handler, HandlerSteps, DocSteps, FileCurrent, D!At
<1>7. \A u \in Threads : dThread'[u].op = "none" /\ dThread'[u].step = "idle"
  BY <1>1
<1>8. Known' /\ NewAlone' /\ Cleaning'
  BY <1>1, <1>2, <1>4, <1>7 DEF Known, NewAlone, Adds, Cleaning, Cleans, D!At
<1>9. OneGraph'
  <2>1. ASSUME NEW x \in dDocs, x \notin dBlurred', x \in DOMAIN dIndex
        PROVE  ~D!Extracting(x) /\ \A u \in Threads : ~Extracts(u, x)
    BY <2>1 DEF D!Crash, D!Extracting, Extracts
  <2>. QED  BY <2>1, <1>1, <1>5, <1>7 DEF OneGraph, Extracts, D!Listed, D!GraphOf
<1>10. Gone'
  BY <1>1, <1>5, <1>7 DEF Gone, Extracts, D!Listed, DocTypes
<1>. QED  BY <1>6, <1>8, <1>9, <1>10

LEMMA NextDocs == ASSUME Distinct, DocsOK, DocsKept, [D!Next]_(D!vars) PROVE DocsOK' /\ DocsKept'
<1>1. CASE D!Next
  BY <1>1, CreateDocs, UpdateDocs, DeleteDocs, ExtractDocs, PushDocs, SaveDocs, UnlistDocs, CollectDocs, CleanedDocs,
     AskDocs, ExtractedDocs, AssignDocs, PurgeDocs, ImportDocs, CrashDocs DEF D!Next
<1>2. CASE UNCHANGED D!vars
  BY <1>2 DEF D!vars, DocsOK, DocsKept, DocTypes, DocSteps, FileCurrent, Known, NewAlone, OneGraph, Cleaning, Gone,
              Adds, Extracts, Cleans, D!At, D!Listed, D!GraphOf, D!Deleting
<1>. QED  BY <1>1, <1>2

LEMMA DocsAlways == ASSUME Distinct PROVE D!Spec => [](DocsOK /\ DocsKept)
<1>1. D!Init => DocsOK /\ DocsKept
  BY InitDocs
<1>2. DocsOK /\ DocsKept /\ [D!Next]_(D!vars) => DocsOK' /\ DocsKept'
  BY NextDocs
<1>. QED  BY <1>1, <1>2, PTL DEF D!Spec

(***************************************************************************)
(* The file holds the index of the memory whenever no handler is between   *)
(* its change and its save (DocumentManager::save_index): FileCurrent.     *)
(***************************************************************************)
THEOREM FileHoldsIndex == ComponentsSpec => []SavedWhenQuiet
<1>1. Distinct
  BY ComponentsAssumption DEF Distinct
<1>2. DocsOK /\ DocsKept => SavedWhenQuiet
  BY DEF DocsOK, FileCurrent, D!SavedWhenQuiet, SavedWhenQuiet
<1>. QED  BY <1>1, <1>2, DocsAlways, DocumentsRun, PTL

(***************************************************************************)
(* A clean deletion leaves no vertex of its document in any graph          *)
(* (delete_document): Gone, which needs that all of them were in the one   *)
(* graph it looked at, and still in its view when it ended.                *)
(***************************************************************************)
THEOREM CleanedLeavesNothing == ComponentsSpec => []CleanedStays
<1>1. Distinct
  BY ComponentsAssumption DEF Distinct
<1>2. DocsOK /\ DocsKept => CleanedStays
  BY DEF DocsKept, Gone, D!CleanedStays, CleanedStays
<1>. QED  BY <1>1, <1>2, DocsAlways, DocumentsRun, PTL
=============================================================================
