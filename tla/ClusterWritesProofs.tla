------------------------ MODULE ClusterWritesProofs ------------------------
(***************************************************************************)
(* Proofs about the replication of writes, for any cluster and any number  *)
(* of clients, writes and troubles.  Every broadcast goes to every worker  *)
(* that has registered since the master started; a worker that missed      *)
(* nothing converges to the master; a worker without clients goes back in  *)
(* time only while it repeats what it did before a restart of the master.    IInv is about the registry: the registered workers are   *)
(* among the known ones, and nobody registers before the known workers are *)
(* loaded, which replaces the list.  JInv is about the writes under way.   *)
(***************************************************************************)
EXTENDS ClusterWrites, SequenceTheorems, FiniteSetTheorems, WellFoundedInduction, TLAPS

Phases == {"idle", "sent", "applied", "enqueue", "local"}
Writes == [kind : Kinds, id : Nat, content : Nat]
Requests == [phase : Phases,
             write : Writes,
             targets : Seq(Workers)]

Shapes ==
    /\ req \in [Clients -> Requests]
    /\ applied \in Nat
    /\ known \in Seq(Workers)
    /\ live \subseteq Workers /\ nodesFile \subseteq Workers

JoinedAreKnown == joined \subseteq Range(known)
NobodyJoinsEarly == boot # "up" => joined = {}

IInv == Shapes /\ JoinedAreKnown /\ NobodyJoinsEarly

(***************************************************************************)
(* The list of the known workers.                                          *)
(***************************************************************************)
\* What load_known may read from nodes.json is a list of workers.
LEMMA LoadedIsSequence ==
    ASSUME NEW S, S \subseteq Workers, NEW s \in SetToSeqs(S)
    PROVE  s \in Seq(Workers)
<1>1. IsFiniteSet(S)
  BY ClusterWritesAssumption, FS_Subset
<1>2. Cardinality(S) \in Nat
  BY <1>1, FS_CardinalityType
<1>3. s \in [1..Cardinality(S) -> S]
  BY DEF SetToSeqs
<1> QED
  BY <1>2, <1>3

\* register keeps every worker that is known and adds the one that registers.
LEMMA RegisteredKeeps ==
    ASSUME NEW w \in Workers, known \in Seq(Workers)
    PROVE  /\ Registered(w) \in Seq(Workers)
           /\ Range(Registered(w)) = Range(known) \cup {w}
<1>1. CASE w \in Range(known)
  BY <1>1 DEF Registered
<1>2. CASE w \notin Range(known)
  <2>1. Registered(w) = Append(known, w)
    BY <1>2 DEF Registered
  <2>2. Append(known, w) \in Seq(Workers)
    BY AppendProperties
  <2>3. DOMAIN Append(known, w) = 1..(Len(known) + 1) /\ DOMAIN known = 1..Len(known)
    BY AppendProperties, LenProperties
  <2>4. \A i \in 1..Len(known) : Append(known, w)[i] = known[i]
    BY AppendProperties
  <2>5. Append(known, w)[Len(known) + 1] = w /\ Len(known) \in Nat
    BY AppendProperties, LenProperties
  <2>6. Range(Append(known, w)) = Range(known) \cup {w}
    BY <2>3, <2>4, <2>5 DEF Range
  <2> QED
    BY <2>1, <2>2, <2>6
<1> QED
  BY <1>1, <1>2

(***************************************************************************)
(* The inductive invariant.                                                *)
(***************************************************************************)
LEMMA IdleShape == Idle \in Requests
<1>1. <<>> \in Seq(Workers)
  OBVIOUS
<1>2. NoWrite \in Writes
  BY DEF NoWrite, Kinds, Writes
<1> QED
  BY <1>1, <1>2 DEF Idle, Requests, Phases

LEMMA InitIInv == Init => IInv
<1> SUFFICES ASSUME Init PROVE IInv
  OBVIOUS
<1>1. <<>> \in Seq(Workers)
  OBVIOUS
<1>2. req \in [Clients -> Requests]
  BY IdleShape DEF Init
<1>3. applied \in Nat /\ known \in Seq(Workers) /\ live = {} /\ nodesFile = {} /\ joined = {}
  BY <1>1 DEF Init
<1> QED
  BY <1>2, <1>3 DEF IInv, Shapes, JoinedAreKnown, NobodyJoinsEarly

\* A step of a request leaves the registry alone and keeps the shape of req.
LEMMA RequestSteps ==
    ASSUME IInv, NEW c \in Clients,
           \/ \E kind \in Kinds, id \in Ids : Request(c, kind, id)
           \/ ForwardFails(c) \/ Handle(c) \/ ReplyLost(c)
    PROVE  IInv'
<1> USE DEF Return, Goto
<1>0. req \in [Clients -> Requests] /\ applied \in Nat
  BY DEF IInv, Shapes
<1>1. UNCHANGED registryVars
  BY DEF Request, ForwardFails, Handle, ReplyLost, Apply, ApplyFails, Broadcast, Enqueue,
         Reply, ApplyLocally
<1>2. applied' \in Nat /\ req' \in [Clients -> Requests]
  <2>1. ASSUME NEW kind \in Kinds, NEW id \in Ids, Request(c, kind, id)
        PROVE  applied' \in Nat /\ req' \in [Clients -> Requests]
    <3> DEFINE w == [kind |-> kind, id |-> id, content |-> 0]
    <3>a. w \in Writes
      BY ClusterWritesAssumption DEF Ids, Writes
    <3>b. <<>> \in Seq(Workers)
      OBVIOUS
    <3>1. [phase |-> "sent", write |-> w, targets |-> <<>>] \in Requests
      BY <3>a, <3>b DEF Requests, Phases
    <3>2. applied' = applied
      BY <2>1 DEF Request
    <3>3. req' = [req EXCEPT ![c] = [phase |-> "sent", write |-> w, targets |-> <<>>]]
      BY <2>1 DEF Request
    <3> HIDE DEF w
    <3> QED
      BY <1>0, <3>1, <3>2, <3>3
  <2>2. CASE ForwardFails(c) \/ ReplyLost(c) \/ ApplyFails(c) \/ ApplyLocally(c)
    BY <1>0, <2>2, IdleShape DEF ForwardFails, ReplyLost, ApplyFails, ApplyLocally
  <2>3. CASE Apply(c)
    <3>1. Numbered(c).id \in Ids
      BY <2>3 DEF Apply
    <3>2. req[c].write \in Writes
      BY <1>0 DEF Requests
    <3>3. Numbered(c).id \in Nat /\ req[c].write.kind \in Kinds
      BY <3>1, <3>2, ClusterWritesAssumption DEF Ids, Writes
    <3>4. Numbered(c) \in Writes
      BY <1>0, <3>3 DEF Numbered, Writes
    <3>5. req' = [req EXCEPT ![c].phase = "applied", ![c].write = Numbered(c)]
      BY <2>3 DEF Apply
    <3>6. applied' \in Nat
      BY <1>0, <2>3 DEF Apply
    <3> QED
      BY <1>0, <3>4, <3>5, <3>6 DEF Requests, Phases
  <2>4. CASE Broadcast(c)
    <3>1. req' = [req EXCEPT ![c].phase = "enqueue", ![c].targets = known] /\ applied' = applied
      BY <2>4 DEF Broadcast
    <3>2. known \in Seq(Workers)
      BY DEF IInv, Shapes
    <3> QED
      BY <1>0, <3>1, <3>2 DEF Requests, Phases
  <2>5. CASE Enqueue(c)
    <3>1. req[c].targets \in Seq(Workers) /\ req[c].targets # <<>>
      BY <1>0, <2>5 DEF Enqueue, Requests
    <3>2. Tail(req[c].targets) \in Seq(Workers)
      BY <3>1, HeadTailProperties
    <3>3. req' = [req EXCEPT ![c].targets = Tail(@)] /\ applied' = applied
      BY <2>5 DEF Enqueue
    <3> QED
      BY <1>0, <3>2, <3>3 DEF Requests
  <2>6. CASE Reply(c)
    <3>1. req' = [req EXCEPT ![c].phase = "local"] \/ req' = [req EXCEPT ![c] = Idle]
      BY <2>6 DEF Reply
    <3>2. applied' = applied
      BY <2>6 DEF Reply
    <3>3. CASE req' = [req EXCEPT ![c].phase = "local"]
      BY <1>0, <3>2, <3>3 DEF Requests, Phases
    <3>4. CASE req' = [req EXCEPT ![c] = Idle]
      BY <1>0, <3>2, <3>4, IdleShape
    <3> QED
      BY <3>1, <3>3, <3>4
  <2> QED
    BY <2>1, <2>2, <2>3, <2>4, <2>5, <2>6 DEF Handle
<1> QED
  BY <1>1, <1>2 DEF IInv, Shapes, JoinedAreKnown, NobodyJoinsEarly, registryVars

LEMMA NextIInv == IInv /\ [Next]_vars => IInv'
<1> SUFFICES ASSUME IInv, [Next]_vars PROVE IInv'
  OBVIOUS
<1> USE DEF IInv, Shapes, JoinedAreKnown, NobodyJoinsEarly
<1>1. CASE UNCHANGED vars
  BY <1>1 DEF vars, registryVars
<1>2. ASSUME NEW c \in Clients,
             \/ \E kind \in Kinds, id \in Ids : Request(c, kind, id)
             \/ ForwardFails(c) \/ Handle(c) \/ ReplyLost(c)
      PROVE  IInv'
  BY <1>2, RequestSteps
<1>3. ASSUME NEW w \in Workers, Deliver(w) \/ DeliverUnanswered(w) \/ DeliverRefused(w)
      PROVE  IInv'
  BY <1>3 DEF Deliver, DeliverUnanswered, DeliverRefused, registryVars
<1>9. ASSUME NEW w \in Workers, RemoveFile(w)
      PROVE  IInv'
  BY <1>9 DEF RemoveFile, registryVars
<1>4. ASSUME NEW w \in Workers, Heartbeat(w)
      PROVE  IInv'
  BY <1>4, RegisteredKeeps DEF Heartbeat, boundVars
<1>5. ASSUME NEW w \in Workers, Expire(w)
      PROVE  IInv'
  BY <1>5 DEF Expire
<1>6. CASE SetMasterInfo
  BY <1>6 DEF SetMasterInfo, boundVars
<1>7. CASE LoadKnown
  <2>1. known' \in Seq(Workers)
    BY <1>7, LoadedIsSequence DEF LoadKnown
  <2>2. joined' = {}
    BY <1>7 DEF LoadKnown
  <2> QED
    BY <1>7, <2>1, <2>2 DEF LoadKnown, boundVars
<1>8. CASE Crash
  <2>1. <<>> \in Seq(Workers)
    OBVIOUS
  <2>2. req' \in [Clients -> Requests]
    BY <1>8, IdleShape DEF Crash
  <2> QED
    BY <1>8, <2>1, <2>2 DEF Crash
<1> QED
  BY <1>1, <1>2, <1>3, <1>4, <1>5, <1>6, <1>7, <1>8, <1>9 DEF Next, Startup

\* Every worker that registered is known, whatever expired meanwhile.
LEMMA Invariance == Spec => []IInv
<1> QED
  BY InitIInv, NextIInv, PTL DEF Spec

(***************************************************************************)
(* The theorem.                                                            *)
(***************************************************************************)
\* Only Broadcast takes a request from "applied" to "enqueue".
LEMMA BroadcastServes ==
    ASSUME IInv, [Next]_vars, NEW c \in Clients,
           req[c].phase = "applied", req'[c].phase = "enqueue"
    PROVE  joined \subseteq Range(req'[c].targets)
<1> USE DEF IInv, Shapes, Return, Goto
<1>0. req \in [Clients -> Requests]
  OBVIOUS
<1>1. req' # req
  OBVIOUS
<1>2. PICK d \in Clients :
        \/ \E kind \in Kinds, id \in Ids : Request(d, kind, id)
        \/ ForwardFails(d) \/ Handle(d) \/ ReplyLost(d) \/ Crash
  BY <1>1 DEF Next, vars, Deliver, DeliverUnanswered, DeliverRefused, RemoveFile, Heartbeat,
              Expire, Startup, SetMasterInfo, LoadKnown
<1>3. ~Crash
  <2>1. ASSUME Crash PROVE FALSE
    <3>1. req' = [e \in Clients |-> IF AtMaster(e) THEN Idle ELSE req[e]]
      BY <2>1 DEF Crash
    <3>. QED  BY <3>1 DEF AtMaster, Idle
  <2>. QED  BY <2>1
<1>4. ~\E kind \in Kinds, id \in Ids : Request(d, kind, id)
  BY <1>0 DEF Request, Requests
<1>5. Idle.phase = "idle"
  BY DEF Idle
<1>6. ~(ForwardFails(d) \/ ReplyLost(d) \/ ApplyFails(d) \/ ApplyLocally(d))
  BY <1>0, <1>5 DEF ForwardFails, ReplyLost, ApplyFails, ApplyLocally
<1>7. ~(Apply(d) \/ Reply(d))
  BY <1>0, <1>5 DEF Apply, Reply, Answered, Requests
<1>8. ~Enqueue(d)
  BY <1>0 DEF Enqueue, Requests
<1>9. Broadcast(d) /\ d = c
  BY <1>0, <1>2, <1>3, <1>4, <1>6, <1>7, <1>8 DEF Handle, Broadcast, Requests
<1>10. req'[c].targets = known
  BY <1>0, <1>9 DEF Broadcast, Requests
<1> QED
  BY <1>10 DEF JoinedAreKnown

\* "Broadcasts keep flowing to offline workers" (node.rs, known_worker_targets):
\* a worker that has registered since the master started is a target of every
\* broadcast.
THEOREM OfflineAreServed == Spec => OfflineStillServed
<1>1. IInv /\ [Next]_vars =>
        [\A c \in Clients :
            req[c].phase = "applied" /\ req'[c].phase = "enqueue"
               => joined \subseteq Range(req'[c].targets)]_vars
  BY BroadcastServes
<1> QED
  BY <1>1, Invariance, PTL DEF Spec, OfflineStillServed

-----------------------------------------------------------------------------
(***************************************************************************)
(* A set of numbers has a least element, and a bounded one a greatest.     *)
(***************************************************************************)
LEMMA MinimalElement ==
    ASSUME NEW R, NEW S, NEW T, T \subseteq S, T # {}, IsWellFoundedOn(R, S)
    PROVE  \E n \in T : \A m \in T : ~(<<m, n>> \in R)
BY WFMin, Zenon

LEMMA LeastBy ==
    ASSUME NEW R, NEW T \in SUBSET Nat, T # {}, IsWellFoundedOn(R, Nat),
           \A m, n \in Nat : m < n => <<m, n>> \in R
    PROVE  \E n \in T : \A m \in T : n <= m
<1>1. T \subseteq Nat
  OBVIOUS
<1>2. PICK n \in T : \A m \in T : ~(<<m, n>> \in R)
  BY <1>1, MinimalElement, Zenon
<1>3. ASSUME NEW m \in T PROVE n <= m
  <2>1. m \in Nat /\ n \in Nat
    OBVIOUS
  <2>2. ~(m < n)
    BY <1>2, <2>1, Zenon
  <2>. QED  BY <2>1, <2>2
<1>. QED  BY <1>3

LEMMA LeastNumber ==
    ASSUME NEW T \in SUBSET Nat, T # {}
    PROVE  \E n \in T : \A m \in T : n <= m
<1>1. \A m, n \in Nat : m < n => <<m, n>> \in OpToRel(<, Nat)
  BY DEF OpToRel
<1>. QED  BY <1>1, NatLessThanWellFounded, LeastBy, Zenon

LEMMA GreatestNumber ==
    ASSUME NEW b \in Nat, NEW T \in SUBSET (0..b), T # {}
    PROVE  \E n \in T : \A m \in T : m <= n
<1>. DEFINE D == {b - n : n \in T}
<1>1. D \in SUBSET Nat /\ D # {}
  <2>1. \A n \in T : b - n \in Nat
    OBVIOUS
  <2>. QED  BY <2>1
<1>2. PICK d \in D : \A e \in D : d <= e
  BY <1>1, LeastNumber
<1>3. PICK n \in T : d = b - n
  BY <1>2
<1>4. \A m \in T : b - n <= b - m
  BY <1>2, <1>3
<1>. QED  BY <1>3, <1>4

-----------------------------------------------------------------------------
(***************************************************************************)
(* What is on its way to a worker.  For one vertex, q is the queue to the  *)
(* worker, X the writes (at most one) that the master has applied and not  *)
(* yet queued, s what the worker stores and m what the master stores.      *)
(***************************************************************************)
Vertices == [there : BOOLEAN, content : Nat, version : Nat]
Graphs == [Ids -> Vertices]

Of(q, id, i) == i \in DOMAIN q /\ q[i].id = id
NoneOf(q, id) == \A i \in DOMAIN q : q[i].id # id
LastOf(q, id, i) == Of(q, id, i) /\ \A j \in DOMAIN q : q[j].id = id => j <= i
NextOf(q, id, i, j) ==
    Of(q, id, i) /\ Of(q, id, j) /\ i < j /\ \A k \in DOMAIN q : q[k].id = id => k <= i \/ j <= k
OnlyOf(q, id, i) == Of(q, id, i) /\ \A j \in DOMAIN q : q[j].id = id => j = i

\* The master has applied a write b right after a to the same vertex.
Follows(a, b) == (b.kind = "create") = (a.kind = "delete")

\* The vertex is as the write left it.
Matches(x, v) == x.content = v.content /\ (x.kind = "delete") = ~v.there

Creates(x, s) == x.kind = "create" /\ s.there => s.content = x.content

\* The writes under way make of s what the master stores, also when some of
\* them are executed again.
Leads(q, X, id, s, m) ==
    /\ \A i, j \in DOMAIN q : NextOf(q, id, i, j) => Follows(q[i], q[j])
    /\ \A i \in DOMAIN q : LastOf(q, id, i) => \A x \in X : Follows(q[i], x)
    /\ \A x \in X : Matches(x, m)
    /\ X = {} => \A i \in DOMAIN q : LastOf(q, id, i) => Matches(q[i], m)
    /\ X = {} /\ NoneOf(q, id) => Same(s, m)
    /\ /\ X # {} \/ ~NoneOf(q, id)
       /\ \A i \in DOMAIN q : q[i].id = id => q[i].kind = "update"
       /\ \A x \in X : x.kind = "update"
       => s.there
    /\ X = {} => \A i \in DOMAIN q : OnlyOf(q, id, i) => Creates(q[i], s)
    /\ NoneOf(q, id) => \A x \in X : Creates(x, s)

\* What a write makes of a vertex s.
Makes(x, s, t) ==
    IF (x.kind = "create") # s.there
    THEN t.there = (x.kind # "delete") /\ t.content = x.content
    ELSE t.there = s.there /\ t.content = s.content

LEMMA EffectMakes ==
    ASSUME NEW graph \in Graphs, NEW x \in Writes
    PROVE  /\ Effect(graph, x) \in Graphs
           /\ \A id \in Ids : IF id = x.id THEN Makes(x, graph[id], Effect(graph, x)[id])
                                           ELSE Effect(graph, x)[id] = graph[id]
<1>. USE DEF Graphs, Vertices, Writes
<1>1. CASE ~Possible(graph, x)
  BY <1>1 DEF Effect, Possible, Makes
<1>2. CASE Possible(graph, x) /\ x.id \in Ids
  <2>1. graph[x.id].version \in Nat
    BY <1>2
  <2>. DEFINE v == [there |-> x.kind # "delete", content |-> x.content,
                    version |-> IF x.kind = "create" THEN 1 ELSE graph[x.id].version + 1]
  <2>2. v \in Vertices /\ Effect(graph, x) = [graph EXCEPT ![x.id] = v]
    BY <1>2, <2>1 DEF Effect
  <2>3. v.there = (x.kind # "delete") /\ v.content = x.content
    OBVIOUS
  <2>. HIDE DEF v
  <2>. QED  BY <1>2, <2>2, <2>3 DEF Possible, Makes
<1>3. CASE Possible(graph, x) /\ x.id \notin Ids
  <2>1. Effect(graph, x) = graph
    BY <1>3 DEF Effect
  <2>. QED  BY <1>3, <2>1
<1>. QED  BY <1>1, <1>2, <1>3

(***************************************************************************)
(* The writes a restart would bring back, and those in the queue.          *)
(***************************************************************************)
LEMMA JoinedWrites ==
    ASSUME NEW f \in Seq(Writes), NEW q \in Seq(Writes)
    PROVE  /\ f \o q \in Seq(Writes)
           /\ DOMAIN q = 1..Len(q) /\ Len(q) \in Nat /\ Len(f) \in Nat
           /\ DOMAIN (f \o q) = 1..(Len(f) + Len(q))
           /\ \A i \in DOMAIN q : Len(f) + i \in DOMAIN (f \o q) /\ (f \o q)[Len(f) + i] = q[i]
<1>1. Len(f) \in Nat /\ Len(q) \in Nat /\ DOMAIN q = 1..Len(q)
  BY LenProperties
<1>2. f \o q \in Seq(Writes) /\ Len(f \o q) = Len(f) + Len(q)
  BY ConcatProperties
<1>3. \A i \in 1..(Len(f) + Len(q)) : (f \o q)[i] = IF i <= Len(f) THEN f[i] ELSE q[i - Len(f)]
  BY ConcatProperties
<1>4. DOMAIN (f \o q) = 1..(Len(f) + Len(q))
  BY <1>2, LenProperties
<1>5. ASSUME NEW i \in 1..Len(q)
      PROVE  Len(f) + i \in 1..(Len(f) + Len(q)) /\ (f \o q)[Len(f) + i] = q[i]
  <2>1. Len(f) + i \in 1..(Len(f) + Len(q)) /\ ~(Len(f) + i <= Len(f)) /\ (Len(f) + i) - Len(f) = i
    BY <1>1
  <2>. QED  BY <1>3, <2>1
<1>. QED  BY <1>1, <1>2, <1>4, <1>5

LEMMA JoinedAppend ==
    ASSUME NEW f \in Seq(Writes), NEW q \in Seq(Writes), NEW x \in Writes
    PROVE  f \o Append(q, x) = Append(f \o q, x)
<1>1. <<x>> \in Seq(Writes) /\ f \o q \in Seq(Writes)
  BY ConcatProperties
<1>2. Append(q, x) = q \o <<x>> /\ Append(f \o q, x) = (f \o q) \o <<x>>
  BY <1>1, AppendIsConcat
<1>. QED  BY <1>1, <1>2, ConcatAssociative

\* The first of the queue goes to the end of what was delivered.
LEMMA JoinedMove ==
    ASSUME NEW f \in Seq(Writes), NEW q \in Seq(Writes), q # <<>>
    PROVE  Append(f, Head(q)) \o Tail(q) = f \o q
<1>1. Head(q) \in Writes /\ Tail(q) \in Seq(Writes) /\ <<Head(q)>> \in Seq(Writes)
  BY HeadTailProperties
<1>2. Append(f, Head(q)) = f \o <<Head(q)>>
  BY <1>1, AppendIsConcat
<1>3. <<Head(q)>> \o Tail(q) = q
  <2>1. /\ Len(<<Head(q)>>) = 1 /\ <<Head(q)>>[1] = Head(q)
        /\ Len(q) \in Nat /\ Len(q) >= 1 /\ Head(q) = q[1] /\ DOMAIN q = 1..Len(q)
        /\ Len(Tail(q)) = Len(q) - 1 /\ \A i \in 1..(Len(q) - 1) : Tail(q)[i] = q[i + 1]
    BY HeadTailProperties, LenProperties, EmptySeq
  <2>2. <<Head(q)>> \o Tail(q) \in Seq(Writes) /\ Len(<<Head(q)>> \o Tail(q)) = 1 + Len(Tail(q))
    BY <1>1, <2>1, ConcatProperties
  <2>3. \A i \in 1..(1 + Len(Tail(q))) : (<<Head(q)>> \o Tail(q))[i] =
            IF i <= 1 THEN <<Head(q)>>[i] ELSE Tail(q)[i - 1]
    BY <1>1, <2>1, ConcatProperties
  <2>4. \A i \in 1..Len(q) : (<<Head(q)>> \o Tail(q))[i] = q[i]
    BY <2>1, <2>3
  <2>. QED  BY <2>1, <2>2, <2>4, SeqEqual
<1>. QED  BY <1>1, <1>2, <1>3, ConcatAssociative

LEMMA LeadsApply ==
    ASSUME NEW q \in Seq(Writes), NEW x \in Writes, NEW id, x.id = id,
           NEW s \in Vertices, NEW m \in Vertices, NEW n \in Vertices,
           Leads(q, {}, id, s, m), (x.kind = "create") # m.there, Makes(x, m, n)
    PROVE  Leads(q, {x}, id, s, n)
<1>1. Matches(x, n)
  BY DEF Makes, Matches, Writes, Vertices, Kinds
<1>2. \A i \in DOMAIN q : LastOf(q, id, i) => Follows(q[i], x)
  BY DEF Leads, Matches, Follows, Vertices
<1>3. (\A i \in DOMAIN q : q[i].id = id => q[i].kind = "update") /\ x.kind = "update" => s.there
  BY DEF Leads, Same, Vertices, NoneOf
<1>4. NoneOf(q, id) => Creates(x, s)
  BY DEF Leads, Creates, Same, Vertices
<1>. QED  BY <1>1, <1>2, <1>3, <1>4 DEF Leads

\* The queue takes the write that was waiting for it.
LEMMA AppendedWrites ==
    ASSUME NEW q \in Seq(Writes), NEW x \in Writes
    PROVE  /\ Append(q, x) \in Seq(Writes)
           /\ DOMAIN Append(q, x) = 1..(Len(q) + 1) /\ DOMAIN q = 1..Len(q) /\ Len(q) \in Nat
           /\ \A i \in 1..Len(q) : Append(q, x)[i] = q[i]
           /\ Append(q, x)[Len(q) + 1] = x
BY AppendProperties, LenProperties

LEMMA LeadsEnqueue ==
    ASSUME NEW q \in Seq(Writes), NEW x \in Writes, NEW id, x.id = id,
           NEW s \in Vertices, NEW m \in Vertices, Leads(q, {x}, id, s, m)
    PROVE  Leads(Append(q, x), {}, id, s, m)
<1>. DEFINE r == Append(q, x)
            n == Len(q) + 1
<1>1. /\ DOMAIN r = 1..n /\ DOMAIN q = 1..(n - 1) /\ n \in Nat /\ n >= 1
      /\ \A i \in 1..(n - 1) : r[i] = q[i]
      /\ r[n] = x
  BY AppendedWrites
<1>. HIDE DEF r, n
<1>2. Of(r, id, n) /\ ~NoneOf(r, id)
  BY <1>1 DEF Of, NoneOf
<1>3. \A i \in 1..n : LastOf(r, id, i) => i = n
  BY <1>1 DEF LastOf, Of
<1>4. ASSUME NEW i \in 1..n, NEW j \in 1..n, NextOf(r, id, i, j) PROVE Follows(r[i], r[j])
  <2>1. i \in 1..(n - 1) /\ r[i] = q[i] /\ Of(q, id, i)
    BY <1>1, <1>4 DEF NextOf, Of
  <2>2. CASE j = n
    <3>1. LastOf(q, id, i)
      BY <1>1, <1>4, <2>1, <2>2 DEF NextOf, LastOf, Of
    <3>. QED  BY <1>1, <2>1, <2>2, <3>1 DEF Leads
  <2>3. CASE j # n
    <3>1. j \in 1..(n - 1) /\ r[j] = q[j] /\ Of(q, id, j)
      BY <1>1, <1>4, <2>3 DEF NextOf, Of
    <3>2. NextOf(q, id, i, j)
      BY <1>1, <1>4, <2>1, <3>1 DEF NextOf, Of
    <3>. QED  BY <1>1, <2>1, <3>1, <3>2 DEF Leads
  <2>. QED  BY <2>2, <2>3
<1>5. Matches(x, m)
  BY DEF Leads
<1>6. (\A i \in 1..n : r[i].id = id => r[i].kind = "update") => s.there
  <2>1. ASSUME \A i \in 1..n : r[i].id = id => r[i].kind = "update" PROVE s.there
    <3>1. x.kind = "update" /\ \A i \in 1..(n - 1) : q[i].id = id => q[i].kind = "update"
      BY <1>1, <2>1
    <3>. QED  BY <1>1, <3>1 DEF Leads
  <2>. QED  BY <2>1
<1>7. ASSUME NEW i \in 1..n, OnlyOf(r, id, i) PROVE Creates(r[i], s)
  <2>1. i = n /\ NoneOf(q, id)
    BY <1>1, <1>7 DEF OnlyOf, Of, NoneOf
  <2>. QED  BY <1>1, <2>1 DEF Leads
<1>8. Leads(r, {}, id, s, m)
  BY <1>1, <1>2, <1>3, <1>4, <1>5, <1>6, <1>7 DEF Leads
<1>. QED  BY <1>8 DEF r

\* A write of another vertex.
LEMMA LeadsOther ==
    ASSUME NEW q \in Seq(Writes), NEW y \in Writes, NEW id, y.id # id, NEW X,
           NEW s, NEW m, Leads(q, X, id, s, m)
    PROVE  Leads(Append(q, y), X, id, s, m)
<1>. DEFINE r == Append(q, y)
            n == Len(q) + 1
<1>1. /\ DOMAIN r = 1..n /\ DOMAIN q = 1..(n - 1) /\ n \in Nat /\ n >= 1
      /\ \A i \in 1..(n - 1) : r[i] = q[i]
      /\ r[n] = y
  BY AppendedWrites
<1>. HIDE DEF r, n
<1>2. \A i : Of(r, id, i) => i \in 1..(n - 1) /\ Of(q, id, i) /\ r[i] = q[i]
  BY <1>1 DEF Of
<1>3. \A i \in DOMAIN q : i \in DOMAIN r /\ r[i] = q[i]
  BY <1>1
<1>4. \A i, j : NextOf(r, id, i, j) => NextOf(q, id, i, j)
  BY <1>2, <1>3 DEF NextOf
<1>5. \A i : LastOf(r, id, i) => LastOf(q, id, i)
  BY <1>2, <1>3 DEF LastOf
<1>6. \A i : OnlyOf(r, id, i) => OnlyOf(q, id, i)
  BY <1>2, <1>3 DEF OnlyOf
<1>7. NoneOf(r, id) = NoneOf(q, id)
  BY <1>2, <1>3 DEF NoneOf, Of
<1>8. /\ \A i, j \in DOMAIN r : NextOf(r, id, i, j) => Follows(r[i], r[j])
      /\ \A i \in DOMAIN r : LastOf(r, id, i) => \A x \in X : Follows(r[i], x)
      /\ X = {} => \A i \in DOMAIN r : LastOf(r, id, i) => Matches(r[i], m)
      /\ X = {} => \A i \in DOMAIN r : OnlyOf(r, id, i) => Creates(r[i], s)
  <2>1. \A i, j \in DOMAIN r : NextOf(r, id, i, j) =>
            i \in DOMAIN q /\ j \in DOMAIN q /\ r[i] = q[i] /\ r[j] = q[j]
    BY <1>1, <1>2 DEF NextOf
  <2>2. \A i \in DOMAIN r : LastOf(r, id, i) \/ OnlyOf(r, id, i) => i \in DOMAIN q /\ r[i] = q[i]
    BY <1>1, <1>2 DEF LastOf, OnlyOf
  <2>3. \A i, j \in DOMAIN r : NextOf(r, id, i, j) => Follows(r[i], r[j])
    BY <1>4, <2>1 DEF Leads
  <2>4. \A i \in DOMAIN r : LastOf(r, id, i) => \A x \in X : Follows(r[i], x)
    BY <1>5, <2>2 DEF Leads
  <2>5. X = {} => \A i \in DOMAIN r : LastOf(r, id, i) => Matches(r[i], m)
    BY <1>5, <2>2 DEF Leads
  <2>6. X = {} => \A i \in DOMAIN r : OnlyOf(r, id, i) => Creates(r[i], s)
    BY <1>6, <2>2 DEF Leads
  <2>. QED  BY <2>3, <2>4, <2>5, <2>6
<1>9. (\A i \in DOMAIN r : r[i].id = id => r[i].kind = "update")
         => \A i \in DOMAIN q : q[i].id = id => q[i].kind = "update"
  BY <1>3
<1>10. Leads(r, X, id, s, m)
  BY <1>7, <1>8, <1>9 DEF Leads
<1>. QED  BY <1>10 DEF r

\* The worker executes the first write, and the queue loses it or keeps it.
LEMMA TailWrites ==
    ASSUME NEW q \in Seq(Writes), q # <<>>
    PROVE  /\ Tail(q) \in Seq(Writes) /\ Head(q) = q[1] /\ q[1] \in Writes
           /\ Len(q) \in Nat /\ Len(q) >= 1
           /\ DOMAIN q = 1..Len(q) /\ DOMAIN Tail(q) = 1..(Len(q) - 1)
           /\ \A i \in 1..(Len(q) - 1) : Tail(q)[i] = q[i + 1]
BY HeadTailProperties, LenProperties, EmptySeq

LEMMA FirstAfter ==
    ASSUME NEW q \in Seq(Writes), NEW id, Of(q, id, 1), NEW k \in DOMAIN q, k # 1, q[k].id = id
    PROVE  \E j \in DOMAIN q : j # 1 /\ NextOf(q, id, 1, j)
<1>. DEFINE T == {j \in DOMAIN q : j # 1 /\ q[j].id = id}
<1>1. DOMAIN q = 1..Len(q) /\ Len(q) \in Nat
  BY LenProperties
<1>2. T \in SUBSET Nat /\ T # {}
  BY <1>1
<1>3. PICK j \in T : \A i \in T : j <= i
  BY <1>2, LeastNumber
<1>. QED  BY <1>1, <1>3 DEF NextOf, Of

LEMMA LastExists ==
    ASSUME NEW q \in Seq(Writes), NEW id, ~NoneOf(q, id)
    PROVE  \E i \in DOMAIN q : LastOf(q, id, i)
<1>. DEFINE T == {i \in DOMAIN q : q[i].id = id}
<1>1. DOMAIN q = 1..Len(q) /\ Len(q) \in Nat
  BY LenProperties
<1>2. T \in SUBSET (0..Len(q)) /\ T # {}
  BY <1>1 DEF NoneOf
<1>3. PICK i \in T : \A j \in T : j <= i
  BY <1>1, <1>2, GreatestNumber
<1>. QED  BY <1>3 DEF LastOf, Of

LEMMA LeadsAgain ==
    ASSUME NEW q \in Seq(Writes), NEW e \in DOMAIN q, NEW id, NEW X,
           NEW s \in Vertices, NEW t \in Vertices, NEW m \in Vertices, Leads(q, X, id, s, m),
           IF id = q[e].id THEN Makes(q[e], s, t) ELSE t = s
    PROVE  Leads(q, X, id, t, m)
<1>1. CASE id # q[e].id
  BY <1>1
<1>2. CASE id = q[e].id
  <2>1. ~NoneOf(q, id)
    BY <1>2 DEF NoneOf
  <2>2. (\A i \in DOMAIN q : q[i].id = id => q[i].kind = "update") /\ (\A x \in X : x.kind = "update")
           => t.there
    BY <1>2, <2>1 DEF Leads, Makes, Vertices
  <2>3. ASSUME X = {}, NEW i \in DOMAIN q, OnlyOf(q, id, i) PROVE Creates(q[i], t)
    <3>1. i = e /\ Creates(q[e], s)
      BY <1>2, <2>1, <2>3 DEF Leads, OnlyOf
    <3>. QED  BY <1>2, <3>1 DEF Creates, Makes, Vertices
  <2>. QED  BY <2>1, <2>2, <2>3 DEF Leads
<1>. QED  BY <1>1, <1>2

LEMMA LeadsDeliver ==
    ASSUME NEW q \in Seq(Writes), q # <<>>, NEW id, NEW X,
           NEW s \in Vertices, NEW t \in Vertices, NEW m \in Vertices, Leads(q, X, id, s, m),
           IF id = q[1].id THEN Makes(q[1], s, t) ELSE t = s
    PROVE  Leads(Tail(q), X, id, t, m)
<1>. DEFINE r == Tail(q)
            n == Len(q)
<1>1. /\ DOMAIN q = 1..n /\ DOMAIN r = 1..(n - 1) /\ n \in Nat /\ n >= 1
      /\ \A i \in 1..(n - 1) : r[i] = q[i + 1]
      /\ q[1] \in Writes
  BY TailWrites
<1>. HIDE DEF r, n
<1>2. \A i \in DOMAIN r : i + 1 \in DOMAIN q /\ r[i] = q[i + 1] /\ i + 1 # 1
  BY <1>1
<1>3. \A i \in DOMAIN q : i # 1 => i - 1 \in DOMAIN r /\ r[i - 1] = q[i]
  BY <1>1
<1>4. \A i, j \in DOMAIN r : NextOf(r, id, i, j) => NextOf(q, id, i + 1, j + 1)
  <2>. SUFFICES ASSUME NEW i \in DOMAIN r, NEW j \in DOMAIN r, NextOf(r, id, i, j)
                PROVE  NextOf(q, id, i + 1, j + 1)
    OBVIOUS
  <2>1. Of(q, id, i + 1) /\ Of(q, id, j + 1) /\ i + 1 < j + 1
    BY <1>1, <1>2 DEF NextOf, Of
  <2>2. ASSUME NEW k \in DOMAIN q, q[k].id = id PROVE k <= i + 1 \/ j + 1 <= k
    <3>1. CASE k = 1
      BY <1>1, <3>1
    <3>2. CASE k # 1
      <4>1. k - 1 \in DOMAIN r /\ r[k - 1].id = id
        BY <1>3, <2>2, <3>2
      <4>2. k - 1 <= i \/ j <= k - 1
        BY <4>1 DEF NextOf
      <4>. QED  BY <1>1, <4>2
    <3>. QED  BY <3>1, <3>2
  <2>. QED  BY <2>1, <2>2 DEF NextOf
<1>5. \A i \in DOMAIN r : LastOf(r, id, i) => LastOf(q, id, i + 1)
  <2>. SUFFICES ASSUME NEW i \in DOMAIN r, LastOf(r, id, i) PROVE LastOf(q, id, i + 1)
    OBVIOUS
  <2>1. Of(q, id, i + 1)
    BY <1>1, <1>2 DEF LastOf, Of
  <2>2. ASSUME NEW k \in DOMAIN q, q[k].id = id PROVE k <= i + 1
    <3>1. CASE k = 1
      BY <1>1, <3>1
    <3>2. CASE k # 1
      <4>1. k - 1 \in DOMAIN r /\ r[k - 1].id = id
        BY <1>3, <2>2, <3>2
      <4>2. k - 1 <= i
        BY <4>1 DEF LastOf
      <4>. QED  BY <1>1, <4>2
    <3>. QED  BY <3>1, <3>2
  <2>. QED  BY <2>1, <2>2 DEF LastOf
<1>6. /\ \A i, j \in DOMAIN r : NextOf(r, id, i, j) => Follows(r[i], r[j])
      /\ \A i \in DOMAIN r : LastOf(r, id, i) => \A x \in X : Follows(r[i], x)
      /\ \A x \in X : Matches(x, m)
      /\ X = {} => \A i \in DOMAIN r : LastOf(r, id, i) => Matches(r[i], m)
  BY <1>2, <1>4, <1>5 DEF Leads
<1>7. CASE id # q[1].id
  <2>1. NoneOf(r, id) = NoneOf(q, id)
    BY <1>2, <1>3, <1>7 DEF NoneOf
  <2>2. \A i \in DOMAIN r : OnlyOf(r, id, i) => OnlyOf(q, id, i + 1)
    BY <1>1, <1>2, <1>3, <1>7 DEF OnlyOf, Of
  <2>3. (\A i \in DOMAIN r : r[i].id = id => r[i].kind = "update")
           => \A i \in DOMAIN q : q[i].id = id => q[i].kind = "update"
    BY <1>3, <1>7
  <2>4. X = {} => \A i \in DOMAIN r : OnlyOf(r, id, i) => Creates(r[i], s)
    BY <1>2, <2>2 DEF Leads
  <2>5. Leads(r, X, id, s, m)
    BY <1>6, <2>1, <2>3, <2>4 DEF Leads
  <2>. QED  BY <1>7, <2>5 DEF r
<1>8. CASE id = q[1].id
  <2>0. Of(q, id, 1) /\ ~NoneOf(q, id) /\ q[1].kind \in Kinds /\ Makes(q[1], s, t)
    BY <1>1, <1>8 DEF Of, NoneOf, Writes
  <2>1. ASSUME NoneOf(r, id) PROVE LastOf(q, id, 1) /\ OnlyOf(q, id, 1)
    BY <1>1, <1>3, <2>0, <2>1 DEF NoneOf, LastOf, OnlyOf
  <2>2. ASSUME X = {}, NoneOf(r, id) PROVE Same(t, m)
    <3>1. Matches(q[1], m) /\ Creates(q[1], s)
      BY <1>1, <2>1, <2>2 DEF Leads
    <3>2. q[1].kind = "update" => s.there
      BY <1>3, <2>0, <2>2 DEF Leads, NoneOf
    <3>. QED  BY <2>0, <3>1, <3>2 DEF Makes, Matches, Creates, Same, Vertices, Kinds
  <2>3. ASSUME X # {} \/ ~NoneOf(r, id),
               \A i \in DOMAIN r : r[i].id = id => r[i].kind = "update",
               \A x \in X : x.kind = "update"
        PROVE  t.there
    <3>1. CASE q[1].kind = "update"
      <4>1. s.there
        BY <1>3, <2>0, <2>3, <3>1 DEF Leads
      <4>. QED  BY <2>0, <3>1, <4>1 DEF Makes, Vertices
    <3>2. CASE q[1].kind = "create"
      BY <2>0, <3>2 DEF Makes, Vertices
    <3>3. CASE q[1].kind = "delete"
      <4>1. CASE NoneOf(r, id)
        <5>1. PICK x \in X : x.kind = "update"
          BY <2>3, <4>1
        <5>2. Follows(q[1], x)
          BY <1>1, <2>1, <4>1 DEF Leads
        <5>. QED  BY <3>3, <5>1, <5>2 DEF Follows
      <4>2. CASE ~NoneOf(r, id)
        <5>1. PICK i \in DOMAIN r : r[i].id = id
          BY <4>2 DEF NoneOf
        <5>2. PICK j \in DOMAIN q : j # 1 /\ NextOf(q, id, 1, j)
          BY <1>2, <2>0, <5>1, FirstAfter
        <5>3. Follows(q[1], q[j]) /\ q[j].id = id
          BY <1>1, <5>2 DEF Leads, NextOf, Of
        <5>4. q[j].kind = "update"
          BY <1>3, <2>3, <5>2, <5>3
        <5>. QED  BY <3>3, <5>3, <5>4 DEF Follows
      <4>. QED  BY <4>1, <4>2
    <3>. QED  BY <2>0, <3>1, <3>2, <3>3 DEF Kinds
  <2>4. ASSUME NEW i \in DOMAIN r, OnlyOf(r, id, i) PROVE Creates(r[i], t)
    <3>1. NextOf(q, id, 1, i + 1)
      <4>1. Of(q, id, i + 1) /\ 1 < i + 1
        BY <1>1, <1>2, <2>4 DEF OnlyOf, Of
      <4>2. ASSUME NEW k \in DOMAIN q, q[k].id = id, k # 1 PROVE i + 1 <= k
        <5>1. k - 1 \in DOMAIN r /\ r[k - 1].id = id
          BY <1>3, <4>2
        <5>2. k - 1 = i
          BY <2>4, <5>1 DEF OnlyOf
        <5>. QED  BY <1>1, <4>2, <5>2
      <4>. QED  BY <1>1, <2>0, <4>1, <4>2 DEF NextOf
    <3>2. Follows(q[1], r[i])
      BY <1>1, <1>2, <3>1 DEF Leads
    <3>. QED  BY <2>0, <3>2 DEF Follows, Makes, Creates, Vertices
  <2>5. ASSUME NoneOf(r, id), NEW x \in X PROVE Creates(x, t)
    <3>1. Follows(q[1], x)
      BY <1>1, <2>1, <2>5 DEF Leads
    <3>. QED  BY <2>0, <3>1 DEF Follows, Makes, Creates, Vertices
  <2>6. Leads(r, X, id, t, m)
    BY <1>6, <2>2, <2>3, <2>4, <2>5 DEF Leads
  <2>. QED  BY <2>6 DEF r
<1>. QED  BY <1>7, <1>8

\* The worker executes the last write of all before those in its queue.
LEMMA LeadsLocal ==
    ASSUME NEW q \in Seq(Writes), NEW x \in Writes, NEW id, x.id = id,
           NEW s \in Vertices, NEW t \in Vertices, NEW m \in Vertices, Leads(q, {}, id, s, m),
           x.kind # "create", Matches(x, m), Makes(x, s, t)
    PROVE  Leads(q, {}, id, t, m)
<1>1. NoneOf(q, id) => Same(t, m)
  BY DEF Leads, Same, Matches, Makes, Vertices, Writes, Kinds
<1>2. ASSUME ~NoneOf(q, id), \A i \in DOMAIN q : q[i].id = id => q[i].kind = "update"
      PROVE  t.there
  <2>1. s.there
    BY <1>2 DEF Leads
  <2>2. PICK i \in DOMAIN q : LastOf(q, id, i)
    BY <1>2, LastExists
  <2>3. m.there
    BY <1>2, <2>2 DEF Leads, LastOf, Of, Matches, Vertices
  <2>. QED  BY <2>1, <2>3 DEF Matches, Makes, Vertices, Writes, Kinds
<1>3. ASSUME NEW i \in DOMAIN q, OnlyOf(q, id, i) PROVE Creates(q[i], t)
  <2>1. Matches(q[i], m)
    <3>1. LastOf(q, id, i)
      BY <1>3, LenProperties DEF OnlyOf, LastOf
    <3>. QED  BY <3>1 DEF Leads
  <2>2. Creates(q[i], s)
    BY <1>3 DEF Leads
  <2>. QED  BY <2>1, <2>2 DEF Matches, Makes, Creates, Vertices, Writes, Kinds
<1>. QED  BY <1>1, <1>2, <1>3 DEF Leads

(***************************************************************************)
(* The order of the contents: no write on its way to a worker is older     *)
(* than one before it, none after the first k is older than n, and none is *)
(* newer than a.                                                           *)
(***************************************************************************)
Rises(q, k, X, id, n, a) ==
    /\ \A i, j \in DOMAIN q : i < j /\ q[i].id = id /\ q[j].id = id => q[i].content <= q[j].content
    /\ \A i \in DOMAIN q : q[i].id = id => /\ i > k => n <= q[i].content
                                           /\ q[i].content <= a
                                           /\ \A x \in X : q[i].content <= x.content
    /\ \A x \in X : n <= x.content /\ x.content <= a
    /\ n <= a

LEMMA ContentsAreNumbers ==
    ASSUME NEW q \in Seq(Writes)
    PROVE  \A i \in DOMAIN q : q[i].content \in Nat
<1>1. \A i \in DOMAIN q : q[i] \in Writes
  BY LenProperties
<1>. QED  BY <1>1 DEF Writes

LEMMA RisesApply ==
    ASSUME NEW q \in Seq(Writes), NEW x \in Writes, NEW id, NEW k, NEW n \in Nat, NEW a \in Nat,
           Rises(q, k, {}, id, n, a), x.content = a + 1
    PROVE  Rises(q, k, {x}, id, n, a + 1)
<1>1. \A i \in DOMAIN q : q[i].content \in Nat
  BY ContentsAreNumbers
<1>. QED  BY <1>1 DEF Rises

LEMMA RisesElsewhere ==
    ASSUME NEW q \in Seq(Writes), NEW X \in SUBSET Writes, NEW id, NEW k, NEW n \in Nat, NEW a \in Nat,
           Rises(q, k, X, id, n, a)
    PROVE  Rises(q, k, X, id, n, a + 1)
<1>1. \A i \in DOMAIN q : q[i].content \in Nat
  BY ContentsAreNumbers
<1>2. \A x \in X : x.content \in Nat
  BY DEF Writes
<1>. QED  BY <1>1, <1>2 DEF Rises

LEMMA RisesEnqueue ==
    ASSUME NEW q \in Seq(Writes), NEW x \in Writes, NEW id, NEW k, NEW X, NEW n \in Nat, NEW a \in Nat,
           Rises(q, k, X, id, n, a), x \in X, NEW Y \in SUBSET X,
           \A y \in Y : x.content <= y.content
    PROVE  Rises(Append(q, x), k, Y, id, n, a)
<1>. DEFINE r == Append(q, x)
            l == Len(q) + 1
<1>1. /\ DOMAIN r = 1..l /\ DOMAIN q = 1..(l - 1) /\ l \in Nat /\ l >= 1
      /\ \A i \in 1..(l - 1) : r[i] = q[i]
      /\ r[l] = x
  BY AppendedWrites
<1>. HIDE DEF r, l
<1>2. \A i \in 1..l : i = l \/ i \in 1..(l - 1)
  BY <1>1
<1>3. \A i, j \in 1..l : i < j => i \in 1..(l - 1)
  BY <1>1
<1>4. Rises(r, k, Y, id, n, a)
  BY <1>1, <1>2, <1>3 DEF Rises
<1>. QED  BY <1>4 DEF r

LEMMA RisesOther ==
    ASSUME NEW q \in Seq(Writes), NEW y \in Writes, NEW id, NEW k, y.id # id, NEW X, NEW n, NEW a,
           Rises(q, k, X, id, n, a)
    PROVE  Rises(Append(q, y), k, X, id, n, a)
<1>. DEFINE r == Append(q, y)
            l == Len(q) + 1
<1>1. /\ DOMAIN r = 1..l /\ DOMAIN q = 1..(l - 1) /\ l \in Nat /\ l >= 1
      /\ \A i \in 1..(l - 1) : r[i] = q[i]
      /\ r[l] = y
  BY AppendedWrites
<1>. HIDE DEF r, l
<1>2. \A i \in DOMAIN r : r[i].id = id => i \in DOMAIN q /\ r[i] = q[i]
  BY <1>1
<1>3. Rises(r, k, X, id, n, a)
  BY <1>2 DEF Rises
<1>. QED  BY <1>3 DEF r

\* The worker executes the write at e, and counts it or not.
LEMMA RisesExecute ==
    ASSUME NEW q \in Seq(Writes), NEW e \in DOMAIN q, NEW id, NEW X, NEW n \in Nat, NEW m,
           NEW a \in Nat, NEW k \in Nat, NEW h \in Nat, k <= h, e <= h + 1,
           Rises(q, k, X, id, n, a), m = n \/ (id = q[e].id /\ m = q[e].content)
    PROVE  Rises(q, h, X, id, m, a)
<1>1. DOMAIN q = 1..Len(q) /\ Len(q) \in Nat /\ q[e] \in Writes
  BY LenProperties
<1>2. CASE m = n
  BY <1>1, <1>2 DEF Rises
<1>3. CASE id = q[e].id /\ m = q[e].content
  <2>1. m \in Nat /\ m <= a /\ \A x \in X : m <= x.content
    BY <1>1, <1>3 DEF Rises, Writes
  <2>2. ASSUME NEW i \in DOMAIN q, q[i].id = id, i > h PROVE m <= q[i].content
    <3>1. i = e \/ e < i
      BY <1>1, <2>2
    <3>. QED  BY <1>3, <2>1, <2>2, <3>1 DEF Rises
  <2>. QED  BY <2>1, <2>2 DEF Rises
<1>. QED  BY <1>2, <1>3

\* The first file is deleted.
LEMMA RisesRest ==
    ASSUME NEW f \in Seq(Writes), NEW q \in Seq(Writes), NEW id, NEW X, NEW n, NEW a,
           NEW k \in Nat, Rises(f \o q, Len(f) + k, X, id, n, a)
    PROVE  Rises(q, k, X, id, n, a)
<1>1. /\ DOMAIN q = 1..Len(q) /\ Len(q) \in Nat /\ Len(f) \in Nat
      /\ \A i \in DOMAIN q : Len(f) + i \in DOMAIN (f \o q) /\ (f \o q)[Len(f) + i] = q[i]
  BY JoinedWrites
<1>2. \A i, j \in DOMAIN q : i < j => Len(f) + i < Len(f) + j
  BY <1>1
<1>3. \A i \in DOMAIN q : i > k => Len(f) + i > Len(f) + k
  BY <1>1
<1>. QED  BY <1>1, <1>2, <1>3 DEF Rises

-----------------------------------------------------------------------------
(***************************************************************************)
(* The inductive invariant of convergence.                                 *)
(***************************************************************************)
\* Request c holds a write to a vertex that is not yet in the queue to w.
Waits(c, w, id) ==
    /\ req[c].write.id = id
    /\ \/ req[c].phase = "applied"
       \/ req[c].phase = "enqueue" /\ w \in Range(req[c].targets)

Waiting(w, id) == {req[c].write : c \in {d \in Clients : Waits(d, w, id)}}

GraphTypes ==
    /\ store \in [Nodes -> Graphs] /\ queue \in [Workers -> Seq(Writes)]
    /\ kept \in [Workers -> Seq(Writes)] /\ again \in [Workers -> Nat]

\* Each worker is known once, and a target once.
ListedOnce == IsInjective(known) /\ \A c \in Clients : IsInjective(req[c].targets)

LocalsChange ==
    \A c \in Clients : req[c].phase = "local" => req[c].write.kind # "create" /\ AtWorker(c)

\* One write of a vertex is under way at a time, and it is the last one.
Alone ==
    \A id \in Ids \ raced : \A c, d \in Clients : UnderWay(c, id) /\ UnderWay(d, id) => c = d

Current ==
    \A id \in Ids \ raced : \A c \in Clients :
        UnderWay(c, id) => Matches(req[c].write, store[Master][id])

\* What a restart now would queue for worker w, and how much of it was
\* delivered and counted already.
Every(w) == kept[w] \o queue[w]
Old(w) == Len(kept[w]) + again[w]

\* What is under way to a worker makes it store what the master stores, and
\* so does what would be after a restart.
Tracked ==
    \A w \in Workers \ missed, id \in Ids \ raced : \A q \in {queue[w], Every(w)} :
        Leads(q, Waiting(w, id), id, store[w][id], store[Master][id])

\* What a worker without clients has seen of a vertex.
Seen(w, id) == IF w \in Range(Home) THEN 0 ELSE store[w][id].content

Ordered ==
    \A w \in Workers, id \in Ids \ raced :
        Rises(Every(w), Old(w), Waiting(w, id), id, Seen(w, id), applied)

BaseInv == IInv /\ GraphTypes /\ ListedOnce /\ LocalsChange
JInv == BaseInv /\ Alone /\ Current /\ Tracked /\ Ordered

LEMMA BaseFacts ==
    ASSUME BaseInv
    PROVE  /\ req \in [Clients -> Requests] /\ applied \in Nat /\ known \in Seq(Workers)
           /\ \A c \in Clients : /\ req[c].write \in Writes /\ req[c].targets \in Seq(Workers)
                                 /\ req[c].phase \in Phases
           /\ \A n \in Nodes : store[n] \in Graphs /\ \A id \in Ids : store[n][id] \in Vertices
           /\ \A w \in Workers : queue[w] \in Seq(Writes) /\ w \in Nodes /\ w # Master
           /\ \A w \in Workers : kept[w] \in Seq(Writes) /\ Every(w) \in Seq(Writes) /\ Old(w) \in Nat
           /\ Master \in Nodes
<1>1. req \in [Clients -> Requests] /\ applied \in Nat /\ known \in Seq(Workers)
  BY DEF BaseInv, IInv, Shapes
<1>2. \A c \in Clients : /\ req[c].write \in Writes /\ req[c].targets \in Seq(Workers)
                         /\ req[c].phase \in Phases
  BY <1>1 DEF Requests
<1>3. \A n \in Nodes : store[n] \in Graphs
  BY DEF BaseInv, GraphTypes
<1>4. \A n \in Nodes, id \in Ids : store[n][id] \in Vertices
  BY <1>3 DEF Graphs
<1>5. \A w \in Workers : queue[w] \in Seq(Writes) /\ w \in Nodes /\ w # Master
  BY ClusterWritesAssumption DEF BaseInv, GraphTypes, Nodes
<1>6. \A w \in Workers : kept[w] \in Seq(Writes) /\ again[w] \in Nat
  BY DEF BaseInv, GraphTypes
<1>7. \A w \in Workers : Every(w) \in Seq(Writes) /\ Old(w) \in Nat
  BY <1>5, <1>6, JoinedWrites DEF Every, Old
<1>. QED  BY <1>1, <1>2, <1>3, <1>4, <1>5, <1>6, <1>7 DEF Nodes

LEMMA InitJInv == Init => JInv
<1>. SUFFICES ASSUME Init PROVE JInv
  OBVIOUS
<1>1. IInv
  BY InitIInv
<1>2. Nothing \in Vertices
  BY DEF Nothing, Vertices
<1>3. <<>> \in Seq(Writes)
  OBVIOUS
<1>4. \A n \in Nodes : store[n] = [id \in Ids |-> Nothing]
  BY DEF Init
<1>5. GraphTypes
  BY <1>2, <1>3 DEF Init, GraphTypes, Graphs
<1>6. IsInjective(<<>>)
  BY DEF IsInjective
<1>7. \A c \in Clients : req[c] = Idle
  BY DEF Init
<1>8. ListedOnce /\ LocalsChange
  BY <1>6, <1>7 DEF Init, ListedOnce, LocalsChange, Idle
<1>9. Alone /\ Current
  BY <1>7 DEF Alone, Current, UnderWay, Idle
<1>10. \A w, id : Waiting(w, id) = {}
  BY <1>7 DEF Waiting, Waits, Idle
<1>11. \A w \in Workers : queue[w] = <<>> /\ kept[w] = <<>> /\ again[w] = 0 /\ w \in Nodes
  BY DEF Init, Nodes
<1>16. \A w \in Workers : Every(w) = <<>>
  BY <1>3, <1>11, ConcatEmptySeq DEF Every
<1>12. Master \in Nodes
  BY DEF Nodes
<1>13. DOMAIN <<>> = {}
  OBVIOUS
<1>14. Tracked
  <2>1. \A id \in Ids : Leads(<<>>, {}, id, Nothing, Nothing)
    BY <1>13 DEF Leads, NoneOf, Same, Nothing
  <2>. QED  BY <1>4, <1>10, <1>11, <1>12, <1>16, <2>1 DEF Tracked
<1>15. Ordered
  <2>1. \A id, k : Rises(<<>>, k, {}, id, 0, 0)
    BY <1>13 DEF Rises
  <2>2. \A w \in Workers, id \in Ids : Seen(w, id) = 0
    BY <1>4, <1>11 DEF Seen, Nothing
  <2>3. applied = 0
    BY DEF Init
  <2>. QED  BY <1>10, <1>11, <1>16, <2>1, <2>2, <2>3 DEF Ordered
<1>. QED  BY <1>1, <1>5, <1>8, <1>9, <1>14, <1>15 DEF JInv, BaseInv

(***************************************************************************)
(* The steps: types, lists and local applications.                         *)
(***************************************************************************)
LEMMA NumberedWrites ==
    ASSUME BaseInv, NEW c \in Clients, Numbered(c).id \in Ids
    PROVE  Numbered(c) \in Writes
<1>1. req[c].write \in Writes /\ applied \in Nat
  BY BaseFacts
<1>2. Numbered(c).id \in Nat
  BY ClusterWritesAssumption DEF Ids
<1>. QED  BY <1>1, <1>2 DEF Numbered, Writes

LEMMA NextGraphTypes == BaseInv /\ [Next]_vars => GraphTypes'
<1>. SUFFICES ASSUME BaseInv, [Next]_vars PROVE GraphTypes'
  OBVIOUS
<1>0. /\ store \in [Nodes -> Graphs] /\ queue \in [Workers -> Seq(Writes)]
      /\ kept \in [Workers -> Seq(Writes)] /\ again \in [Workers -> Nat]
  BY DEF BaseInv, GraphTypes
<1>1. CASE UNCHANGED <<store, queueVars>>
  BY <1>0, <1>1 DEF GraphTypes, queueVars
<1>2. ASSUME NEW c \in Clients, Apply(c) PROVE GraphTypes'
  <2>1. Numbered(c) \in Writes
    BY <1>2, NumberedWrites DEF Apply
  <2>2. Effect(store[Master], Numbered(c)) \in Graphs
    BY <2>1, BaseFacts, EffectMakes
  <2>3. store' = [store EXCEPT ![Master] = Effect(@, Numbered(c))] /\ UNCHANGED queueVars
    BY <1>2 DEF Apply
  <2>. QED  BY <1>0, <2>2, <2>3 DEF GraphTypes, queueVars
<1>3. ASSUME NEW c \in Clients, ApplyLocally(c) PROVE GraphTypes'
  <2>1. Home[c] \in Nodes
    BY ClusterWritesAssumption
  <2>2. Effect(store[Home[c]], req[c].write) \in Graphs
    BY <2>1, BaseFacts, EffectMakes
  <2>. QED  BY <1>0, <1>3, <2>2 DEF GraphTypes, ApplyLocally, queueVars
<1>4. ASSUME NEW c \in Clients, Enqueue(c) PROVE GraphTypes'
  <2>. DEFINE w == Head(req[c].targets)
  <2>1. w \in Workers
    BY <1>4, BaseFacts, HeadTailProperties DEF Enqueue
  <2>2. Append(queue[w], req[c].write) \in Seq(Writes)
    BY <2>1, BaseFacts, AppendedWrites
  <2>3. queue' = [queue EXCEPT ![w] = Append(@, req[c].write)] /\ UNCHANGED <<store, kept, again>>
    BY <1>4 DEF Enqueue
  <2>. HIDE DEF w
  <2>. QED  BY <1>0, <2>1, <2>2, <2>3 DEF GraphTypes
<1>5. ASSUME NEW w \in Workers, Deliver(w) \/ DeliverUnanswered(w) \/ DeliverRefused(w)
      PROVE  GraphTypes'
  <2>1. queue[w] \in Seq(Writes) /\ queue[w] # <<>>
    BY <1>5, BaseFacts DEF Deliver, DeliverUnanswered, DeliverRefused, Pending
  <2>2. Head(queue[w]) \in Writes /\ Tail(queue[w]) \in Seq(Writes)
    BY <2>1, TailWrites
  <2>3. Effect(store[w], Head(queue[w])) \in Graphs
    BY <2>2, BaseFacts, EffectMakes
  <2>4. store' \in [Nodes -> Graphs]
    BY <1>0, <1>5, <2>3 DEF Deliver, DeliverUnanswered, DeliverRefused
  <2>5. queue' \in [Workers -> Seq(Writes)]
    BY <1>0, <1>5, <2>2 DEF Deliver, DeliverUnanswered, DeliverRefused, Counted, queueVars
  <2>6. kept' \in [Workers -> Seq(Writes)]
    <3>1. kept' = kept \/ kept' = [kept EXCEPT ![w] = Append(@, Head(queue[w]))]
      BY <1>5 DEF Deliver, DeliverUnanswered, DeliverRefused, Counted, queueVars
    <3>2. Append(kept[w], Head(queue[w])) \in Seq(Writes)
      BY <1>0, <2>2, AppendProperties
    <3>. QED  BY <1>0, <3>1, <3>2
  <2>7. again' \in [Workers -> Nat]
    <3>1. again' = again \/ again' = [again EXCEPT ![w] = IF @ = 0 THEN 0 ELSE @ - 1]
      BY <1>5 DEF Deliver, DeliverUnanswered, DeliverRefused, Counted, queueVars
    <3>2. (IF again[w] = 0 THEN 0 ELSE again[w] - 1) \in Nat
      BY <1>0
    <3>. QED  BY <1>0, <3>1, <3>2
  <2>. QED  BY <2>4, <2>5, <2>6, <2>7 DEF GraphTypes
<1>6. ASSUME NEW w \in Workers, RemoveFile(w) PROVE GraphTypes'
  <2>1. <<>> \in Seq(Writes)
    OBVIOUS
  <2>. QED  BY <1>0, <1>6, <2>1 DEF RemoveFile, GraphTypes
<1>7. CASE Crash
  <2>1. \A w \in Workers : /\ kept[w] \o queue[w] \in Seq(Writes)
                           /\ Len(kept[w]) + again[w] \in Nat
    BY BaseFacts DEF Every, Old
  <2>2. <<>> \in Seq(Writes)
    OBVIOUS
  <2>. QED  BY <1>0, <1>7, <2>1, <2>2 DEF Crash, GraphTypes
<1>. QED
  BY <1>1, <1>2, <1>3, <1>4, <1>5, <1>6, <1>7 DEF Next, queueVars, vars, Handle, Startup, Request, ForwardFails,
     ReplyLost, ApplyFails, Broadcast, Reply, Heartbeat, Expire, SetMasterInfo, LoadKnown

LEMMA TailInjective ==
    ASSUME NEW t \in Seq(Workers), t # <<>>, IsInjective(t)
    PROVE  IsInjective(Tail(t)) /\ Head(t) \in Workers
           /\ Range(Tail(t)) = Range(t) \ {Head(t)} /\ Head(t) \in Range(t)
<1>. DEFINE r == Tail(t)
            n == Len(t)
<1>1. /\ DOMAIN t = 1..n /\ DOMAIN r = 1..(n - 1) /\ n \in Nat /\ n >= 1
      /\ \A i \in 1..(n - 1) : r[i] = t[i + 1]
      /\ Head(t) = t[1] /\ Head(t) \in Workers
  BY HeadTailProperties, LenProperties, EmptySeq
<1>. HIDE DEF r, n
<1>2. \A i \in 1..(n - 1) : i + 1 \in 1..n /\ i + 1 # 1
  BY <1>1
<1>3. \A i \in 1..n : i # 1 => i - 1 \in 1..(n - 1) /\ t[i] = r[i - 1]
  BY <1>1
<1>4. \A i, j \in 1..(n - 1) : i + 1 = j + 1 => i = j
  OBVIOUS
<1>5. IsInjective(r)
  <2>. SUFFICES ASSUME NEW i \in 1..(n - 1), NEW j \in 1..(n - 1), r[i] = r[j] PROVE i = j
    BY <1>1 DEF IsInjective
  <2>1. t[i + 1] = t[j + 1] /\ i + 1 \in DOMAIN t /\ j + 1 \in DOMAIN t
    BY <1>1, <1>2
  <2>2. i + 1 = j + 1
    BY <2>1 DEF IsInjective
  <2>. QED  BY <1>4, <2>2
<1>6. Range(r) = Range(t) \ {t[1]}
  <2>1. \A i \in 1..(n - 1) : r[i] \in Range(t) /\ r[i] # t[1]
    <3>1. \A i \in 1..(n - 1) : t[i + 1] \in Range(t)
      BY <1>1, <1>2 DEF Range
    <3>2. 1 \in 1..n /\ \A i \in 1..(n - 1) : t[i + 1] # t[1]
      BY <1>1, <1>2 DEF IsInjective
    <3>. QED  BY <1>1, <3>1, <3>2
  <2>2. \A i \in 1..n : t[i] # t[1] => t[i] \in Range(r)
    BY <1>1, <1>3 DEF Range
  <2>3. ASSUME NEW v \in Range(r) PROVE v \in Range(t) \ {t[1]}
    <3>1. PICK i \in 1..(n - 1) : v = r[i]
      BY <1>1 DEF Range
    <3>. QED  BY <2>1, <3>1
  <2>4. ASSUME NEW v \in Range(t) \ {t[1]} PROVE v \in Range(r)
    <3>1. PICK i \in 1..n : v = t[i]
      BY <1>1 DEF Range
    <3>. QED  BY <2>2, <3>1
  <2>. QED  BY <2>3, <2>4
<1>7. t[1] \in Range(t)
  BY <1>1 DEF Range
<1>. QED  BY <1>1, <1>5, <1>6, <1>7 DEF r

LEMMA RegisteredOnce ==
    ASSUME NEW w \in Workers, known \in Seq(Workers), IsInjective(known)
    PROVE  IsInjective(Registered(w))
<1>1. CASE w \in Range(known)
  BY <1>1 DEF Registered
<1>2. CASE w \notin Range(known)
  <2>. DEFINE r == Append(known, w)
              n == Len(known)
  <2>1. /\ DOMAIN r = 1..(n + 1) /\ DOMAIN known = 1..n /\ n \in Nat
        /\ \A i \in 1..n : r[i] = known[i]
        /\ r[n + 1] = w
    BY AppendProperties, LenProperties
  <2>2. Registered(w) = r
    BY <1>2 DEF Registered
  <2>. HIDE DEF r, n
  <2>3. \A i \in 1..n : r[i] # w
    BY <1>2, <2>1 DEF Range
  <2>4. \A i \in 1..(n + 1) : i = n + 1 \/ i \in 1..n
    BY <2>1
  <2>5. IsInjective(r)
    BY <2>1, <2>3, <2>4 DEF IsInjective
  <2>. QED  BY <2>2, <2>5
<1>. QED  BY <1>1, <1>2

LEMMA NextListedOnce == BaseInv /\ [Next]_vars => ListedOnce'
<1>. SUFFICES ASSUME BaseInv, [Next]_vars PROVE ListedOnce'
  OBVIOUS
<1>. USE DEF ListedOnce
<1>0. /\ req \in [Clients -> Requests] /\ known \in Seq(Workers) /\ IsInjective(known)
      /\ \A c \in Clients : IsInjective(req[c].targets)
  BY BaseFacts DEF BaseInv
<1>1. IsInjective(<<>>) /\ Idle.targets = <<>>
  BY DEF IsInjective, Idle
<1>2. IsInjective(known')
  <2>1. CASE known' = known
    BY <1>0, <2>1
  <2>2. ASSUME NEW w \in Workers, Heartbeat(w) PROVE IsInjective(known')
    BY <1>0, <2>2, RegisteredOnce DEF Heartbeat
  <2>3. CASE LoadKnown
    BY <2>3 DEF LoadKnown, SetToSeqs, IsInjective
  <2>4. CASE Crash
    BY <1>1, <2>4 DEF Crash
  <2>. QED
    BY <2>1, <2>2, <2>3, <2>4 DEF Next, vars, registryVars, Handle, Startup, Request, ForwardFails,
       ReplyLost, Apply, ApplyFails, Broadcast, Enqueue, Reply, ApplyLocally, Deliver,
       DeliverUnanswered, DeliverRefused, RemoveFile, Expire, SetMasterInfo
<1>3. \A c \in Clients : IsInjective(req'[c].targets)
  <2>1. CASE req' = req
    BY <1>0, <2>1
  <2>2. CASE Crash
    BY <1>0, <1>1, <2>2 DEF Crash
  <2>3. ASSUME NEW c \in Clients, NEW kind \in Kinds, NEW id \in Ids, Request(c, kind, id)
        PROVE  \A d \in Clients : IsInjective(req'[d].targets)
    BY <1>0, <1>1, <2>3 DEF Request
  <2>4. ASSUME NEW c \in Clients, ForwardFails(c) \/ ReplyLost(c) \/ ApplyFails(c) \/ ApplyLocally(c)
        PROVE  \A d \in Clients : IsInjective(req'[d].targets)
    BY <1>0, <1>1, <2>4 DEF ForwardFails, ReplyLost, ApplyFails, ApplyLocally, Return
  <2>5. ASSUME NEW c \in Clients, Apply(c) \/ Reply(c)
        PROVE  \A d \in Clients : IsInjective(req'[d].targets)
    <3>1. \/ \E x : req' = [req EXCEPT ![c].phase = "applied", ![c].write = x]
          \/ req' = [req EXCEPT ![c].phase = "local"] \/ req' = [req EXCEPT ![c] = Idle]
      BY <2>5 DEF Apply, Reply, Goto, Return
    <3>2. \A d \in Clients : req'[d].targets = req[d].targets \/ req'[d].targets = <<>>
      <4>1. ASSUME NEW x, req' = [req EXCEPT ![c].phase = "applied", ![c].write = x]
            PROVE  \A d \in Clients : req'[d].targets = req[d].targets
        BY <1>0, <4>1 DEF Requests
      <4>2. CASE req' = [req EXCEPT ![c].phase = "local"]
        BY <1>0, <4>2 DEF Requests
      <4>3. CASE req' = [req EXCEPT ![c] = Idle]
        BY <1>0, <1>1, <4>3
      <4>. QED  BY <3>1, <4>1, <4>2, <4>3
    <3>. QED  BY <1>0, <1>1, <3>2
  <2>6. ASSUME NEW c \in Clients, Broadcast(c)
        PROVE  \A d \in Clients : IsInjective(req'[d].targets)
    BY <1>0, <2>6 DEF Broadcast, Requests
  <2>7. ASSUME NEW c \in Clients, Enqueue(c)
        PROVE  \A d \in Clients : IsInjective(req'[d].targets)
    <3>1. IsInjective(Tail(req[c].targets))
      BY <1>0, <2>7, BaseFacts, TailInjective DEF Enqueue
    <3>2. req' = [req EXCEPT ![c].targets = Tail(@)]
      BY <2>7 DEF Enqueue
    <3>3. \A d \in Clients : req'[d].targets = IF d = c THEN Tail(req[c].targets) ELSE req[d].targets
      BY <1>0, <3>2 DEF Requests
    <3>. QED  BY <1>0, <3>1, <3>3
  <2>. QED
    BY <2>1, <2>2, <2>3, <2>4, <2>5, <2>6, <2>7 DEF Next, vars, Handle, Startup, Deliver,
       DeliverUnanswered, DeliverRefused, RemoveFile, Heartbeat, Expire, SetMasterInfo, LoadKnown
<1>. QED  BY <1>2, <1>3

LEMMA NextLocalsChange == BaseInv /\ [Next]_vars => LocalsChange'
<1>. SUFFICES ASSUME BaseInv, [Next]_vars PROVE LocalsChange'
  OBVIOUS
<1>. USE DEF LocalsChange
<1>0. /\ req \in [Clients -> Requests]
      /\ \A c \in Clients : req[c].phase = "local" => req[c].write.kind # "create" /\ AtWorker(c)
      /\ \A c \in Clients : AtWorker(c)' = AtWorker(c)
  BY BaseFacts DEF BaseInv, AtWorker
<1>1. Idle.phase = "idle"
  BY DEF Idle
<1>2. CASE req' = req
  BY <1>0, <1>2
<1>3. CASE Crash
  BY <1>0, <1>1, <1>3 DEF Crash
<1>4. ASSUME NEW c \in Clients, NEW kind \in Kinds, NEW id \in Ids, Request(c, kind, id)
      PROVE  LocalsChange'
  BY <1>0, <1>4 DEF Request
<1>5. ASSUME NEW c \in Clients, ForwardFails(c) \/ ReplyLost(c) \/ ApplyFails(c) \/ ApplyLocally(c)
      PROVE  LocalsChange'
  BY <1>0, <1>1, <1>5 DEF ForwardFails, ReplyLost, ApplyFails, ApplyLocally, Return
<1>6. ASSUME NEW c \in Clients, Reply(c) PROVE LocalsChange'
  BY <1>0, <1>1, <1>6 DEF Reply, Goto, Return, Requests
<1>7. ASSUME NEW c \in Clients, Apply(c) \/ Broadcast(c) \/ Enqueue(c) PROVE LocalsChange'
  <2>1. \A d \in Clients : req'[d].phase = "local" => d # c /\ req'[d] = req[d]
    BY <1>0, <1>7 DEF Apply, Broadcast, Enqueue, Requests
  <2>. QED  BY <1>0, <2>1
<1>. QED
  BY <1>2, <1>3, <1>4, <1>5, <1>6, <1>7 DEF Next, vars, Handle, Startup, Deliver,
     DeliverUnanswered, DeliverRefused, RemoveFile, Heartbeat, Expire, SetMasterInfo, LoadKnown

LEMMA NextBaseInv == BaseInv /\ [Next]_vars => BaseInv'
BY NextIInv, NextGraphTypes, NextListedOnce, NextLocalsChange DEF BaseInv

(***************************************************************************)
(* The steps: what is under way.                                           *)
(***************************************************************************)
WayInv == Alone /\ Current /\ Tracked /\ Ordered

LEMMA OneMoves ==
    ASSUME NEW c \in Clients, \A d \in Clients \ {c} : req'[d] = req[d], NEW w, NEW id,
           Waits(c, w, id)' => Waits(c, w, id) /\ req'[c].write = req[c].write
    PROVE  /\ Waiting(w, id)' \subseteq Waiting(w, id)
           /\ (Waits(c, w, id) => Waits(c, w, id)') => Waiting(w, id)' = Waiting(w, id)
<1>1. \A d \in Clients \ {c} : Waits(d, w, id)' = Waits(d, w, id)
  BY DEF Waits
<1>. QED  BY <1>1 DEF Waiting

\* A write that waits is under way; only one is, unless the vertex is raced.
LEMMA WaitingAlone ==
    ASSUME BaseInv, Alone, NEW c \in Clients, NEW id \in Ids \ raced, UnderWay(c, id), NEW w
    PROVE  Waiting(w, id) = IF Waits(c, w, id) THEN {req[c].write} ELSE {}
<1>1. \A d \in Clients : Waits(d, w, id) => UnderWay(d, id)
  BY DEF Waits, UnderWay
<1>2. \A d \in Clients : Waits(d, w, id) => d = c
  BY <1>1 DEF Alone
<1>. QED  BY <1>2 DEF Waiting

LEMMA WaitingWrites ==
    ASSUME BaseInv, NEW w, NEW id
    PROVE  Waiting(w, id) \in SUBSET Writes
BY BaseFacts DEF Waiting

\* Nothing is written or queued but what a restart brings back; some requests
\* may end.
LEMMA Settles ==
    ASSUME WayInv, UNCHANGED <<store, applied, raced>>, missed \subseteq missed',
           \A w \in Workers : /\ queue'[w] \in {queue[w], Every(w)}
                              /\ Every(w)' = Every(w) /\ Old(w)' = Old(w),
           \A w \in Workers, id \in Ids : Waiting(w, id)' \subseteq Waiting(w, id),
           \A w \in Workers \ missed', id \in Ids : Waiting(w, id)' = Waiting(w, id),
           \A c \in Clients, id \in Ids :
               UnderWay(c, id)' => UnderWay(c, id) /\ req'[c].write = req[c].write
    PROVE  WayInv'
<1>1. Alone'
  BY DEF WayInv, Alone
<1>2. Current'
  BY DEF WayInv, Current
<1>3. Tracked'
  <2>. SUFFICES ASSUME NEW w \in Workers \ missed', NEW id \in Ids \ raced,
                       NEW q \in {queue[w], Every(w)}
                PROVE  Leads(q, Waiting(w, id), id, store[w][id], store[Master][id])
    BY DEF Tracked
  <2>. QED  BY DEF WayInv, Tracked
<1>4. Ordered'
  <2>1. \A w \in Workers, id \in Ids : Seen(w, id)' = Seen(w, id)
    BY DEF Seen
  <2>2. \A q, k, X, Y, id, n, a : Y \subseteq X /\ Rises(q, k, X, id, n, a) => Rises(q, k, Y, id, n, a)
    BY DEF Rises
  <2>. QED  BY <2>1, <2>2 DEF WayInv, Ordered
<1>. QED  BY <1>1, <1>2, <1>3, <1>4 DEF WayInv

LEMMA RequestSettles ==
    ASSUME BaseInv, WayInv, NEW c \in Clients,
           UNCHANGED <<store, queueVars, applied, raced, missed>>,
           \A d \in Clients \ {c} : req'[d] = req[d],
           req'[c].phase \in {"idle", "sent", "local"},
           req'[c].phase = "local" => req[c].phase = "enqueue" /\ req'[c].write = req[c].write,
           req[c].phase = "applied" => FALSE,
           req[c].phase = "enqueue" => req[c].targets = <<>>
    PROVE  WayInv'
<1>1. \A w : w \notin Range(<<>>)
  BY DEF Range
<1>2. \A w, id : ~Waits(c, w, id) /\ ~Waits(c, w, id)'
  BY <1>1 DEF Waits
<1>3. \A w, id : Waiting(w, id)' = Waiting(w, id)
  BY <1>2, OneMoves
<1>4. \A d \in Clients, id \in Ids :
          UnderWay(d, id)' => UnderWay(d, id) /\ req'[d].write = req[d].write
  BY DEF UnderWay
<1>5. \A w \in Workers : queue'[w] = queue[w] /\ Every(w)' = Every(w) /\ Old(w)' = Old(w)
  BY DEF Every, Old, queueVars
<1>. QED  BY <1>3, <1>4, <1>5, Settles

LEMMA QuietSteps ==
    ASSUME BaseInv, WayInv, NEW c \in Clients,
           \/ \E kind \in Kinds, id \in Ids : Request(c, kind, id)
           \/ ForwardFails(c) \/ ApplyFails(c) \/ Reply(c) \/ ReplyLost(c)
    PROVE  WayInv'
<1>0. req \in [Clients -> Requests] /\ Idle.phase = "idle"
  BY BaseFacts DEF Idle
<1>1. ASSUME NEW kind \in Kinds, NEW id \in Ids, Request(c, kind, id) PROVE WayInv'
  <2>1. req'[c].phase = "sent" /\ \A d \in Clients \ {c} : req'[d] = req[d]
    BY <1>0, <1>1 DEF Request
  <2>. QED  BY <1>1, <2>1, RequestSettles DEF Request
<1>2. CASE ForwardFails(c) \/ ApplyFails(c)
  <2>1. req'[c].phase = "idle" /\ \A d \in Clients \ {c} : req'[d] = req[d]
    BY <1>0, <1>2 DEF ForwardFails, ApplyFails, Return
  <2>. QED  BY <1>2, <2>1, RequestSettles DEF ForwardFails, ApplyFails
<1>3. CASE Reply(c) \/ ReplyLost(c)
  <2>1. \/ req'[c].phase = "idle"
        \/ req'[c].phase = "local" /\ req'[c].write = req[c].write
    BY <1>0, <1>3 DEF Reply, ReplyLost, Goto, Return, Requests
  <2>2. \A d \in Clients \ {c} : req'[d] = req[d]
    BY <1>0, <1>3 DEF Reply, ReplyLost, Goto, Return
  <2>. QED  BY <1>3, <2>1, <2>2, RequestSettles DEF Reply, ReplyLost, Answered
<1>. QED  BY <1>1, <1>2, <1>3

LEMMA BroadcastStep ==
    ASSUME BaseInv, WayInv, NEW c \in Clients, Broadcast(c)
    PROVE  WayInv'
<1>0. req \in [Clients -> Requests]
  BY BaseFacts
<1>1. /\ req'[c].phase = "enqueue" /\ req'[c].targets = known /\ req'[c].write = req[c].write
      /\ \A d \in Clients \ {c} : req'[d] = req[d]
  BY <1>0 DEF Broadcast, Requests
<1>2. missed' = missed \cup (Workers \ Range(known)) /\ req[c].phase = "applied"
  BY DEF Broadcast
<1>3. \A w, id : Waits(c, w, id)' => Waits(c, w, id)
  BY <1>1, <1>2 DEF Waits
<1>4. \A w \in Workers \ missed' : \A id : Waits(c, w, id) => Waits(c, w, id)'
  BY <1>1, <1>2 DEF Waits
<1>5. /\ \A w, id : Waiting(w, id)' \subseteq Waiting(w, id)
      /\ \A w \in Workers \ missed' : \A id : Waiting(w, id)' = Waiting(w, id)
  BY <1>1, <1>3, <1>4, OneMoves
<1>6. \A d \in Clients, id \in Ids :
          UnderWay(d, id)' => UnderWay(d, id) /\ req'[d].write = req[d].write
  BY <1>1, <1>2 DEF UnderWay
<1>7. UNCHANGED <<store, applied, raced>>
  BY DEF Broadcast
<1>8. \A w \in Workers : queue'[w] = queue[w] /\ Every(w)' = Every(w) /\ Old(w)' = Old(w)
  BY DEF Broadcast, Every, Old, queueVars
<1>. QED  BY <1>2, <1>5, <1>6, <1>7, <1>8, Settles

LEMMA CrashStep ==
    ASSUME BaseInv, WayInv, Crash
    PROVE  WayInv'
<1>1. \A c \in Clients : req'[c] = IF AtMaster(c) THEN Idle ELSE req[c]
  BY DEF Crash
<1>2. \A w, id : Waiting(w, id)' = {}
  BY <1>1 DEF Waiting, Waits, AtMaster, Idle
<1>3. missed' = missed \cup {w \in Workers : Cut(w)}
  BY DEF Crash
<1>4. \A w \in Workers \ missed', id \in Ids : Waiting(w, id) = {}
  BY <1>3 DEF Cut, Waiting, Waits
<1>5. \A d \in Clients, id \in Ids :
          UnderWay(d, id)' => UnderWay(d, id) /\ req'[d].write = req[d].write
  BY <1>1 DEF UnderWay, AtMaster, Idle
<1>6. UNCHANGED <<store, applied, raced>>
  BY DEF Crash
<1>7. ASSUME NEW w \in Workers
      PROVE  queue'[w] = Every(w) /\ Every(w)' = Every(w) /\ Old(w)' = Old(w)
  <2>1. queue'[w] = Every(w) /\ kept'[w] = <<>> /\ again'[w] = Old(w)
    BY DEF Crash, Every, Old
  <2>2. Every(w) \in Seq(Writes) /\ Old(w) \in Nat /\ Len(<<>>) = 0
    BY BaseFacts
  <2>3. Every(w)' = <<>> \o Every(w) /\ Old(w)' = Len(<<>>) + Old(w)
    BY <2>1 DEF Every, Old
  <2>. QED  BY <2>1, <2>2, <2>3, ConcatEmptySeq
<1>. QED  BY <1>2, <1>3, <1>4, <1>5, <1>6, <1>7, Settles

LEMMA RegistrySteps ==
    ASSUME BaseInv, WayInv, UNCHANGED <<store, req, queueVars, applied, raced, missed>>
    PROVE  WayInv'
<1>1. \A w, id : Waiting(w, id)' = Waiting(w, id)
  BY DEF Waiting, Waits
<1>2. \A c \in Clients, id \in Ids :
          UnderWay(c, id)' => UnderWay(c, id) /\ req'[c].write = req[c].write
  BY DEF UnderWay
<1>3. \A w \in Workers : queue'[w] = queue[w] /\ Every(w)' = Every(w) /\ Old(w)' = Old(w)
  BY DEF Every, Old, queueVars
<1>. QED  BY <1>1, <1>2, <1>3, Settles

LEMMA SeenIsNumber ==
    ASSUME BaseInv, NEW w \in Workers, NEW id \in Ids
    PROVE  Seen(w, id) \in Nat
BY BaseFacts DEF Seen, Vertices

LEMMA ApplyStep ==
    ASSUME BaseInv, BaseInv', WayInv, NEW c \in Clients, Apply(c)
    PROVE  WayInv'
<1>a. PICK x : x = Numbered(c)
  OBVIOUS
<1>b. PICK new : new = x.id
  OBVIOUS
<1>0. /\ req \in [Clients -> Requests] /\ applied \in Nat
      /\ req[c].phase = "sent" /\ x \in Writes /\ new \in Ids /\ x.content = applied + 1
  BY <1>a, <1>b, BaseFacts, NumberedWrites DEF Apply, Numbered
<1>1. /\ store' = [store EXCEPT ![Master] = Effect(@, x)] /\ UNCHANGED queueVars
      /\ req' = [req EXCEPT ![c].phase = "applied", ![c].write = x]
      /\ applied' = applied + 1 /\ missed' = missed
      /\ raced' = IF \E d \in Clients : UnderWay(d, new) THEN raced \cup {new} ELSE raced
      /\ (x.kind = "create") # store[Master][new].there
  BY <1>a, <1>b DEF Apply, Possible
<1>2. /\ req'[c].phase = "applied" /\ req'[c].write = x
      /\ \A d \in Clients \ {c} : req'[d] = req[d]
  BY <1>0, <1>1 DEF Requests
<1>3. /\ \A w \in Workers : store'[w] = store[w]
      /\ \A id \in Ids \ {new} : store'[Master][id] = store[Master][id]
      /\ Makes(x, store[Master][new], store'[Master][new])
      /\ store'[Master][new] \in Vertices
  <2>1. store \in [Nodes -> Graphs] /\ Master \in Nodes /\ \A w \in Workers : w # Master
    BY BaseFacts DEF BaseInv, GraphTypes
  <2>2. \A id \in Ids : IF id = new THEN Makes(x, store[Master][id], Effect(store[Master], x)[id])
                                    ELSE Effect(store[Master], x)[id] = store[Master][id]
    BY <1>0, <1>b, <2>1, EffectMakes
  <2>3. Effect(store[Master], x) \in Graphs
    BY <1>0, <1>b, <2>1, EffectMakes
  <2>. QED  BY <1>0, <1>1, <2>1, <2>2, <2>3 DEF Graphs
\* Of the other vertices nothing changes.
<1>4. \A w, id : id # new => Waiting(w, id)' = Waiting(w, id)
  <2>1. \A w, id : id # new => ~Waits(c, w, id) /\ ~Waits(c, w, id)'
    BY <1>0, <1>2, <1>b DEF Waits
  <2>. QED  BY <1>2, <2>1, OneMoves
<1>5. \A d \in Clients, id \in Ids : UnderWay(d, id)' =>
          \/ d = c /\ id = new
          \/ d # c /\ UnderWay(d, id) /\ req'[d] = req[d]
  BY <1>2, <1>b DEF UnderWay
\* Of this one, no other write is under way.
<1>6. ASSUME new \notin raced'
      PROVE  /\ \A d \in Clients : ~UnderWay(d, new)
             /\ \A w : Waiting(w, new) = {} /\ Waiting(w, new)' = {x}
  <2>1. \A d \in Clients : ~UnderWay(d, new)
    BY <1>1, <1>6
  <2>2. \A d \in Clients : \A w : ~Waits(d, w, new)
    BY <2>1 DEF Waits, UnderWay
  <2>3. \A w : Waits(c, w, new)' /\ \A d \in Clients \ {c} : ~Waits(d, w, new)'
    BY <1>2, <1>b, <2>2 DEF Waits
  <2>. QED  BY <1>2, <2>1, <2>2, <2>3 DEF Waiting
<1>7. raced \subseteq raced'
  BY <1>1
<1>8. Alone'
  BY <1>5, <1>6, <1>7 DEF Alone, WayInv
<1>9. Current'
  <2>1. Matches(x, store'[Master][new])
    BY <1>0, <1>1, <1>3, BaseFacts DEF Makes, Matches, Writes, Vertices, Kinds
  <2>. SUFFICES ASSUME NEW d \in Clients, NEW id \in Ids \ raced', UnderWay(d, id)'
                PROVE  Matches(req'[d].write, store'[Master][id])
    BY DEF Current
  <2>2. CASE d = c /\ id = new
    BY <1>2, <2>1, <2>2
  <2>3. CASE UnderWay(d, id) /\ req'[d] = req[d] /\ id # new
    <3>1. store'[Master][id] = store[Master][id]
      BY <1>3, <2>3
    <3>. QED  BY <1>7, <2>3, <3>1 DEF Current, WayInv
  <2>4. id = new => d = c
    BY <1>5, <1>6
  <2>. QED  BY <1>5, <2>2, <2>3, <2>4
<1>12. \A w : Every(w)' = Every(w) /\ Old(w)' = Old(w) /\ queue' = queue
  BY <1>1 DEF Every, Old, queueVars
<1>10. Tracked'
  <2>. SUFFICES ASSUME NEW w \in Workers \ missed, NEW id \in Ids \ raced',
                       NEW q \in {queue[w], Every(w)}
                PROVE  Leads(q, Waiting(w, id)', id, store[w][id], store'[Master][id])
    BY <1>1, <1>3, <1>12 DEF Tracked
  <2>1. Leads(q, Waiting(w, id), id, store[w][id], store[Master][id])
    BY <1>7 DEF Tracked, WayInv
  <2>2. CASE id # new
    BY <1>3, <1>4, <2>1, <2>2
  <2>3. CASE id = new
    <3>1. Waiting(w, id) = {} /\ Waiting(w, id)' = {x}
      BY <1>6, <2>3
    <3>2. q \in Seq(Writes) /\ store[w][id] \in Vertices /\ store[Master][id] \in Vertices
      BY BaseFacts
    <3>3. /\ Leads(q, {}, id, store[w][id], store[Master][id])
          /\ x \in Writes /\ x.id = id /\ (x.kind = "create") # store[Master][id].there
          /\ Makes(x, store[Master][id], store'[Master][id]) /\ store'[Master][id] \in Vertices
      BY <1>0, <1>1, <1>3, <1>b, <2>1, <2>3, <3>1
    <3>4. Leads(q, {x}, id, store[w][id], store'[Master][id])
      BY <3>2, <3>3, LeadsApply
    <3>. QED  BY <3>1, <3>4
  <2>. QED  BY <2>2, <2>3
<1>11. Ordered'
  <2>. SUFFICES ASSUME NEW w \in Workers, NEW id \in Ids \ raced'
                PROVE  Rises(Every(w), Old(w), Waiting(w, id)', id, Seen(w, id), applied + 1)
    BY <1>1, <1>3, <1>12 DEF Ordered, Seen
  <2>1. Rises(Every(w), Old(w), Waiting(w, id), id, Seen(w, id), applied)
    BY <1>7 DEF Ordered, WayInv
  <2>2. Every(w) \in Seq(Writes) /\ Seen(w, id) \in Nat /\ Waiting(w, id) \in SUBSET Writes
    BY BaseFacts, SeenIsNumber, WaitingWrites
  <2>3. CASE id # new
    BY <1>0, <1>4, <2>1, <2>2, <2>3, RisesElsewhere
  <2>4. CASE id = new
    <3>1. Waiting(w, id) = {} /\ Waiting(w, id)' = {x}
      BY <1>6, <2>4
    <3>. QED  BY <1>0, <2>1, <2>2, <3>1, RisesApply
  <2>. QED  BY <2>3, <2>4
<1>. QED  BY <1>8, <1>9, <1>10, <1>11 DEF WayInv

LEMMA EnqueueStep ==
    ASSUME BaseInv, WayInv, NEW c \in Clients, Enqueue(c)
    PROVE  WayInv'
<1>a. PICK x : x = req[c].write
  OBVIOUS
<1>b. PICK to : to = Head(req[c].targets)
  OBVIOUS
<1>0. /\ req \in [Clients -> Requests] /\ applied \in Nat /\ x \in Writes
      /\ req[c].phase = "enqueue" /\ req[c].targets \in Seq(Workers) /\ req[c].targets # <<>>
  BY <1>a, BaseFacts DEF Enqueue
<1>1. /\ to \in Workers /\ to \in Range(req[c].targets)
      /\ Range(Tail(req[c].targets)) = Range(req[c].targets) \ {to}
  BY <1>0, <1>b, TailInjective DEF BaseInv, ListedOnce
<1>2. /\ queue' = [queue EXCEPT ![to] = Append(@, x)] /\ req' = [req EXCEPT ![c].targets = Tail(@)]
      /\ store' = store /\ UNCHANGED <<kept, again>> /\ applied' = applied /\ raced' = raced /\ missed' = missed
  BY <1>a, <1>b DEF Enqueue
<1>3. /\ req'[c].phase = "enqueue" /\ req'[c].write = x
      /\ req'[c].targets = Tail(req[c].targets)
      /\ \A d \in Clients \ {c} : req'[d] = req[d]
  BY <1>0, <1>2, <1>a DEF Requests
<1>4. /\ queue'[to] = Append(queue[to], x) /\ Every(to)' = Append(Every(to), x)
      /\ \A w \in Workers \ {to} : queue'[w] = queue[w] /\ Every(w)' = Every(w)
      /\ \A w \in Workers : Old(w)' = Old(w)
  <2>1. queue'[to] = Append(queue[to], x) /\ \A w \in Workers \ {to} : queue'[w] = queue[w]
    BY <1>1, <1>2 DEF BaseInv, GraphTypes
  <2>2. kept[to] \o Append(queue[to], x) = Append(kept[to] \o queue[to], x)
    BY <1>0, <1>1, BaseFacts, JoinedAppend
  <2>. QED  BY <1>2, <2>1, <2>2 DEF Every, Old
<1>5. \A w, id : Waits(c, w, id)' = (Waits(c, w, id) /\ w # to)
  BY <1>0, <1>1, <1>3, <1>a DEF Waits
<1>6. \A w, id : w # to \/ id # x.id => Waiting(w, id)' = Waiting(w, id)
  <2>1. \A w, id : id # x.id => ~Waits(c, w, id) /\ ~Waits(c, w, id)'
    BY <1>3, <1>a DEF Waits
  <2>. QED  BY <1>3, <1>5, <1>a, <2>1, OneMoves
<1>7. ASSUME x.id \in Ids \ raced PROVE Waiting(to, x.id) = {x} /\ Waiting(to, x.id)' = {}
  <2>1. Waits(c, to, x.id) /\ UnderWay(c, x.id)
    BY <1>0, <1>1, <1>a DEF Waits, UnderWay
  <2>2. Waiting(to, x.id) = {x}
    BY <1>7, <1>a, <2>1, WaitingAlone DEF WayInv
  <2>3. \A d \in Clients \ {c} : ~Waits(d, to, x.id)
    BY <1>7, <2>1 DEF WayInv, Alone, Waits, UnderWay
  <2>4. \A d \in Clients : ~Waits(d, to, x.id)'
    BY <1>3, <1>5, <2>3 DEF Waits
  <2>. QED  BY <2>2, <2>4 DEF Waiting
<1>8. \A d \in Clients, id \in Ids :
          UnderWay(d, id)' => UnderWay(d, id) /\ req'[d].write = req[d].write
  BY <1>0, <1>3, <1>a DEF UnderWay
<1>9. Alone' /\ Current'
  BY <1>2, <1>8 DEF WayInv, Alone, Current
<1>10. Tracked'
  <2>0. \A w \in Workers : \A r \in {queue'[w], Every(w)'} :
            \E q \in {queue[w], Every(w)} : r = IF w = to THEN Append(q, x) ELSE q
    BY <1>1, <1>4
  <2>. SUFFICES ASSUME NEW w \in Workers \ missed, NEW id \in Ids \ raced,
                       NEW r \in {queue'[w], Every(w)'}
                PROVE  Leads(r, Waiting(w, id)', id, store[w][id], store[Master][id])
    BY <1>2 DEF Tracked
  <2>a. PICK q \in {queue[w], Every(w)} : r = IF w = to THEN Append(q, x) ELSE q
    BY <2>0
  <2>1. Leads(q, Waiting(w, id), id, store[w][id], store[Master][id])
    BY DEF Tracked, WayInv
  <2>2. q \in Seq(Writes) /\ store[w][id] \in Vertices /\ store[Master][id] \in Vertices
    BY BaseFacts
  <2>3. CASE w # to
    BY <1>6, <2>a, <2>1, <2>3
  <2>4. CASE w = to /\ id # x.id
    <3>1. Leads(Append(q, x), Waiting(w, id), id, store[w][id], store[Master][id])
      BY <1>0, <2>1, <2>2, <2>4, LeadsOther
    <3>. QED  BY <1>6, <2>a, <2>4, <3>1
  <2>5. CASE w = to /\ id = x.id
    <3>1. Waiting(w, id) = {x} /\ Waiting(w, id)' = {} /\ x.id = id
      BY <1>7, <2>5
    <3>2. Leads(q, {x}, id, store[w][id], store[Master][id])
      BY <2>1, <3>1
    <3>3. Leads(Append(q, x), {}, id, store[w][id], store[Master][id])
      BY <1>0, <2>2, <3>1, <3>2, LeadsEnqueue
    <3>. QED  BY <2>a, <2>5, <3>1, <3>3
  <2>. QED  BY <2>3, <2>4, <2>5
<1>11. Ordered'
  <2>. SUFFICES ASSUME NEW w \in Workers, NEW id \in Ids \ raced
                PROVE  Rises(Every(w)', Old(w), Waiting(w, id)', id, Seen(w, id), applied)
    BY <1>2, <1>4 DEF Ordered, Seen
  <2>1. Rises(Every(w), Old(w), Waiting(w, id), id, Seen(w, id), applied)
    BY DEF Ordered, WayInv
  <2>2. Every(w) \in Seq(Writes) /\ Seen(w, id) \in Nat
    BY BaseFacts, SeenIsNumber
  <2>3. CASE w # to
    BY <1>4, <1>6, <2>1, <2>3
  <2>4. CASE w = to /\ id # x.id
    <3>1. Rises(Append(Every(w), x), Old(w), Waiting(w, id), id, Seen(w, id), applied)
      BY <1>0, <2>1, <2>2, <2>4, RisesOther
    <3>. QED  BY <1>4, <1>6, <2>4, <3>1
  <2>5. CASE w = to /\ id = x.id
    <3>1. Waiting(w, id) = {x} /\ Waiting(w, id)' = {}
      BY <1>7, <2>5
    <3>2. {} \in SUBSET {x} /\ x \in {x} /\ \A y \in {} : x.content <= y.content
      OBVIOUS
    <3>3. Rises(Every(w), Old(w), {x}, id, Seen(w, id), applied)
      BY <2>1, <3>1
    <3>4. Rises(Append(Every(w), x), Old(w), {}, id, Seen(w, id), applied)
      BY <1>0, <2>2, <3>2, <3>3, RisesEnqueue
    <3>. QED  BY <1>4, <2>5, <3>1, <3>4
  <2>. QED  BY <2>3, <2>4, <2>5
<1>. QED  BY <1>9, <1>10, <1>11 DEF WayInv

LEMMA LocalStep ==
    ASSUME BaseInv, BaseInv', WayInv, NEW c \in Clients, ApplyLocally(c)
    PROVE  WayInv'
<1>. DEFINE x == req[c].write
            at == Home[c]
<1>0. /\ req \in [Clients -> Requests] /\ x \in Writes /\ req[c].phase = "local"
      /\ x.kind # "create" /\ at \in Workers /\ at \in Range(Home)
  <2>1. x.kind # "create" /\ at # Master
    BY DEF ApplyLocally, BaseInv, LocalsChange, AtWorker
  <2>2. at \in Nodes /\ at \in Range(Home)
    BY ClusterWritesAssumption DEF Range
  <2>. QED  BY <2>1, <2>2, BaseFacts DEF ApplyLocally, Nodes
<1>1. /\ store' = [store EXCEPT ![at] = Effect(@, x)] /\ req' = [req EXCEPT ![c] = Idle]
      /\ UNCHANGED queueVars /\ applied' = applied /\ raced' = raced /\ missed' = missed
  BY DEF ApplyLocally, Return
<1>2. req'[c] = Idle /\ \A d \in Clients \ {c} : req'[d] = req[d]
  BY <1>0, <1>1
<1>3. /\ \A n \in Nodes \ {at} : store'[n] = store[n]
      /\ \A id \in Ids : /\ store'[at][id] \in Vertices
                         /\ IF id = x.id THEN Makes(x, store[at][id], store'[at][id])
                                         ELSE store'[at][id] = store[at][id]
  <2>1. store \in [Nodes -> Graphs] /\ at \in Nodes
    BY <1>0, BaseFacts DEF BaseInv, GraphTypes
  <2>2. \A id \in Ids : IF id = x.id THEN Makes(x, store[at][id], Effect(store[at], x)[id])
                                     ELSE Effect(store[at], x)[id] = store[at][id]
    BY <1>0, <2>1, EffectMakes
  <2>3. Effect(store[at], x) \in Graphs
    BY <1>0, <2>1, EffectMakes
  <2>. QED  BY <1>1, <2>1, <2>2, <2>3 DEF Graphs
<1>. HIDE DEF x, at
<1>4. \A w, id : Waiting(w, id)' = Waiting(w, id)
  <2>1. \A w, id : ~Waits(c, w, id) /\ ~Waits(c, w, id)'
    BY <1>0, <1>2 DEF Waits, Idle
  <2>. QED  BY <1>2, <2>1, OneMoves
<1>5. \A d \in Clients, id \in Ids :
          UnderWay(d, id)' => UnderWay(d, id) /\ req'[d].write = req[d].write
  BY <1>2 DEF UnderWay, Idle
<1>6. Alone' /\ Current'
  <2>1. store'[Master] = store[Master]
    BY <1>0, <1>3, BaseFacts
  <2>. QED  BY <1>1, <1>5, <2>1 DEF WayInv, Alone, Current
<1>9. \A w : Every(w)' = Every(w) /\ Old(w)' = Old(w) /\ queue' = queue
  BY <1>1 DEF Every, Old, queueVars
<1>7. Tracked'
  <2>. SUFFICES ASSUME NEW w \in Workers \ missed, NEW id \in Ids \ raced,
                       NEW q \in {queue[w], Every(w)}
                PROVE  Leads(q, Waiting(w, id), id, store'[w][id], store[Master][id])
    BY <1>0, <1>1, <1>3, <1>4, <1>9, BaseFacts DEF Tracked
  <2>1. Leads(q, Waiting(w, id), id, store[w][id], store[Master][id])
    BY DEF Tracked, WayInv
  <2>2. q \in Seq(Writes) /\ store[w][id] \in Vertices /\ store[Master][id] \in Vertices
        /\ w \in Nodes
    BY BaseFacts
  <2>3. CASE w # at \/ id # x.id
    BY <1>3, <2>1, <2>2, <2>3
  <2>4. CASE w = at /\ id = x.id
    <3>1. UnderWay(c, id) /\ ~Waits(c, w, id)
      BY <1>0, <2>4 DEF UnderWay, Waits, x
    <3>2. Waiting(w, id) = {} /\ Matches(x, store[Master][id])
      BY <3>1, WaitingAlone DEF WayInv, Current, x
    <3>. QED  BY <1>0, <1>3, <2>1, <2>2, <2>4, <3>2, LeadsLocal
  <2>. QED  BY <2>3, <2>4
<1>8. Ordered'
  <2>1. \A w \in Workers, id \in Ids : Seen(w, id)' = Seen(w, id)
    BY <1>0, <1>3, BaseFacts DEF Seen
  <2>. QED  BY <1>1, <1>4, <1>9, <2>1 DEF WayInv, Ordered
<1>. QED  BY <1>6, <1>7, <1>8 DEF WayInv

LEMMA DeliverySteps ==
    ASSUME BaseInv, BaseInv', WayInv, NEW to \in Workers,
           Deliver(to) \/ DeliverUnanswered(to) \/ DeliverRefused(to)
    PROVE  WayInv'
<1>. DEFINE q == queue[to]
            x == Head(q)
<1>0. /\ q \in Seq(Writes) /\ q # <<>> /\ x \in Writes /\ x = q[1] /\ applied \in Nat
      /\ to \in Nodes /\ to # Master
  BY BaseFacts, TailWrites DEF Deliver, DeliverUnanswered, DeliverRefused, Pending
<1>1. /\ req' = req /\ applied' = applied /\ raced' = raced
      /\ missed \subseteq missed' /\ \A w \in Workers \ {to} : queue'[w] = queue[w]
      /\ \A n \in Nodes \ {to} : store'[n] = store[n]
  BY <1>0 DEF Deliver, DeliverUnanswered, DeliverRefused, Counted, BaseInv, GraphTypes, queueVars
<1>2. \/ to \in missed' /\ store' = store
      \/ \A id \in Ids : IF id = x.id THEN Makes(x, store[to][id], store'[to][id])
                                      ELSE store'[to][id] = store[to][id]
  <2>1. CASE DeliverRefused(to)
    BY <2>1 DEF DeliverRefused
  <2>2. CASE Deliver(to) \/ DeliverUnanswered(to)
    <3>1. store' = [store EXCEPT ![to] = Effect(@, x)]
      BY <2>2 DEF Deliver, DeliverUnanswered
    <3>2. store \in [Nodes -> Graphs] /\ store'[to] = Effect(store[to], x)
      BY <1>0, <3>1 DEF BaseInv, GraphTypes
    <3>. QED  BY <1>0, <3>2, EffectMakes
  <2>. QED  BY <2>1, <2>2
\* What a restart would queue stays as it is; the write is the next of it.
<1>7. /\ \A w \in Workers : Every(w)' = Every(w)
      /\ \A w \in Workers \ {to} : Old(w)' = Old(w)
      /\ queue'[to] = q \/ queue'[to] = Tail(q)
      /\ Old(to)' \in Nat /\ Old(to) <= Old(to)' /\ Len(kept[to]) <= Old(to)'
  <2>0. /\ kept[to] \in Seq(Writes) /\ Len(kept[to]) \in Nat /\ again[to] \in Nat
        /\ queue \in [Workers -> Seq(Writes)] /\ kept \in [Workers -> Seq(Writes)]
        /\ again \in [Workers -> Nat]
    BY LenProperties DEF BaseInv, GraphTypes
  <2>1. CASE DeliverUnanswered(to)
    BY <2>0, <2>1 DEF DeliverUnanswered, queueVars, Every, Old
  <2>2. CASE Counted(to)
    <3>1. /\ queue' = [queue EXCEPT ![to] = Tail(@)]
          /\ kept' = [kept EXCEPT ![to] = Append(@, Head(q))]
          /\ again' = [again EXCEPT ![to] = IF @ = 0 THEN 0 ELSE @ - 1]
      BY <2>2 DEF Counted
    <3>2. /\ queue'[to] = Tail(q) /\ kept'[to] = Append(kept[to], Head(q))
          /\ again'[to] = IF again[to] = 0 THEN 0 ELSE again[to] - 1
          /\ \A w \in Workers \ {to} : /\ queue'[w] = queue[w] /\ kept'[w] = kept[w]
                                       /\ again'[w] = again[w]
      BY <2>0, <3>1
    <3>3. kept'[to] \o queue'[to] = kept[to] \o q
      BY <1>0, <2>0, <3>2, JoinedMove
    <3>4. Len(kept'[to]) = Len(kept[to]) + 1
      BY <1>0, <2>0, <3>2, AppendProperties
    <3>5. \A w \in Workers : kept'[w] \o queue'[w] = kept[w] \o queue[w]
      BY <3>2, <3>3
    <3>6. Len(kept'[to]) + again'[to] \in Nat /\ Len(kept[to]) <= Len(kept'[to]) + again'[to]
          /\ Len(kept[to]) + again[to] <= Len(kept'[to]) + again'[to]
      BY <2>0, <3>2, <3>4
    <3>. QED  BY <3>2, <3>5, <3>6 DEF Every, Old
  <2>. QED  BY <2>1, <2>2 DEF Deliver, DeliverRefused
<1>8. PICK e \in Nat : e = Len(kept[to]) + 1 /\ e \in DOMAIN Every(to) /\ Every(to)[e] = x
  <2>1. kept[to] \in Seq(Writes) /\ Len(kept[to]) \in Nat /\ 1 \in DOMAIN q
    BY <1>0, BaseFacts, LenProperties, TailWrites
  <2>2. Len(kept[to]) + 1 \in DOMAIN (kept[to] \o q) /\ (kept[to] \o q)[Len(kept[to]) + 1] = q[1]
    BY <1>0, <2>1, JoinedWrites
  <2>3. Len(kept[to]) + 1 \in Nat
    BY <2>1
  <2>. QED  BY <1>0, <2>2, <2>3 DEF Every
<1>. HIDE DEF x
<1>3. \A w, id : Waiting(w, id)' = Waiting(w, id)
  BY <1>1 DEF Waiting, Waits
<1>4. Alone' /\ Current'
  <2>1. \A d \in Clients : \A id : UnderWay(d, id)' = UnderWay(d, id)
    BY <1>1 DEF UnderWay
  <2>2. store'[Master] = store[Master]
    BY <1>0, <1>1, BaseFacts
  <2>. QED  BY <1>1, <2>1, <2>2 DEF WayInv, Alone, Current
<1>5. Tracked'
  <2>. SUFFICES ASSUME NEW w \in Workers \ missed', NEW id \in Ids \ raced
                PROVE  /\ Leads(queue'[w], Waiting(w, id), id, store'[w][id], store[Master][id])
                       /\ Leads(Every(w), Waiting(w, id), id, store'[w][id], store[Master][id])
    BY <1>0, <1>1, <1>3, <1>7, BaseFacts DEF Tracked
  <2>1. /\ Leads(queue[w], Waiting(w, id), id, store[w][id], store[Master][id])
        /\ Leads(Every(w), Waiting(w, id), id, store[w][id], store[Master][id])
    BY <1>1 DEF Tracked, WayInv
  <2>2. /\ store[w][id] \in Vertices /\ store[Master][id] \in Vertices
        /\ store'[w][id] \in Vertices /\ w \in Nodes
    <3>1. \A n \in Nodes, i \in Ids : store'[n][i] \in Vertices
      BY DEF BaseInv, GraphTypes, Graphs
    <3>. QED  BY <3>1, BaseFacts
  <2>3. CASE w # to
    BY <1>1, <2>1, <2>2, <2>3
  <2>4. CASE w = to
    <3>1. IF id = q[1].id THEN Makes(q[1], store[w][id], store'[w][id])
                          ELSE store'[w][id] = store[w][id]
      BY <1>0, <1>2, <2>4
    <3>0. 1 \in DOMAIN q /\ Leads(q, Waiting(w, id), id, store[w][id], store[Master][id])
      BY <1>0, <2>1, <2>4, TailWrites
    <3>2. Leads(q, Waiting(w, id), id, store'[w][id], store[Master][id])
      BY <1>0, <2>2, <3>0, <3>1, LeadsAgain
    <3>3. Leads(Tail(q), Waiting(w, id), id, store'[w][id], store[Master][id])
      BY <1>0, <2>2, <3>0, <3>1, LeadsDeliver
    <3>4. Leads(Every(w), Waiting(w, id), id, store'[w][id], store[Master][id])
      <4>1. Every(w) \in Seq(Writes) /\ e \in DOMAIN Every(w)
        BY <1>8, <2>4, BaseFacts
      <4>2. IF id = Every(w)[e].id THEN Makes(Every(w)[e], store[w][id], store'[w][id])
                                   ELSE store'[w][id] = store[w][id]
        BY <1>0, <1>8, <2>4, <3>1
      <4>. QED  BY <2>1, <2>2, <4>1, <4>2, LeadsAgain
    <3>. QED  BY <1>7, <2>4, <3>2, <3>3, <3>4
  <2>. QED  BY <2>3, <2>4
<1>6. Ordered'
  <2>. SUFFICES ASSUME NEW w \in Workers, NEW id \in Ids \ raced
                PROVE  Rises(Every(w), Old(w)', Waiting(w, id), id, Seen(w, id)', applied)
    BY <1>1, <1>3, <1>7 DEF Ordered
  <2>1. Rises(Every(w), Old(w), Waiting(w, id), id, Seen(w, id), applied)
    BY DEF Ordered, WayInv
  <2>2. CASE w # to
    BY <1>1, <1>7, <2>1, <2>2, BaseFacts DEF Seen
  <2>3. CASE w = to
    <3>1. Seen(w, id)' = Seen(w, id) \/ (id = x.id /\ Seen(w, id)' = x.content)
      BY <1>0, <1>2, <2>3 DEF Seen, Makes
    <3>2. /\ Every(w) \in Seq(Writes) /\ Old(w) \in Nat /\ Seen(w, id) \in Nat
          /\ e \in DOMAIN Every(w) /\ Every(w)[e] = x /\ e <= Old(w)' + 1
          /\ Old(w)' \in Nat /\ Old(w) <= Old(w)'
      <4>1. Len(kept[to]) \in Nat
        BY BaseFacts, LenProperties
      <4>. QED  BY <1>7, <1>8, <2>3, <4>1, BaseFacts, SeenIsNumber
    <3>3. PICK k, m : k = Old(w)' /\ m = Seen(w, id)'
      OBVIOUS
    <3>4. Rises(Every(w), k, Waiting(w, id), id, m, applied)
      BY <1>0, <2>1, <3>1, <3>2, <3>3, RisesExecute
    <3>. QED  BY <3>3, <3>4
  <2>. QED  BY <2>2, <2>3
<1>. QED  BY <1>4, <1>5, <1>6 DEF WayInv

LEMMA RemoveStep ==
    ASSUME BaseInv, WayInv, NEW v \in Workers, RemoveFile(v)
    PROVE  WayInv'
<1>1. /\ UNCHANGED <<store, req, queue, again, applied, raced, missed>>
      /\ kept' = [kept EXCEPT ![v] = <<>>] /\ kept \in [Workers -> Seq(Writes)]
  BY DEF RemoveFile, BaseInv, GraphTypes
<1>2. /\ Every(v)' = queue[v] /\ Old(v)' = again[v]
      /\ \A w \in Workers \ {v} : Every(w)' = Every(w) /\ Old(w)' = Old(w)
  <2>1. kept'[v] = <<>> /\ \A w \in Workers \ {v} : kept'[w] = kept[w]
    BY <1>1
  <2>2. queue[v] \in Seq(Writes) /\ again[v] \in Nat /\ Len(<<>>) = 0
    BY DEF BaseInv, GraphTypes
  <2>. QED  BY <1>1, <2>1, <2>2, ConcatEmptySeq DEF Every, Old
<1>3. \A w, id : Waiting(w, id)' = Waiting(w, id)
  BY <1>1 DEF Waiting, Waits
<1>4. Alone' /\ Current'
  <2>1. \A d \in Clients : \A id : UnderWay(d, id)' = UnderWay(d, id)
    BY <1>1 DEF UnderWay
  <2>. QED  BY <1>1, <2>1 DEF WayInv, Alone, Current
<1>5. Tracked'
  BY <1>1, <1>2, <1>3 DEF WayInv, Tracked
<1>6. Ordered'
  <2>. SUFFICES ASSUME NEW w \in Workers, NEW id \in Ids \ raced
                PROVE  Rises(Every(w)', Old(w)', Waiting(w, id), id, Seen(w, id), applied)
    BY <1>1, <1>3 DEF Ordered, Seen
  <2>1. Rises(Every(w), Old(w), Waiting(w, id), id, Seen(w, id), applied)
    BY DEF Ordered, WayInv
  <2>2. CASE w = v
    <3>1. Rises(queue[v], again[v], Waiting(w, id), id, Seen(w, id), applied)
      <4>1. kept[v] \in Seq(Writes) /\ queue[v] \in Seq(Writes) /\ again[v] \in Nat
        BY DEF BaseInv, GraphTypes
      <4>2. Rises(kept[v] \o queue[v], Len(kept[v]) + again[v], Waiting(w, id), id, Seen(w, id), applied)
        BY <2>1, <2>2 DEF Every, Old
      <4>. QED  BY <4>1, <4>2, RisesRest
    <3>. QED  BY <1>2, <2>2, <3>1
  <2>3. CASE w # v
    BY <1>2, <2>1, <2>3
  <2>. QED  BY <2>2, <2>3
<1>. QED  BY <1>4, <1>5, <1>6 DEF WayInv

LEMMA NextWayInv == BaseInv /\ WayInv /\ [Next]_vars => WayInv'
<1>. SUFFICES ASSUME BaseInv, WayInv, [Next]_vars PROVE WayInv'
  OBVIOUS
<1>0. BaseInv'
  BY NextBaseInv
<1>1. CASE UNCHANGED vars
  BY <1>1, RegistrySteps DEF vars
<1>2. ASSUME NEW c \in Clients,
             \/ \E kind \in Kinds, id \in Ids : Request(c, kind, id)
             \/ ForwardFails(c) \/ ApplyFails(c) \/ Reply(c) \/ ReplyLost(c)
      PROVE  WayInv'
  BY <1>2, QuietSteps
<1>3. ASSUME NEW c \in Clients, Apply(c) PROVE WayInv'
  BY <1>0, <1>3, ApplyStep
<1>4. ASSUME NEW c \in Clients, Broadcast(c) PROVE WayInv'
  BY <1>4, BroadcastStep
<1>5. ASSUME NEW c \in Clients, Enqueue(c) PROVE WayInv'
  BY <1>5, EnqueueStep
<1>6. ASSUME NEW c \in Clients, ApplyLocally(c) PROVE WayInv'
  BY <1>0, <1>6, LocalStep
<1>7. ASSUME NEW w \in Workers, Deliver(w) \/ DeliverUnanswered(w) \/ DeliverRefused(w)
      PROVE  WayInv'
  BY <1>0, <1>7, DeliverySteps
<1>11. ASSUME NEW w \in Workers, RemoveFile(w) PROVE WayInv'
  BY <1>11, RemoveStep
<1>8. ASSUME NEW w \in Workers, Heartbeat(w) \/ Expire(w) PROVE WayInv'
  BY <1>8, RegistrySteps DEF Heartbeat, Expire
<1>9. CASE Startup
  BY <1>9, RegistrySteps DEF Startup, SetMasterInfo, LoadKnown
<1>10. CASE Crash
  BY <1>10, CrashStep
<1>. QED
  BY <1>1, <1>2, <1>3, <1>4, <1>5, <1>6, <1>7, <1>8, <1>9, <1>10, <1>11 DEF Next, Handle

\* What is under way to a worker makes it store what the master stores, in the
\* order of the master, whatever is delivered twice or lost with the master, and
\* when all that is left in the files is delivered again.
LEMMA AlwaysJInv == Spec => []JInv
<1>1. JInv /\ [Next]_vars => JInv'
  BY NextBaseInv, NextWayInv DEF JInv, WayInv
<1>. QED  BY <1>1, InitJInv, PTL DEF Spec

-----------------------------------------------------------------------------
\* "Every node converges to the same state" (README.md, Master-Worker): when
\* nothing is under way to a worker that missed no broadcast, it stores what
\* the master stores, for every vertex whose writes did not overlap; however
\* many clients, workers, duplicates, restarts and local applications.
THEOREM WorkersConverge == Spec => []Converged
<1>1. ASSUME JInv PROVE Converged
  <2>. SUFFICES ASSUME NEW w \in Workers \ missed, Quiet(w), NEW id \in Ids \ raced
                PROVE  Same(store[w][id], store[Master][id])
    BY DEF Converged, Agree
  <2>1. queue[w] = <<>> /\ Waiting(w, id) = {}
    BY DEF Quiet, Waiting, Waits
  <2>2. Leads(<<>>, {}, id, store[w][id], store[Master][id])
    BY <1>1, <2>1 DEF JInv, Tracked
  <2>3. NoneOf(<<>>, id)
    BY DEF NoneOf
  <2>. QED  BY <2>2, <2>3 DEF Leads
<1>2. JInv => Converged
  BY <1>1
<1>. QED  BY <1>2, AlwaysJInv, PTL

\* A worker that no client writes through goes back to an earlier content of a
\* vertex, whose writes did not overlap, only while it executes again what was
\* counted as delivered before the master was started again; it does not when
\* the consumer repeats a broadcast whose answer it did not get, nor later
\* (broadcast_queue.rs, rebuild_state_from_files).
THEOREM ReadsGoForward == Spec => ReadsAdvance
<1>1. ASSUME JInv, [Next]_vars, NEW w \in Workers \ Range(Home), NEW id \in Ids \ raced, again[w] = 0
      PROVE  store'[w][id].content >= store[w][id].content
  <2>. DEFINE q == queue[w]
  <2>1. BaseInv /\ Rises(q, 0, Waiting(w, id), id, store[w][id].content, applied)
    <3>1. BaseInv /\ Rises(kept[w] \o q, Len(kept[w]) + 0, Waiting(w, id), id, store[w][id].content, applied)
      BY <1>1 DEF JInv, Ordered, Seen, Every, Old
    <3>2. kept[w] \in Seq(Writes) /\ q \in Seq(Writes)
      BY <3>1, BaseFacts
    <3>. QED  BY <3>1, <3>2, RisesRest
  <2>2. w \in Nodes /\ w # Master /\ store \in [Nodes -> Graphs] /\ store[w][id].content \in Nat
    <3>1. store[w][id] \in Vertices
      BY <2>1, BaseFacts
    <3>. QED  BY <2>1, <3>1, BaseFacts DEF BaseInv, GraphTypes, Vertices
  <2>3. CASE store'[w] = store[w]
    BY <2>2, <2>3
  <2>4. CASE Deliver(w) \/ DeliverUnanswered(w)
    <3>1. q \in Seq(Writes) /\ q # <<>>
      BY <2>1, <2>4, BaseFacts DEF Deliver, DeliverUnanswered, Pending
    <3>2. Head(q) = q[1] /\ q[1] \in Writes /\ 1 \in DOMAIN q
      BY <3>1, TailWrites
    <3>3. store' = [store EXCEPT ![w] = Effect(@, Head(q))]
      BY <2>4 DEF Deliver, DeliverUnanswered
    <3>4. store'[w] = Effect(store[w], q[1])
      BY <2>2, <3>2, <3>3
    <3>5. IF id = q[1].id THEN Makes(q[1], store[w][id], store'[w][id])
                          ELSE store'[w][id] = store[w][id]
      BY <2>2, <3>2, <3>4, EffectMakes
    <3>6. id = q[1].id => store[w][id].content <= q[1].content /\ q[1].content \in Nat
      BY <2>1, <3>2 DEF Rises, Writes
    <3>. QED  BY <2>2, <3>5, <3>6 DEF Makes
  <2>5. ASSUME NEW v \in Workers \ {w}, Deliver(v) \/ DeliverUnanswered(v)
        PROVE  store'[w] = store[w]
    BY <2>2, <2>5 DEF Deliver, DeliverUnanswered
  <2>6. ASSUME NEW c \in Clients, Apply(c) \/ ApplyLocally(c) PROVE store'[w] = store[w]
    <3>1. Home[c] # w
      BY <1>1, ClusterWritesAssumption DEF Range
    <3>. QED  BY <2>2, <2>6, <3>1 DEF Apply, ApplyLocally
  <2>. QED
    BY <1>1, <2>3, <2>4, <2>5, <2>6 DEF Next, vars, Handle, Startup, Request, ForwardFails,
       ApplyFails, Broadcast, Enqueue, Reply, ReplyLost, DeliverRefused, RemoveFile, Heartbeat, Expire,
       SetMasterInfo, LoadKnown, Crash
<1>2. JInv /\ [Next]_vars =>
        [\A w \in Workers \ Range(Home), id \in Ids \ raced :
            again[w] = 0 => store'[w][id].content >= store[w][id].content]_vars
  BY <1>1
<1>. QED  BY <1>2, AlwaysJInv, PTL DEF Spec, ReadsAdvance
=============================================================================
