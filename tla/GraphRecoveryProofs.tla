------------------------ MODULE GraphRecoveryProofs ------------------------
(***************************************************************************)
(* Proofs about the vertices of a graph across restarts, for any number of *)
(* clients, blocks, places, vertices, operations, evictions and restarts.  *)
(***************************************************************************)
EXTENDS GraphRecovery, NaturalsInduction, WellFoundedInduction, TLAPS

-----------------------------------------------------------------------------
(***************************************************************************)
(* A bounded set of numbers has a least bound, which is its maximum.       *)
(***************************************************************************)
LEMMA MinimalElement ==
    ASSUME NEW R, NEW S, NEW T, T \subseteq S, T # {}, IsWellFoundedOn(R, S)
    PROVE  \E n \in T : \A m \in T : ~(<<m, n>> \in R)
BY WFMin, Zenon

LEMMA LeastBy ==
    ASSUME NEW R, NEW T \in SUBSET Nat, T # {}, IsWellFoundedOn(R, Nat),
           \A m, n \in Nat : m < n => <<m, n>> \in R
    PROVE  \E n \in T : \A m \in T : n <= m
<1>1. T \subseteq Nat
  OBVIOUS
<1>2. PICK n \in T : \A m \in T : ~(<<m, n>> \in R)
  BY <1>1, MinimalElement, Zenon
<1>3. ASSUME NEW m \in T PROVE n <= m
  <2>1. m \in Nat /\ n \in Nat
    OBVIOUS
  <2>2. ~(m < n)
    BY <1>2, <2>1, Zenon
  <2>. QED  BY <2>1, <2>2
<1>. QED  BY <1>3

LEMMA LeastNumber ==
    ASSUME NEW T \in SUBSET Nat, T # {}
    PROVE  \E n \in T : \A m \in T : n <= m
<1>1. \A m, n \in Nat : m < n => <<m, n>> \in OpToRel(<, Nat)
  BY DEF OpToRel
<1>. QED  BY <1>1, NatLessThanWellFounded, LeastBy, Zenon

LEMMA Maximum ==
    ASSUME NEW n \in Nat, NEW S \in SUBSET (0..n), S # {}
    PROVE  Max(S) \in S /\ \A x \in S : x <= Max(S)
<1>. DEFINE T == {k \in Nat : \A x \in S : x <= k}
<1>1. n \in T
  OBVIOUS
<1>2. PICK k \in T : \A j \in T : k <= j
  BY <1>1, LeastNumber
<1>3. k \in S
  <2>1. SUFFICES ASSUME k \notin S PROVE FALSE
    OBVIOUS
  <2>2. k # 0
    <3>1. PICK x \in S : TRUE
      OBVIOUS
    <3>2. x \in Nat /\ x <= k /\ k \in Nat
      OBVIOUS
    <3>. QED  BY <2>1, <3>1, <3>2
  <2>3. k - 1 \in T
    BY <1>2, <2>1, <2>2
  <2>. QED  BY <1>2, <2>3
<1>4. k \in S /\ \A x \in S : k >= x
  BY <1>2, <1>3
<1>5. /\ Max(S) \in S
      /\ \A x \in S : Max(S) >= x
  BY <1>4, Zenon DEF Max
<1>. QED  BY <1>5

LEMMA MaximumOfTwo ==
    ASSUME NEW x \in Nat, NEW y \in Nat
    PROVE  Max({x, y}) \in {x, y}
<1>1. x + y \in Nat /\ {x, y} \in SUBSET (0..(x + y))
  OBVIOUS
<1>. QED  BY <1>1, Maximum

-----------------------------------------------------------------------------
(***************************************************************************)
(* Types, and what each stage leaves alone.                                *)
(***************************************************************************)
Request ==
    [phase : {"idle", "fill", "free", "unindex", "log"}, kind : Kinds, id : Ids,
     content : Contents, place : Places \cup {0}, old : Places \cup {0}]

Types ==
    /\ mem \in [Places -> Place] /\ disk \in [Places -> Place]
    /\ index \in [Ids -> Places \cup {0}] /\ nextId \in 1..(MaxIds + 1)
    /\ saved = <<>> \/ saved \in [Ids -> Places \cup {0}]
    /\ stage \in {"down", "replay", "failed", "opening", "up", "closing", "saving"}
    /\ wal \in Seq(Entry) /\ replayed \in 0..Len(wal)
    /\ rotating \in BOOLEAN /\ toFlush \subseteq Blocks
    /\ req \in [Clients -> Request]
    /\ allowed \in [Ids -> SUBSET Contents] /\ mixed \subseteq Ids /\ torn \in BOOLEAN
    /\ ops \in Nat /\ evictions \in Nat

\* Clients are served while the graph is up, the log is rotated from then on,
\* and entries are counted only during the replay.
Stages ==
    /\ stage # "up" => \A c \in Clients : ~Busy(c)
    /\ rotating => stage \in {"up", "closing", "saving"}
    /\ stage \notin {"replay", "failed"} => replayed = 0

LEMMA Bounds ==
    /\ MaxIds \in Nat \ {0} /\ MaxOps \in Nat /\ NumPlaces \in Nat
    /\ 0 \notin Places /\ 1 \in Ids /\ 0 \in Contents
BY GraphRecoveryAssumption DEF Places, Ids, Contents

LEMMA Values ==
    /\ Empty \in Place /\ NoIndex \in [Ids -> Places \cup {0}] /\ NoOp \in Request
    /\ \A id \in Ids, content \in Contents : Record(id, content) \in Place
    /\ \A r \in Request : r.phase # "idle" => Logged(r) \in Entry
BY Bounds DEF Empty, Place, NoIndex, NoOp, Request, Record, Logged, Entry, Kinds, Ids

LEMMA MarkedPlace ==
    ASSUME NEW r \in Place
    PROVE  [r EXCEPT !.status = "deleted"] \in Place /\ [r EXCEPT !.used = FALSE] \in Place
BY DEF Place

\* What the scan of the blocks finds of a vertex.
LastRecord(d, id) == Max({0} \cup {p \in Places : d[p].used /\ d[p].id = id})

LEMMA ScanFinds ==
    ASSUME NEW d \in [Places -> Place], NEW id \in Ids
    PROVE  LET S == {p \in Places : d[p].used /\ d[p].id = id}
           IN  /\ LastRecord(d, id) \in S \cup {0}
               /\ \A p \in S : p <= LastRecord(d, id)
<1>. DEFINE S == {p \in Places : d[p].used /\ d[p].id = id}
<1>1. {0} \cup S \in SUBSET (0..NumPlaces)
  BY Bounds DEF Places
<1>. QED  BY <1>1, Bounds, Maximum DEF LastRecord

LEMMA ScanFindsOnly ==
    ASSUME NEW d \in [Places -> Place], NEW id \in Ids, NEW x \in Places \cup {0},
           \A p \in Places : d[p].used /\ d[p].id = id => p = x,
           x # 0 => d[x].used /\ d[x].id = id
    PROVE  LastRecord(d, id) = x
<1>1. CASE x = 0
  BY <1>1, ScanFinds, Bounds
<1>2. CASE x # 0
  <2>. DEFINE S == {p \in Places : d[p].used /\ d[p].id = id}
  <2>1. x \in S /\ x \in Nat /\ x >= 1 /\ \A p \in S : p = x
    BY <1>2, Bounds DEF Places
  <2>2. LastRecord(d, id) \in S \cup {0} /\ x <= LastRecord(d, id)
    BY <2>1, ScanFinds
  <2>. HIDE DEF S
  <2>3. LastRecord(d, id) # 0
    BY <2>1, <2>2
  <2>. QED  BY <2>1, <2>2, <2>3
<1>. QED  BY <1>1, <1>2

LEMMA RebuiltIsRecord ==
    ASSUME disk \in [Places -> Place], NEW id \in Ids
    PROVE  LET S == {p \in Places : disk[p].used /\ disk[p].id = id}
           IN  /\ Rebuilt[id] \in S \cup {0}
               /\ Rebuilt[id] = LastRecord(disk, id)
<1>1. Rebuilt[id] = LastRecord(disk, id)
  BY DEF Rebuilt, LastRecord
<1>. QED  BY <1>1, ScanFinds

-----------------------------------------------------------------------------
LEMMA InitTypes == Init => Types /\ Stages
<1> SUFFICES ASSUME Init PROVE Types /\ Stages
  OBVIOUS
<1>1. req \in [Clients -> Request] /\ \A c \in Clients : ~Busy(c)
  BY Values DEF Init, Busy, NoOp
<1>2. \A id \in Ids : {0} \in SUBSET Contents
  BY Bounds
<1>3. /\ wal \in Seq(Entry) /\ replayed \in 0..Len(wal)
      /\ saved = <<>> /\ stage = "up" /\ rotating = FALSE /\ toFlush = {}
      /\ mixed = {} /\ torn = FALSE /\ ops \in Nat /\ evictions \in Nat
  BY DEF Init
<1>4. nextId \in 1..(MaxIds + 1)
  BY Bounds DEF Init
<1>5. mem \in [Places -> Place] /\ disk \in [Places -> Place]
  BY Values DEF Init
<1>6. index \in [Ids -> Places \cup {0}] /\ allowed \in [Ids -> SUBSET Contents]
  BY <1>2, Values DEF Init
<1>7. Types
  BY <1>1, <1>3, <1>4, <1>5, <1>6 DEF Types
<1>8. Stages
  BY <1>1 DEF Init, Stages
<1>. QED  BY <1>7, <1>8

\* What Begin does to the types, whatever the new place and index are.
LEMMA BeginTypes ==
    ASSUME Types, Stages, NEW c \in Clients, NEW r \in Request, Begin(c, r),
           mem' \in [Places -> Place], nextId' \in 1..(MaxIds + 1)
    PROVE  Types' /\ Stages'
<1> USE DEF Types
<1>1. req' \in [Clients -> Request] /\ ops' \in Nat
  BY DEF Begin
<1>2. allowed' \in [Ids -> SUBSET Contents] /\ mixed' \subseteq Ids /\ torn' \in BOOLEAN
  BY DEF Begin, Request
<1>3. Types'
  BY <1>1, <1>2 DEF Begin, bootVars, logVars
<1>4. Stages'
  BY DEF Stages, Begin, bootVars, logVars
<1>. QED  BY <1>3, <1>4

LEMMA StepTypes ==
    ASSUME Types, Stages, NEW c \in Clients, Busy(c),
           NEW phase \in {"free", "log"}, Step(c, phase),
           mem' \in [Places -> Place], index' \in [Ids -> Places \cup {0}]
    PROVE  Types' /\ Stages'
<1> USE DEF Types
<1>1. req' \in [Clients -> Request] /\ torn' \in BOOLEAN
  <2>1. req[c] \in Request /\ req' = [req EXCEPT ![c] = [req[c] EXCEPT !.phase = phase]]
    BY DEF Step
  <2>2. [req[c] EXCEPT !.phase = phase] \in Request
    BY <2>1 DEF Request
  <2>. QED  BY <2>1, <2>2 DEF Step
<1>2. Types'
  BY <1>1 DEF Step, bootVars, logVars, boundVars
<1>3. stage = "up"
  BY DEF Stages
<1>4. Stages'
  BY <1>3 DEF Stages, Step, bootVars, logVars
<1>. QED  BY <1>2, <1>4

LEMMA Marking ==
    ASSUME NEW m \in [Places -> Place], NEW p \in Places, NEW flag \in BOOLEAN
    PROVE  [m EXCEPT ![p].used = flag] \in [Places -> Place]
BY DEF Place

\* An index entry that is not zero is a place.
LEMMA Lookup ==
    ASSUME Types, NEW id \in Ids
    PROVE  index[id] # 0 => index[id] \in Places
BY DEF Types

LEMMA OperationTypes ==
    ASSUME Types, Stages, NEW c \in Clients, Operation(c)
    PROVE  Types' /\ Stages'
<1> USE DEF Types
<1>1. CASE Create(c)
  <2>1. PICK p \in Free :
           /\ nextId \in Ids
           /\ Begin(c, [phase |-> "fill", kind |-> "create", id |-> nextId, content |-> ops + 1,
                        place |-> p, old |-> 0])
           /\ nextId' = nextId + 1
           /\ mem' = [mem EXCEPT ![p].used = TRUE]
    BY <1>1 DEF Create
  <2>2. p \in Places /\ ops + 1 \in Contents
    BY <2>1, Bounds DEF Free, Begin, Contents
  <2>3. [phase |-> "fill", kind |-> "create", id |-> nextId, content |-> ops + 1,
         place |-> p, old |-> 0] \in Request
    BY <2>1, <2>2 DEF Request, Kinds
  <2>4. nextId' \in 1..(MaxIds + 1)
    BY <2>1, Bounds DEF Ids
  <2>. QED  BY <2>1, <2>2, <2>3, <2>4, Marking, BeginTypes
<1>2. ASSUME NEW id \in Ids, Update(c, id) PROVE Types' /\ Stages'
  <2>1. PICK p \in Free :
           /\ Begin(c, [phase |-> "fill", kind |-> "update", id |-> id, content |-> ops + 1,
                        place |-> p, old |-> index[id]])
           /\ mem' = [mem EXCEPT ![p].used = TRUE]
    BY <1>2 DEF Update
  <2>2. p \in Places /\ ops + 1 \in Contents /\ nextId' = nextId
    BY <1>2, <2>1, Bounds DEF Free, Begin, Contents, Update
  <2>3. [phase |-> "fill", kind |-> "update", id |-> id, content |-> ops + 1,
         place |-> p, old |-> index[id]] \in Request
    BY <2>1, <2>2 DEF Request, Kinds
  <2>. QED  BY <2>1, <2>2, <2>3, Marking, BeginTypes
<1>3. ASSUME NEW id \in Ids, SoftDelete(c, id) PROVE Types' /\ Stages'
  <2>1. /\ Begin(c, [phase |-> "log", kind |-> "soft", id |-> id, content |-> 0,
                     place |-> 0, old |-> index[id]])
        /\ mem' = [mem EXCEPT ![index[id]].status = "deleted"]
        /\ nextId' = nextId /\ index[id] \in Places
    BY <1>3 DEF SoftDelete
  <2>2. [phase |-> "log", kind |-> "soft", id |-> id, content |-> 0,
         place |-> 0, old |-> index[id]] \in Request
    BY Bounds DEF Request, Kinds
  <2>3. mem[index[id]] \in Place /\ [mem[index[id]] EXCEPT !.status = "deleted"] \in Place
    BY <2>1, MarkedPlace
  <2>4. mem' \in [Places -> Place]
    BY <2>1, <2>3
  <2>. QED  BY <2>1, <2>2, <2>4, BeginTypes
<1>4. ASSUME NEW id \in Ids, HardDelete(c, id) PROVE Types' /\ Stages'
  <2>1. /\ Begin(c, [phase |-> "unindex", kind |-> "hard", id |-> id, content |-> 0,
                     place |-> 0, old |-> index[id]])
        /\ mem' = [mem EXCEPT ![index[id]].used = FALSE]
        /\ nextId' = nextId /\ index[id] \in Places
    BY <1>4 DEF HardDelete
  <2>2. [phase |-> "unindex", kind |-> "hard", id |-> id, content |-> 0,
         place |-> 0, old |-> index[id]] \in Request
    BY Bounds DEF Request, Kinds
  <2>. QED  BY <2>1, <2>2, Marking, BeginTypes
<1>5. CASE Fill(c)
  <2>1. req[c] \in Request /\ Record(req[c].id, req[c].content) \in Place
    BY Values DEF Request
  <2>2. mem' \in [Places -> Place] /\ index' \in [Ids -> Places \cup {0}]
    BY <1>5, <2>1 DEF Fill, Request
  <2>. QED  BY <1>5, <2>2, StepTypes DEF Fill, Busy
<1>6. CASE FreeOld(c)
  <2>1. mem' = [mem EXCEPT ![req[c].old].used = FALSE]
    BY <1>6 DEF FreeOld
  <2>2. ASSUME NEW p \in Places PROVE mem'[p] \in Place
    <3>1. mem[p] \in Place /\ mem'[p] \in {mem[p], [mem[p] EXCEPT !.used = FALSE]}
      BY <2>1
    <3>2. [mem[p] EXCEPT !.used = FALSE] \in Place
      BY <3>1, MarkedPlace
    <3>. QED  BY <3>1, <3>2
  <2>3. mem' \in [Places -> Place]
    BY <2>1, <2>2
  <2>. QED  BY <1>6, <2>3, StepTypes DEF FreeOld, Busy
<1>7. CASE Unindex(c)
  <2>1. index' \in [Ids -> Places \cup {0}]
    BY <1>7 DEF Unindex
  <2>. QED  BY <1>7, <2>1, StepTypes DEF Unindex, Busy
<1>8. CASE Log(c)
  <2>1. Logged(req[c]) \in Entry /\ req[c] \in Request
    BY <1>8, Values DEF Log
  <2>2. wal' \in Seq(Entry) /\ Len(wal') = Len(wal) + 1
    BY <1>8, <2>1 DEF Log
  <2>3. req' \in [Clients -> Request] /\ allowed' \in [Ids -> SUBSET Contents]
    BY <1>8, <2>1, Values DEF Log, Request
  <2>4. stage = "up" /\ stage' = stage /\ replayed' = 0 /\ rotating' = rotating
    BY <1>8 DEF Log, Stages, Busy, bootVars
  <2>. QED  BY <1>8, <2>2, <2>3, <2>4 DEF Log, Stages, bootVars, boundVars
<1>. QED  BY <1>1, <1>2, <1>3, <1>4, <1>5, <1>6, <1>7, <1>8 DEF Operation

LEMMA WrittenTypes ==
    ASSUME Types, NEW b
    PROVE  Written(b) \in [Places -> Place]
BY DEF Types, Written

LEMMA RotationTypes ==
    ASSUME Types, Stages,
           Rotate \/ Trim \/ \E b \in Blocks : FlushBlock(b) \/ Evict(b)
    PROVE  Types' /\ Stages'
<1> USE DEF Types
<1>1. CASE Rotate
  BY <1>1 DEF Rotate, Stages, Busy, bootVars, boundVars
<1>2. CASE Trim
  <2>1. wal' \in Seq(Entry) /\ replayed = 0 /\ replayed' = 0 /\ Len(wal') = 0
    BY <1>2 DEF Trim, Stages, bootVars
  <2>2. replayed' \in 0..Len(wal')
    BY <2>1
  <2>. QED  BY <1>2, <2>1, <2>2 DEF Trim, Stages, Busy, bootVars, boundVars, history
<1>3. ASSUME NEW b \in Blocks, FlushBlock(b) PROVE Types' /\ Stages'
  BY <1>3, WrittenTypes DEF FlushBlock, Stages, Busy, bootVars, boundVars, history
<1>4. ASSUME NEW b \in Blocks, Evict(b) PROVE Types' /\ Stages'
  BY <1>4, WrittenTypes DEF Evict, Stages, Busy, bootVars, logVars, history
<1>. QED  BY <1>1, <1>2, <1>3, <1>4

LEMMA ForgetTypes ==
    ASSUME Types, Forget
    PROVE  /\ Stages' /\ req' \in [Clients -> Request] /\ index' \in [Ids -> Places \cup {0}]
           /\ \A c \in Clients : ~Busy(c)'
           /\ nextId' \in 1..(MaxIds + 1)
<1>1. \A c \in Clients : req'[c] = NoOp
  BY DEF Forget
<1>2. Stages'
  BY <1>1 DEF Forget, Stages, Busy, NoOp
<1>. QED  BY <1>1, <1>2, Bounds, Values DEF Forget, NoOp, Busy

LEMMA CounterBeyond ==
    ASSUME NEW S \in SUBSET Ids
    PROVE  1 + Max({0} \cup S) \in 1..(MaxIds + 1)
<1>1. {0} \cup S \in SUBSET (0..MaxIds) /\ {0} \cup S # {}
  BY Bounds DEF Ids
<1>2. Max({0} \cup S) \in {0} \cup S
  BY <1>1, Bounds, Maximum
<1>. QED  BY <1>1, <1>2, Bounds

LEMMA RestartTypes ==
    ASSUME Types, Stages, Crash \/ Open \/ ReplayFails \/ ReplayEnds \/ Close \/ Renew \/ SaveIndex
    PROVE  Types' /\ Stages'
<1> USE DEF Types
<1>1. CASE Crash
  <2>1. /\ torn' \in BOOLEAN /\ replayed' = 0 /\ wal' = wal /\ mem' = disk /\ stage' = "down"
        /\ rotating' = FALSE /\ toFlush' = {}
    BY <1>1 DEF Crash, Forget
  <2>2. replayed' \in 0..Len(wal')
    BY <2>1
  <2>3. Forget
    BY <1>1 DEF Crash
  <2>. QED  BY <1>1, <2>1, <2>2, <2>3, ForgetTypes DEF Crash
<1>2. CASE Open
  <2>1. index' \in [Ids -> Places \cup {0}]
    BY <1>2, RebuiltIsRecord DEF Open, Rebuilt
  <2>2. nextId' \in 1..(MaxIds + 1)
    BY <1>2, CounterBeyond DEF Open
  <2>3. rotating = FALSE /\ rotating' = FALSE
    BY <1>2 DEF Open, Stages, logVars
  <2>. QED  BY <1>2, <2>1, <2>2, <2>3 DEF Open, Stages, Busy, logVars, boundVars, history
<1>3. CASE ReplayFails
  BY <1>3 DEF ReplayFails, Stages, Busy, logVars, boundVars, history
<1>4. CASE ReplayEnds
  BY <1>4 DEF ReplayEnds, Stages, Busy, logVars, boundVars, history
<1>5. CASE Close
  BY <1>5 DEF Close, Stages, Busy, logVars, boundVars, history
<1>6. CASE Renew
  <2>1. wal' \in Seq(Entry) /\ Len(wal') = 0 /\ replayed' = 0
    BY <1>6 DEF Renew, Stages
  <2>2. \A id \in Ids : Visible(id) \in Contents
    BY Bounds DEF Visible, Place
  <2>3. allowed' \in [Ids -> SUBSET Contents]
    BY <1>6, <2>2 DEF Renew
  <2>. QED  BY <1>6, <2>1, <2>3 DEF Renew, Stages, Busy, logVars, boundVars, history
<1>7. CASE SaveIndex
  <2>1. /\ replayed' = 0 /\ wal' = wal /\ mem' = disk /\ saved' = index /\ stage' = "down"
        /\ rotating' = FALSE /\ toFlush' = {}
    BY <1>7 DEF SaveIndex, Forget
  <2>2. replayed' \in 0..Len(wal')
    BY <2>1
  <2>3. Forget
    BY <1>7 DEF SaveIndex
  <2>. QED  BY <1>7, <2>1, <2>2, <2>3, ForgetTypes DEF SaveIndex, boundVars, history
<1>. QED  BY <1>1, <1>2, <1>3, <1>4, <1>5, <1>6, <1>7

\* The entry the replay is at.
LEMMA NextEntry ==
    ASSUME Types, replayed < Len(wal)
    PROVE  wal[replayed + 1] \in Entry /\ replayed + 1 \in 0..Len(wal)
<1>1. replayed + 1 \in 1..Len(wal)
  BY DEF Types
<1>. QED  BY <1>1 DEF Types

LEMMA ReplayTypes ==
    ASSUME Types, Stages, Replay
    PROVE  Types' /\ Stages'
<1> USE DEF Types
<1>. DEFINE e == wal[replayed + 1]
<1>1. e \in Entry /\ replayed' \in 0..Len(wal)
  BY NextEntry DEF Replay
<1>. HIDE DEF e
<1>2. e.id \in Ids /\ e.content \in Contents /\ Record(e.id, e.content) \in Place
  BY <1>1, Values DEF Entry
<1>3. /\ mem' \in [Places -> Place] /\ index' \in [Ids -> Places \cup {0}]
      /\ nextId' \in 1..(MaxIds + 1) /\ torn' \in BOOLEAN
  <2>1. CASE ReplayCreate(e)
    BY <1>2, <2>1, Bounds DEF ReplayCreate, Free, Ids
  <2>2. CASE ReplayUpdate(e)
    <3>1. PICK p \in Free :
            /\ index[e.id] # 0
            /\ nextId' = Max({nextId, e.id + 1})
            /\ mem' = [mem EXCEPT ![p] = Record(e.id, e.content), ![index[e.id]].used = FALSE]
            /\ index' = [index EXCEPT ![e.id] = p]
            /\ torn' = torn
      BY <2>2 DEF ReplayUpdate
    <3>2. nextId' \in 1..(MaxIds + 1)
      <4>1. nextId \in Nat /\ e.id + 1 \in 1..(MaxIds + 1)
        BY <1>2, Bounds DEF Ids
      <4>. QED  BY <3>1, <4>1, MaximumOfTwo
    <3>3. p \in Places /\ index[e.id] \in Places
      BY <1>2, <3>1 DEF Free
    <3>4. [mem EXCEPT ![p] = Record(e.id, e.content)] \in [Places -> Place]
      BY <1>2, <3>3
    <3>5. mem' = [[mem EXCEPT ![p] = Record(e.id, e.content)] EXCEPT ![index[e.id]].used = FALSE]
      BY <3>1
    <3>6. mem' \in [Places -> Place]
      BY <3>3, <3>4, <3>5, Marking
    <3>. QED  BY <1>2, <3>1, <3>2, <3>3, <3>6
  <2>3. CASE ReplayDelete(e)
    <3>1. mem' \in [Places -> Place]
      BY <1>2, <2>3, Marking DEF ReplayDelete
    <3>. QED  BY <1>2, <2>3, <3>1 DEF ReplayDelete
  <2>. QED  BY <2>1, <2>2, <2>3 DEF Replay, e
<1>4. stage = "replay" /\ stage' = "replay" /\ rotating' = rotating /\ req' = req
  BY DEF Replay, logVars
<1>. QED  BY <1>1, <1>3, <1>4 DEF Replay, Stages, Busy, logVars, boundVars

LEMMA NextTypes == Types /\ Stages /\ [Next]_vars => Types' /\ Stages'
<1> SUFFICES ASSUME Types, Stages, [Next]_vars PROVE Types' /\ Stages'
  OBVIOUS
<1>1. CASE UNCHANGED vars
  BY <1>1 DEF vars, bootVars, logVars, boundVars, history, Types, Stages, Busy
<1>2. CASE Next
  BY <1>2, OperationTypes, RotationTypes, RestartTypes, ReplayTypes DEF Next
<1>. QED  BY <1>1, <1>2

-----------------------------------------------------------------------------
(***************************************************************************)
(* Places: whose they are, while clients take, fill and free them.         *)
(***************************************************************************)
Filling(c) == req[c].phase = "fill"
Replacing(c) == req[c].kind = "update" /\ req[c].phase \in {"fill", "free"}

KindsFit ==
    \A c \in Clients :
        /\ Filling(c) => req[c].kind \in {"create", "update"}
        /\ req[c].phase = "free" => req[c].kind = "update"
        /\ req[c].phase = "unindex" => req[c].kind = "hard"
        /\ req[c].kind \in {"soft", "hard"} => req[c].content = 0

\* The lock on a vertex keeps all but its creation apart.
Apart ==
    \A c, d \in Clients :
        c # d /\ Busy(c) /\ Busy(d) /\ req[c].kind # "create" /\ req[d].kind # "create"
        => req[c].id # req[d].id

\* A place to be filled is allocated, for one client, and in no index entry
\* but one that is about to be removed.
PlacesTaken ==
    \A c \in Clients : Filling(c) =>
        /\ req[c].place \in Places /\ mem[req[c].place].used
        /\ \A d \in Clients : c # d /\ Filling(d) => req[c].place # req[d].place

\* The record an update replaces stays until the update frees it, and when it
\* does no index entry leads there.
OldKept ==
    \A c \in Clients : Replacing(c) =>
        /\ req[c].old \in Places /\ mem[req[c].old].used /\ mem[req[c].old].id = req[c].id
        /\ \A d \in Clients : Filling(d) => req[d].place # req[c].old
        /\ req[c].phase = "free" => index[req[c].id] # req[c].old

EntriesLead ==
    \A id \in Ids : index[id] # 0 /\ ~Unindexing(id) =>
        /\ mem[index[id]].used /\ mem[index[id]].id = id
        /\ \A c \in Clients : Filling(c) => req[c].place # index[id]

\* What was flushed since the blocks stood still is what the cache has.
FlushedAre ==
    /\ stage = "down" => mem = disk /\ toFlush = {}
    /\ stage \in {"opening", "closing"} =>
          \A p \in Places : BlockOf[p] \notin toFlush => disk[p] = mem[p]
    /\ stage = "saving" => disk = mem

SavedLeads ==
    saved # <<>> =>
        /\ stage = "down"
        /\ \A id \in Ids : saved[id] # 0 => disk[saved[id]].used /\ disk[saved[id]].id = id

Owned == KindsFit /\ Apart /\ PlacesTaken /\ OldKept /\ EntriesLead
OnDisk == FlushedAre /\ SavedLeads

-----------------------------------------------------------------------------
(***************************************************************************)
(* The replay: every vertex is as the last entry so far says.              *)
(***************************************************************************)
LastIn(id, i, n) ==
    /\ i \in 1..n /\ wal[i].id = id
    /\ \A j \in 1..n : j > i => wal[j].id # id

DeletesEmpty == \A i \in 1..Len(wal) : wal[i].kind = "delete" => wal[i].content = 0

Applied(n) == \A id \in Ids : \A i \in 1..n : LastIn(id, i, n) => Visible(id) = wal[i].content

ReplayExact ==
    /\ stage = "replay" => Applied(replayed)
    /\ stage = "opening" => Applied(Len(wal))

-----------------------------------------------------------------------------
(***************************************************************************)
(* A vertex whose restarts are Undisturbed has one client at a time and    *)
(* one record, on disk as in the cache.                                    *)
(***************************************************************************)
Shown(m, p) == IF p = 0 \/ m[p].status = "deleted" THEN 0 ELSE m[p].content

OneClient ==
    \A id \in Ids \ mixed : \A c, d \in Clients :
        Busy(c) /\ Busy(d) /\ req[c].id = id /\ req[d].id = id => c = d

\* A rotation lets nobody change the blocks, or is recorded as torn.
RotationQuiet ==
    /\ rotating => \E c \in Clients : req[c].phase = "log"
    /\ rotating /\ ~torn =>
          /\ \A c \in Clients : ~InTheMiddle(c)
          /\ \A p \in Places : BlockOf[p] \notin toFlush => disk[p] = mem[p]
    /\ toFlush # {} => rotating \/ stage \in {"opening", "closing"}

\* A record of the vertex is the one in the index, or the one an update is
\* about to free.
RecordOf(p, id) ==
    /\ mem[p].used /\ mem[p].id = id
    /\ \A c \in Clients : Filling(c) => req[c].place # p

Reached(p, id) ==
    \/ p = index[id] /\ ~Unindexing(id)
    \/ \E c \in Clients : req[c].phase = "free" /\ req[c].id = id /\ req[c].old = p

OneRecord ==
    stage # "down" =>
        \A id \in Ids : Undisturbed(id) => \A p \in Places : RecordOf(p, id) => Reached(p, id)

\* Where the client of the vertex stands.
Progress ==
    \A id \in Ids : Undisturbed(id) =>
        \A c \in Clients : Busy(c) /\ req[c].id = id =>
            /\ req[c].content \in allowed[id]
            /\ Filling(c) => index[id] = req[c].old /\ (req[c].kind = "create" => req[c].old = 0)
            /\ req[c].phase \in {"free", "log"} => Visible(id) = req[c].content

Resting ==
    stage \in {"opening", "up", "closing", "saving"} =>
        \A id \in Ids : Undisturbed(id) /\ (\A c \in Clients : Busy(c) => req[c].id # id)
            => Visible(id) \in allowed[id]

\* What the log says last of the vertex is something a reader may find.
LoggedAllowed ==
    \A id \in Ids : Undisturbed(id) =>
        \A i \in 1..Len(wal) : LastIn(id, i, Len(wal)) => wal[i].content \in allowed[id]

\* The blocks on disk are those of one moment, with one record of the vertex,
\* which tells what a reader may find when the log does not.
OnDiskOnce(id) ==
    /\ \A p \in Places : disk[p].used /\ disk[p].id = id => p = Rebuilt[id]
    /\ (\A i \in 1..Len(wal) : wal[i].id # id) => Shown(disk, Rebuilt[id]) \in allowed[id]
    /\ saved # <<>> => saved[id] = Rebuilt[id]

Recoverable == toFlush \in {{}, Blocks} => \A id \in Ids : Undisturbed(id) => OnDiskOnce(id)

\* Vertices the replay has not come to are as they are on disk.
Untouched ==
    stage = "replay" =>
        \A id \in Ids : Undisturbed(id) /\ (\A i \in 1..replayed : wal[i].id # id) =>
            /\ index[id] = Rebuilt[id]
            /\ index[id] # 0 => mem[index[id]] = disk[index[id]]

Survival ==
    /\ OneClient /\ RotationQuiet /\ OneRecord /\ Progress /\ Resting
    /\ LoggedAllowed /\ Recoverable /\ Untouched

-----------------------------------------------------------------------------
LEMMA InitOwned == Init => Owned /\ OnDisk
<1> SUFFICES ASSUME Init PROVE Owned /\ OnDisk
  OBVIOUS
<1>1. \A c \in Clients : req[c] = NoOp
  BY DEF Init
<1>2. \A id \in Ids : index[id] = 0
  BY DEF Init, NoIndex
<1>3. KindsFit /\ Apart /\ PlacesTaken /\ OldKept
  BY <1>1 DEF KindsFit, Apart, PlacesTaken, OldKept, Busy, Filling, Replacing, NoOp
<1>4. EntriesLead
  BY <1>2 DEF EntriesLead
<1>5. FlushedAre /\ SavedLeads
  BY DEF Init, FlushedAre, SavedLeads
<1>. QED  BY <1>3, <1>4, <1>5 DEF Owned, OnDisk

\* Who is at what, as the lock on a vertex sees it.
LEMMA WhoWorks ==
    ASSUME Types, KindsFit
    PROVE  /\ \A c \in Clients : Filling(c) \/ Replacing(c) \/ InTheMiddle(c) => Busy(c)
           /\ \A c \in Clients : Replacing(c) => Locked(req[c].id)
           /\ \A id \in Ids : Unindexing(id) => Locked(id)
           /\ \A c \in Clients : Filling(c) => req[c].kind = "create" \/ Replacing(c)
BY DEF Types, Request, KindsFit, Filling, Replacing, InTheMiddle, Busy, Locked, Unindexing

LEMMA CreateOwned ==
    ASSUME Types, Owned, NEW c \in Clients, Create(c)
    PROVE  Owned'
<1> USE DEF Owned, Types
<1>1. PICK p \in Free :
         /\ nextId \in Ids
         /\ Begin(c, [phase |-> "fill", kind |-> "create", id |-> nextId, content |-> ops + 1,
                      place |-> p, old |-> 0])
         /\ mem' = [mem EXCEPT ![p].used = TRUE]
  BY DEF Create
<1>. DEFINE r == [phase |-> "fill", kind |-> "create", id |-> nextId, content |-> ops + 1,
                  place |-> p, old |-> 0]
<1>2. p \in Places /\ ~mem[p].used
  BY <1>1 DEF Free
<1>3. /\ ~Busy(c) /\ req' = [req EXCEPT ![c] = r] /\ index' = index
  BY <1>1 DEF Begin
<1>4. /\ mem'[p].used
      /\ \A q \in Places : q # p => mem'[q] = mem[q]
      /\ \A q \in Places : mem[q].used => mem'[q].used /\ mem'[q].id = mem[q].id
  BY <1>1, <1>2 DEF Place
<1>5. /\ req'[c] = r /\ r.phase = "fill" /\ r.kind = "create" /\ r.place = p
      /\ \A d \in Clients : d # c => req'[d] = req[d]
  BY <1>3
<1>. HIDE DEF r
<1>6. KindsFit'
  BY <1>5 DEF KindsFit, Filling
<1>7. Apart'
  BY <1>5 DEF Apart, Busy
<1>8. PlacesTaken'
  BY <1>2, <1>4, <1>5 DEF PlacesTaken, Filling
<1>9. OldKept'
  BY <1>2, <1>3, <1>4, <1>5 DEF OldKept, Filling, Replacing
<1>10. \A id \in Ids : Unindexing(id)' <=> Unindexing(id)
  BY <1>3, <1>5 DEF Unindexing, Busy
<1>11. EntriesLead'
  BY <1>2, <1>3, <1>4, <1>5, <1>10 DEF EntriesLead, Filling
<1>. QED  BY <1>6, <1>7, <1>8, <1>9, <1>11

LEMMA UpdateOwned ==
    ASSUME Types, Owned, NEW c \in Clients, NEW id \in Ids, Update(c, id)
    PROVE  Owned'
<1> USE DEF Owned, Types
<1>1. PICK p \in Free :
         /\ index[id] # 0 /\ ~Locked(id)
         /\ Begin(c, [phase |-> "fill", kind |-> "update", id |-> id, content |-> ops + 1,
                      place |-> p, old |-> index[id]])
         /\ mem' = [mem EXCEPT ![p].used = TRUE]
  BY DEF Update
<1>. DEFINE r == [phase |-> "fill", kind |-> "update", id |-> id, content |-> ops + 1,
                  place |-> p, old |-> index[id]]
<1>2. p \in Places /\ ~mem[p].used
  BY <1>1 DEF Free
<1>3. /\ ~Busy(c) /\ req' = [req EXCEPT ![c] = r] /\ index' = index
  BY <1>1 DEF Begin
<1>4. /\ mem'[p].used
      /\ \A q \in Places : q # p => mem'[q] = mem[q]
      /\ \A q \in Places : mem[q].used => mem'[q].used /\ mem'[q].id = mem[q].id
  BY <1>1, <1>2 DEF Place
<1>5. /\ req'[c] = r /\ r.phase = "fill" /\ r.kind = "update" /\ r.place = p
      /\ r.old = index[id] /\ r.id = id
      /\ \A d \in Clients : d # c => req'[d] = req[d]
  BY <1>3
<1>. HIDE DEF r
<1>6. KindsFit'
  BY <1>5 DEF KindsFit, Filling
<1>7. Apart'
  BY <1>1, <1>5 DEF Apart, Busy, Locked
<1>8. PlacesTaken'
  BY <1>2, <1>4, <1>5 DEF PlacesTaken, Filling
<1>9. index[id] \in Places /\ ~Unindexing(id)
  BY <1>1, WhoWorks
<1>10. OldKept'
  <2>1. /\ mem[index[id]].used /\ mem[index[id]].id = id
        /\ \A d \in Clients : Filling(d) => req[d].place # index[id]
    BY <1>1, <1>9 DEF EntriesLead
  <2>. QED  BY <1>2, <1>3, <1>4, <1>5, <1>9, <2>1 DEF OldKept, Filling, Replacing
<1>11. \A x \in Ids : Unindexing(x)' <=> Unindexing(x)
  BY <1>3, <1>5 DEF Unindexing, Busy
<1>12. EntriesLead'
  BY <1>2, <1>3, <1>4, <1>5, <1>11 DEF EntriesLead, Filling
<1>. QED  BY <1>6, <1>7, <1>8, <1>10, <1>12

LEMMA SoftDeleteOwned ==
    ASSUME Types, Owned, NEW c \in Clients, NEW id \in Ids, SoftDelete(c, id)
    PROVE  Owned'
<1> USE DEF Owned, Types
<1>. DEFINE r == [phase |-> "log", kind |-> "soft", id |-> id, content |-> 0,
                  place |-> 0, old |-> index[id]]
<1>1. /\ index[id] \in Places /\ ~Locked(id) /\ ~Busy(c)
      /\ req' = [req EXCEPT ![c] = r] /\ index' = index
      /\ mem' = [mem EXCEPT ![index[id]].status = "deleted"]
  BY DEF SoftDelete, Begin
<1>2. \A q \in Places : mem'[q].used = mem[q].used /\ mem'[q].id = mem[q].id
  BY <1>1 DEF Place
<1>3. /\ req'[c] = r /\ r.phase = "log" /\ r.kind = "soft" /\ r.id = id /\ r.content = 0
      /\ \A d \in Clients : d # c => req'[d] = req[d]
  BY <1>1
<1>. HIDE DEF r
<1>4. KindsFit'
  BY <1>3 DEF KindsFit, Filling
<1>5. Apart'
  BY <1>1, <1>3 DEF Apart, Busy, Locked
<1>6. PlacesTaken' /\ OldKept'
  BY <1>1, <1>2, <1>3 DEF PlacesTaken, OldKept, Filling, Replacing
<1>7. \A x \in Ids : Unindexing(x)' <=> Unindexing(x)
  BY <1>1, <1>3 DEF Unindexing, Busy
<1>8. EntriesLead'
  BY <1>1, <1>2, <1>3, <1>7 DEF EntriesLead, Filling
<1>. QED  BY <1>4, <1>5, <1>6, <1>8

LEMMA HardDeleteOwned ==
    ASSUME Types, Owned, NEW c \in Clients, NEW id \in Ids, HardDelete(c, id)
    PROVE  Owned'
<1> USE DEF Owned, Types
<1>. DEFINE r == [phase |-> "unindex", kind |-> "hard", id |-> id, content |-> 0,
                  place |-> 0, old |-> index[id]]
<1>1. /\ index[id] \in Places /\ index[id] # 0 /\ ~Locked(id) /\ ~Busy(c)
      /\ req' = [req EXCEPT ![c] = r] /\ index' = index
      /\ mem' = [mem EXCEPT ![index[id]].used = FALSE]
  BY DEF HardDelete, Begin
<1>2. /\ \A q \in Places : mem'[q].id = mem[q].id
      /\ \A q \in Places : q # index[id] => mem'[q] = mem[q]
  BY <1>1 DEF Place
<1>3. /\ req'[c] = r /\ r.phase = "unindex" /\ r.kind = "hard" /\ r.id = id /\ r.content = 0
      /\ \A d \in Clients : d # c => req'[d] = req[d]
  BY <1>1
<1>. HIDE DEF r
<1>4. ~Unindexing(id) /\ \A d \in Clients : Replacing(d) => req[d].id # id
  BY <1>1, WhoWorks DEF Locked, Busy, Replacing
<1>5. /\ mem[index[id]].id = id
      /\ \A d \in Clients : Filling(d) => req[d].place # index[id]
  BY <1>1, <1>4 DEF EntriesLead
<1>6. KindsFit'
  BY <1>3 DEF KindsFit, Filling
<1>7. Apart'
  BY <1>1, <1>3 DEF Apart, Busy, Locked
<1>8. PlacesTaken'
  BY <1>1, <1>2, <1>3, <1>5 DEF PlacesTaken, Filling
<1>9. OldKept'
  BY <1>1, <1>2, <1>3, <1>4, <1>5 DEF OldKept, Filling, Replacing
<1>10. Unindexing(id)' /\ \A x \in Ids : Unindexing(x) => Unindexing(x)'
  BY <1>1, <1>3 DEF Unindexing, Busy
<1>11. EntriesLead'
  BY <1>1, <1>2, <1>3, <1>5, <1>10 DEF EntriesLead, Filling
<1>. QED  BY <1>6, <1>7, <1>8, <1>9, <1>11

LEMMA FillOwned ==
    ASSUME Types, Owned, NEW c \in Clients, Fill(c)
    PROVE  Owned'
<1> USE DEF Owned, Types
<1>. DEFINE p == req[c].place
            id == req[c].id
            next == IF req[c].kind = "create" THEN "log" ELSE "free"
<1>1. /\ Filling(c) /\ Busy(c) /\ id \in Ids /\ req[c].content \in Contents
      /\ p \in Places /\ p # 0 /\ mem[p].used
      /\ \A d \in Clients : c # d /\ Filling(d) => p # req[d].place
      /\ req[c].kind \in {"create", "update"}
  BY Bounds DEF Fill, Filling, Busy, PlacesTaken, KindsFit, Request
<1>2. /\ req' = [req EXCEPT ![c].phase = next]
      /\ index' = [index EXCEPT ![id] = p]
      /\ mem' = [mem EXCEPT ![p] = Record(id, req[c].content)]
  BY DEF Fill, Step
<1>3. /\ mem'[p].used /\ mem'[p].id = id
      /\ \A q \in Places : q # p => mem'[q] = mem[q]
  BY <1>1, <1>2 DEF Record
<1>4. /\ index'[id] = p /\ \A x \in Ids : x # id => index'[x] = index[x]
  BY <1>1, <1>2
<1>5. /\ req'[c].phase = next /\ req'[c].kind = req[c].kind /\ req'[c].id = id
      /\ req'[c].content = req[c].content /\ req'[c].old = req[c].old
      /\ \A d \in Clients : d # c => req'[d] = req[d]
  BY <1>2
<1>6. next \in {"log", "free"} /\ (next = "free" => req[c].kind = "update")
  BY <1>1
<1>. HIDE DEF p, id, next
<1>7. KindsFit' /\ Apart'
  <2>1. KindsFit'
    BY <1>1, <1>5, <1>6 DEF KindsFit, Filling
  <2>2. \A d \in Clients : Busy(d)' => Busy(d) /\ req'[d].kind = req[d].kind /\ req'[d].id = req[d].id
    BY <1>1, <1>5 DEF Busy, id
  <2>3. Apart'
    BY <2>2 DEF Apart
  <2>. QED  BY <2>1, <2>3
<1>8. PlacesTaken'
  BY <1>1, <1>3, <1>5, <1>6 DEF PlacesTaken, Filling
<1>9. \A d \in Clients : Replacing(d) => req[d].old # p
  BY <1>1 DEF OldKept, p
<1>10. OldKept'
  <2>1. ASSUME NEW d \in Clients, Replacing(d)'
        PROVE  /\ Replacing(d) /\ req'[d].old = req[d].old /\ req'[d].id = req[d].id
               /\ mem'[req[d].old] = mem[req[d].old]
               /\ index'[req[d].id] = index[req[d].id] \/ index'[req[d].id] = p
    <3>1. Replacing(d) /\ req'[d].old = req[d].old /\ req'[d].id = req[d].id
      BY <1>1, <1>5, <2>1 DEF Replacing, Filling, id
    <3>2. req[d].old \in Places /\ req[d].old # p
      BY <1>9, <3>1 DEF OldKept
    <3>3. req[d].id \in Ids
      BY DEF Request
    <3>. QED  BY <1>3, <1>4, <3>1, <3>2, <3>3
  <2>2. ASSUME NEW d \in Clients, Replacing(d)', NEW e \in Clients, Filling(e)'
        PROVE  req'[e].place # req'[d].old
    BY <1>5, <1>6, <2>1, <2>2 DEF OldKept, Filling
  <2>3. ASSUME NEW d \in Clients, Replacing(d)', req'[d].phase = "free"
        PROVE  index'[req'[d].id] # req'[d].old
    <3>1. CASE d = c
      BY <1>4, <1>5, <1>9, <2>1, <2>3, <3>1
    <3>2. CASE d # c
      BY <1>5, <1>9, <2>1, <2>3, <3>2 DEF OldKept
    <3>. QED  BY <3>1, <3>2
  <2>. QED  BY <2>1, <2>2, <2>3 DEF OldKept
<1>11. \A x \in Ids : Unindexing(x)' <=> Unindexing(x)
  BY <1>1, <1>5, <1>6 DEF Unindexing, Filling
<1>12. EntriesLead'
  <2>1. ASSUME NEW x \in Ids, index'[x] # 0, ~Unindexing(x), x # id
        PROVE  /\ mem'[index'[x]].used /\ mem'[index'[x]].id = x
               /\ \A d \in Clients : Filling(d)' => req'[d].place # index'[x]
    <3>1. index'[x] = index[x] /\ index[x] # p /\ index[x] \in Places
      BY <1>1, <1>4, <2>1 DEF EntriesLead, p
    <3>. QED  BY <1>3, <1>5, <1>6, <2>1, <3>1 DEF EntriesLead, Filling
  <2>2. \A d \in Clients : Filling(d)' => req'[d].place # p
    BY <1>1, <1>5, <1>6 DEF Filling
  <2>. QED  BY <1>3, <1>4, <1>11, <2>1, <2>2 DEF EntriesLead
<1>. QED  BY <1>7, <1>8, <1>10, <1>12

LEMMA FreeOldOwned ==
    ASSUME Types, Owned, NEW c \in Clients, FreeOld(c)
    PROVE  Owned'
<1> USE DEF Owned, Types
<1>. DEFINE o == req[c].old
            id == req[c].id
<1>1. /\ req[c].phase = "free" /\ req[c].kind = "update" /\ Busy(c) /\ Replacing(c)
      /\ id \in Ids /\ o \in Places /\ mem[o].id = id /\ index[id] # o
      /\ \A d \in Clients : Filling(d) => req[d].place # o
  BY DEF FreeOld, Busy, KindsFit, OldKept, Replacing, Request
<1>2. /\ req' = [req EXCEPT ![c].phase = "log"] /\ index' = index
      /\ mem' = [mem EXCEPT ![o].used = FALSE]
  BY DEF FreeOld, Step
<1>3. \A q \in Places : q # o => mem'[q] = mem[q]
  BY <1>2
<1>4. /\ req'[c].phase = "log" /\ req'[c].kind = req[c].kind /\ req'[c].id = id
      /\ req'[c].content = req[c].content
      /\ \A d \in Clients : d # c => req'[d] = req[d]
  BY <1>2
<1>. HIDE DEF o, id
<1>5. KindsFit' /\ Apart'
  BY <1>1, <1>4 DEF KindsFit, Apart, Filling, Busy, id
<1>6. PlacesTaken'
  BY <1>1, <1>3, <1>4 DEF PlacesTaken, Filling
<1>7. OldKept'
  <2>1. ASSUME NEW d \in Clients, Replacing(d)' PROVE d # c /\ Replacing(d) /\ req[d].old # o
    <3>1. d # c /\ Replacing(d) /\ Busy(d)
      BY <1>4, <2>1, WhoWorks DEF Replacing
    <3>2. req[d].id # id
      BY <1>1, <3>1 DEF Apart, Replacing, id
    <3>. QED  BY <1>1, <3>1, <3>2 DEF OldKept
  <2>. QED  BY <1>2, <1>3, <1>4, <2>1 DEF OldKept, Filling
<1>8. \A x \in Ids : Unindexing(x)' <=> Unindexing(x)
  BY <1>1, <1>4 DEF Unindexing
<1>9. EntriesLead'
  <2>1. ASSUME NEW x \in Ids, index[x] # 0, ~Unindexing(x)
        PROVE  /\ mem'[index[x]].used /\ mem'[index[x]].id = x
               /\ \A d \in Clients : Filling(d)' => req'[d].place # index[x]
    <3>1. index[x] \in Places /\ index[x] # o
      BY <1>1, <2>1 DEF EntriesLead
    <3>. QED  BY <1>3, <1>4, <2>1, <3>1 DEF EntriesLead, Filling
  <2>. QED  BY <1>2, <1>8, <2>1 DEF EntriesLead
<1>. QED  BY <1>5, <1>6, <1>7, <1>9

LEMMA UnindexOwned ==
    ASSUME Types, Owned, NEW c \in Clients, Unindex(c)
    PROVE  Owned'
<1> USE DEF Owned, Types
<1>. DEFINE id == req[c].id
<1>1. req[c].phase = "unindex" /\ req[c].kind = "hard" /\ Busy(c) /\ id \in Ids
  BY DEF Unindex, KindsFit, Busy, Request
<1>2. req' = [req EXCEPT ![c].phase = "log"] /\ index' = [index EXCEPT ![id] = 0] /\ mem' = mem
  BY DEF Unindex, Step
<1>3. /\ req'[c].phase = "log" /\ req'[c].kind = req[c].kind /\ req'[c].id = id
      /\ req'[c].content = req[c].content
      /\ \A d \in Clients : d # c => req'[d] = req[d]
  BY <1>2
<1>4. index'[id] = 0 /\ \A x \in Ids : x # id => index'[x] = index[x]
  BY <1>1, <1>2
<1>. HIDE DEF id
<1>5. KindsFit' /\ Apart'
  BY <1>1, <1>3 DEF KindsFit, Apart, Filling, Busy, id
<1>6. PlacesTaken'
  BY <1>2, <1>3 DEF PlacesTaken, Filling
<1>7. OldKept'
  BY <1>2, <1>3, <1>4, Bounds DEF OldKept, Filling, Replacing
<1>8. \A x \in Ids : x # id => (Unindexing(x)' <=> Unindexing(x))
  BY <1>1, <1>3 DEF Unindexing, id
<1>9. EntriesLead'
  BY <1>2, <1>3, <1>4, <1>8 DEF EntriesLead, Filling
<1>. QED  BY <1>5, <1>6, <1>7, <1>9

LEMMA LogOwned ==
    ASSUME Types, Owned, NEW c \in Clients, Log(c)
    PROVE  Owned'
<1> USE DEF Owned, Types
<1>1. req[c].phase = "log" /\ mem' = mem /\ index' = index
  BY DEF Log
<1>2. req'[c] = NoOp /\ \A d \in Clients : d # c => req'[d] = req[d]
  BY DEF Log
<1>3. KindsFit' /\ Apart' /\ PlacesTaken' /\ OldKept'
  <2>1. KindsFit'
    BY <1>1, <1>2 DEF KindsFit, Filling, NoOp
  <2>2. Apart'
    BY <1>1, <1>2 DEF Apart, Busy, NoOp
  <2>3. PlacesTaken'
    BY <1>1, <1>2 DEF PlacesTaken, Filling, NoOp
  <2>4. OldKept'
    BY <1>1, <1>2 DEF OldKept, Filling, Replacing, NoOp
  <2>. QED  BY <2>1, <2>2, <2>3, <2>4
<1>4. \A x \in Ids : Unindexing(x)' <=> Unindexing(x)
  BY <1>1, <1>2 DEF Unindexing, NoOp
<1>5. EntriesLead'
  BY <1>1, <1>2, <1>4 DEF EntriesLead, Filling, NoOp
<1>. QED  BY <1>3, <1>5

\* Steps that leave blocks, index and clients alone.
LEMMA StillOwned ==
    ASSUME Owned, mem' = mem, index' = index, req' = req
    PROVE  Owned'
<1>1. KindsFit' /\ Apart'
  BY DEF Owned, KindsFit, Apart, Filling, Busy
<1>2. PlacesTaken' /\ OldKept'
  BY DEF Owned, PlacesTaken, OldKept, Filling, Replacing
<1>3. EntriesLead'
  BY DEF Owned, EntriesLead, Filling, Unindexing
<1>. QED  BY <1>1, <1>2, <1>3 DEF Owned

\* While the graph is not up, only the index matters.
LEMMA IdleOwned ==
    ASSUME \A c \in Clients : ~Busy(c)', KindsFit',
           \A id \in Ids : index'[id] # 0 => mem'[index'[id]].used /\ mem'[index'[id]].id = id
    PROVE  Owned'
BY DEF Owned, Apart, PlacesTaken, OldKept, EntriesLead, Busy, Filling, Replacing

LEMMA ForgetOwned ==
    ASSUME Types, Forget
    PROVE  Owned'
<1>1. \A c \in Clients : req'[c] = NoOp
  BY DEF Forget
<1>2. KindsFit' /\ \A c \in Clients : ~Busy(c)'
  BY <1>1 DEF KindsFit, Busy, Filling, NoOp
<1>3. \A id \in Ids : index'[id] = 0
  BY DEF Forget, NoIndex
<1>. QED  BY <1>2, <1>3, IdleOwned

LEMMA OpenOwned ==
    ASSUME Types, Stages, Owned, OnDisk, Open
    PROVE  Owned'
<1>1. mem' = disk /\ req' = req /\ stage = "down"
  BY DEF Open, OnDisk, FlushedAre
<1>2. KindsFit' /\ \A c \in Clients : ~Busy(c)'
  BY <1>1 DEF Owned, KindsFit, Stages, Busy, Filling
<1>3. ASSUME NEW id \in Ids, index'[id] # 0 PROVE disk[index'[id]].used /\ disk[index'[id]].id = id
  <2>1. CASE saved # <<>>
    BY <1>3, <2>1 DEF Open, OnDisk, SavedLeads
  <2>2. CASE saved = <<>>
    BY <1>3, <2>2, RebuiltIsRecord DEF Open, Types
  <2>. QED  BY <2>1, <2>2
<1>. QED  BY <1>1, <1>2, <1>3, IdleOwned

\* While nobody is busy every entry of the index leads to its record.
LEMMA IdleEntries ==
    ASSUME Types, Stages, Owned, stage # "up"
    PROVE  \A id \in Ids : index[id] # 0 =>
              index[id] \in Places /\ mem[index[id]].used /\ mem[index[id]].id = id
<1>1. \A id \in Ids : ~Unindexing(id)
  BY DEF Stages, Unindexing, Busy
<1>. QED  BY <1>1, Lookup DEF Owned, EntriesLead

LEMMA ReplayOwned ==
    ASSUME Types, Stages, Owned, Replay
    PROVE  Owned'
<1>. DEFINE e == wal[replayed + 1]
<1>1. e \in Entry /\ e.id \in Ids /\ stage = "replay"
  BY NextEntry DEF Replay, Entry
<1>. HIDE DEF e
<1>2. req' = req
  BY DEF Replay
<1>3. KindsFit' /\ \A c \in Clients : ~Busy(c)'
  BY <1>1, <1>2 DEF Owned, KindsFit, Stages, Busy, Filling
<1>4. \A id \in Ids : index[id] # 0 =>
          index[id] \in Places /\ mem[index[id]].used /\ mem[index[id]].id = id
  BY <1>1, IdleEntries
<1>5. \A id \in Ids : index'[id] # 0 => mem'[index'[id]].used /\ mem'[index'[id]].id = id
  <2>1. CASE ReplayCreate(e)
    BY <1>1, <1>4, <2>1 DEF ReplayCreate, Free, Record, Types
  <2>2. CASE ReplayUpdate(e)
    <3>1. PICK p \in Free :
            /\ index[e.id] # 0
            /\ mem' = [[mem EXCEPT ![p] = Record(e.id, e.content)] EXCEPT ![index[e.id]].used = FALSE]
            /\ index' = [index EXCEPT ![e.id] = p]
      BY <2>2 DEF ReplayUpdate
    <3>2. p \in Places /\ ~mem[p].used /\ p # index[e.id]
      BY <1>1, <1>4, <3>1 DEF Free
    <3>3. /\ mem'[p] = Record(e.id, e.content)
          /\ \A q \in Places : q # p /\ q # index[e.id] => mem'[q] = mem[q]
      BY <3>1, <3>2 DEF Types
    <3>4. index'[e.id] = p /\ \A x \in Ids : x # e.id => index'[x] = index[x]
      BY <1>1, <3>1 DEF Types
    <3>5. mem'[p].used /\ mem'[p].id = e.id
      BY <3>3 DEF Record
    <3>6. ASSUME NEW x \in Ids, x # e.id, index[x] # 0
          PROVE  mem'[index[x]].used /\ mem'[index[x]].id = x
      <4>1. index[x] \in Places /\ index[x] # p /\ index[x] # index[e.id]
        BY <1>1, <1>4, <3>1, <3>2, <3>6
      <4>. QED  BY <1>4, <3>3, <3>6, <4>1
    <3>. QED  BY <3>4, <3>5, <3>6
  <2>3. CASE ReplayDelete(e)
    <3>1. \A q \in Places : q # index[e.id] => mem'[q] = mem[q]
      BY <2>3 DEF ReplayDelete, Types
    <3>2. index'[e.id] = 0 /\ \A x \in Ids : x # e.id => index'[x] = index[x]
      BY <1>1, <2>3 DEF ReplayDelete, Types
    <3>. QED  BY <1>1, <1>4, <3>1, <3>2
  <2>. QED  BY <2>1, <2>2, <2>3 DEF Replay, e
<1>. QED  BY <1>3, <1>5, IdleOwned

LEMMA NextOwned ==
    ASSUME Types, Stages, Owned, OnDisk, [Next]_vars
    PROVE  Owned'
<1>1. CASE \E c \in Clients : Operation(c)
  BY <1>1, CreateOwned, UpdateOwned, SoftDeleteOwned, HardDeleteOwned, FillOwned, FreeOldOwned,
     UnindexOwned, LogOwned DEF Operation
<1>2. CASE Rotate \/ Trim \/ \E b \in Blocks : FlushBlock(b) \/ Evict(b)
  BY <1>2, StillOwned DEF Rotate, Trim, FlushBlock, Evict
<1>3. CASE Crash \/ SaveIndex
  BY <1>3, ForgetOwned DEF Crash, SaveIndex
<1>4. CASE Open
  BY <1>4, OpenOwned
<1>5. CASE Replay
  BY <1>5, ReplayOwned
<1>6. CASE ReplayFails \/ ReplayEnds \/ Close \/ Renew
  BY <1>6, StillOwned DEF ReplayFails, ReplayEnds, Close, Renew
<1>7. CASE UNCHANGED vars
  BY <1>7, StillOwned DEF vars
<1>. QED  BY <1>1, <1>2, <1>3, <1>4, <1>5, <1>6, <1>7 DEF Next

-----------------------------------------------------------------------------
LEMMA FlushBrings ==
    ASSUME Types, NEW b \in Blocks, disk' = Written(b), mem' = mem, toFlush' = toFlush \ {b},
           \A p \in Places : BlockOf[p] \notin toFlush => disk[p] = mem[p]
    PROVE  \A p \in Places : BlockOf[p] \notin toFlush' => disk'[p] = mem'[p]
BY DEF Written

LEMMA AllFlushed ==
    ASSUME Types, toFlush = {}, \A p \in Places : BlockOf[p] \notin toFlush => disk[p] = mem[p]
    PROVE  disk = mem
BY DEF Types

LEMMA NextOnDisk ==
    ASSUME Types, Stages, Owned, OnDisk, [Next]_vars
    PROVE  OnDisk'
<1> USE DEF OnDisk, FlushedAre, SavedLeads
<1>1. CASE \E c \in Clients : Operation(c)
  <2>1. PICK c \in Clients : Operation(c)
    BY <1>1
  <2>2. \/ \E r : Begin(c, r)
        \/ \E phase : Busy(c) /\ Step(c, phase)
        \/ Log(c)
    BY <2>1 DEF Operation, Create, Update, SoftDelete, HardDelete, Fill, FreeOld, Unindex, Busy
  <2>3. /\ disk' = disk /\ saved' = saved /\ stage' = stage /\ stage = "up"
    BY <2>2 DEF Begin, Step, Log, Stages, Busy, bootVars
  <2>. QED  BY <2>3
<1>2. CASE Rotate
  BY <1>2 DEF Rotate, bootVars
<1>3. CASE Trim
  BY <1>3 DEF Trim, bootVars
<1>4. ASSUME NEW b \in Blocks, FlushBlock(b) PROVE OnDisk'
  <2>1. /\ stage' = stage /\ saved' = saved /\ mem' = mem /\ disk' = Written(b)
        /\ toFlush' = toFlush \ {b} /\ stage # "down"
    BY <1>4 DEF FlushBlock, bootVars
  <2>2. stage = "saving" => disk' = mem
    BY <2>1 DEF Written, Types
  <2>3. stage \in {"opening", "closing"} =>
           \A p \in Places : BlockOf[p] \notin toFlush' => disk'[p] = mem'[p]
    BY <2>1, FlushBrings
  <2>. QED  BY <2>1, <2>2, <2>3
<1>5. ASSUME NEW b \in Blocks, Evict(b) PROVE OnDisk'
  BY <1>5 DEF Evict, bootVars
<1>6. CASE Crash
  BY <1>6 DEF Crash, Forget
<1>7. CASE Open \/ Replay \/ ReplayFails
  BY <1>7 DEF Open, Replay, ReplayFails
<1>8. CASE ReplayEnds \/ Close
  <2>1. toFlush' = Blocks /\ \A p \in Places : BlockOf[p] \in Blocks
    BY <1>8, GraphRecoveryAssumption DEF ReplayEnds, Close
  <2>. QED  BY <1>8, <2>1 DEF ReplayEnds, Close
<1>9. CASE Renew
  <2>1. disk = mem
    BY <1>9, AllFlushed DEF Renew
  <2>. QED  BY <1>9, <2>1 DEF Renew
<1>10. CASE SaveIndex
  <2>1. \A id \in Ids : index[id] # 0 => disk[index[id]].used /\ disk[index[id]].id = id
    BY <1>10, IdleEntries DEF SaveIndex
  <2>. QED  BY <1>10, <2>1 DEF SaveIndex, Forget
<1>11. CASE UNCHANGED vars
  BY <1>11 DEF vars, bootVars, logVars
<1>. QED  BY <1>1, <1>2, <1>3, <1>4, <1>5, <1>6, <1>7, <1>8, <1>9, <1>10, <1>11 DEF Next

IInv == Types /\ Stages /\ Owned /\ OnDisk

LEMMA InitIInv == Init => IInv
BY InitTypes, InitOwned DEF IInv

LEMMA NextIInv == IInv /\ [Next]_vars => IInv'
BY NextTypes, NextOwned, NextOnDisk DEF IInv

LEMMA IInvTyped == IInv => TypeOK
<1> SUFFICES ASSUME Types PROVE TypeOK
  BY DEF IInv
<1>1. \A c \in Clients : req[c] \in Request
  BY DEF Types
<1>. QED  BY <1>1 DEF Types, TypeOK, Request

\* Blocks, index, log and requests have their types.
THEOREM GraphTypesHold == Spec => []TypeOK
BY InitIInv, NextIInv, IInvTyped, PTL DEF Spec

\* Whatever was evicted or flushed before a crash, an entry of the index leads to an allocated
\* record of its vertex.
THEOREM IndexStaysSound == Spec => []IndexSound
<1>1. IInv => IndexSound
  BY DEF IInv, Owned, EntriesLead, IndexSound
<1>. QED  BY <1>1, InitIInv, NextIInv, PTL DEF Spec

-----------------------------------------------------------------------------
(***************************************************************************)
(* The replay applies the entries in order, each to its own vertex.        *)
(***************************************************************************)
LEMMA ReplayEffect ==
    ASSUME IInv, DeletesEmpty, Replay
    PROVE  LET e == wal[replayed + 1]
           IN  /\ e.id \in Ids /\ \A x \in Ids : x = e.id => Visible(x)' = e.content
               /\ \A x \in Ids : x # e.id =>
                     /\ index'[x] = index[x]
                     /\ index[x] # 0 => mem'[index[x]] = mem[index[x]]
               /\ \A q \in Places : mem'[q].used /\ ~mem[q].used =>
                     q = index'[e.id] /\ mem'[q].id = e.id
               /\ \A q \in Places : mem'[q].used /\ mem[q].used =>
                     mem'[q].id = mem[q].id /\ (q = index[e.id] => e.kind = "create")
               /\ e.kind = "create" /\ index[e.id] # 0 => torn'
               /\ torn => torn'
<1> USE DEF IInv
<1>. DEFINE e == wal[replayed + 1]
<1>1. /\ e \in Entry /\ e.id \in Ids /\ stage = "replay" /\ replayed + 1 \in 1..Len(wal)
      /\ mem \in [Places -> Place] /\ index \in [Ids -> Places \cup {0}]
  BY NextEntry DEF Replay, Entry, Types
<1>2. \A id \in Ids : index[id] # 0 =>
          index[id] \in Places /\ mem[index[id]].used /\ mem[index[id]].id = id
  BY <1>1, IdleEntries
<1>3. e.kind = "delete" => e.content = 0
  BY <1>1 DEF DeletesEmpty
<1>. HIDE DEF e
<1>4. CASE e.kind = "create" /\ ReplayCreate(e)
  <2>1. PICK p \in Free :
          mem' = [mem EXCEPT ![p] = Record(e.id, e.content)] /\ index' = [index EXCEPT ![e.id] = p]
    BY <1>4 DEF ReplayCreate
  <2>2. p \in Places /\ ~mem[p].used /\ p # 0
    BY <2>1, Bounds DEF Free
  <2>3. /\ mem'[p] = Record(e.id, e.content) /\ \A q \in Places : q # p => mem'[q] = mem[q]
        /\ index'[e.id] = p /\ \A x \in Ids : x # e.id => index'[x] = index[x]
    BY <1>1, <2>1, <2>2
  <2>4. \A x \in Ids : x = e.id => Visible(x)' = e.content
    BY <2>2, <2>3 DEF Visible, Record
  <2>5. \A x \in Ids : x # e.id /\ index[x] # 0 => mem'[index[x]] = mem[index[x]]
    BY <1>2, <2>2, <2>3
  <2>6. /\ \A q \in Places : mem'[q].used /\ ~mem[q].used => q = index'[e.id] /\ mem'[q].id = e.id
        /\ \A q \in Places : mem[q].used => mem'[q] = mem[q]
    BY <2>2, <2>3 DEF Record
  <2>7. torn' = (torn \/ index[e.id] # 0)
    BY <1>4 DEF ReplayCreate
  <2>. QED  BY <1>1, <1>4, <2>7, <2>3, <2>4, <2>5, <2>6 DEF e
<1>5. CASE e.kind = "update" /\ ReplayUpdate(e)
  <2>1. PICK p \in Free :
          /\ index[e.id] # 0
          /\ mem' = [[mem EXCEPT ![p] = Record(e.id, e.content)] EXCEPT ![index[e.id]].used = FALSE]
          /\ index' = [index EXCEPT ![e.id] = p]
    BY <1>5 DEF ReplayUpdate
  <2>2. p \in Places /\ ~mem[p].used /\ p # 0 /\ p # index[e.id] /\ index[e.id] \in Places
    BY <1>1, <1>2, <2>1, Bounds DEF Free
  <2>3. /\ mem'[p] = Record(e.id, e.content)
        /\ \A q \in Places : q # p /\ q # index[e.id] => mem'[q] = mem[q]
        /\ ~mem'[index[e.id]].used
        /\ index'[e.id] = p /\ \A x \in Ids : x # e.id => index'[x] = index[x]
    BY <1>1, <2>1, <2>2 DEF Place
  <2>4. \A x \in Ids : x = e.id => Visible(x)' = e.content
    BY <2>2, <2>3 DEF Visible, Record
  <2>5. ASSUME NEW x \in Ids, x # e.id, index[x] # 0 PROVE mem'[index[x]] = mem[index[x]]
    <3>1. index[x] \in Places /\ index[x] # p /\ index[x] # index[e.id]
      BY <1>1, <1>2, <2>1, <2>2, <2>5
    <3>. QED  BY <2>3, <3>1
  <2>6. /\ \A q \in Places : mem'[q].used /\ ~mem[q].used => q = index'[e.id] /\ mem'[q].id = e.id
        /\ \A q \in Places : mem'[q].used /\ mem[q].used => mem'[q] = mem[q] /\ q # index[e.id]
    BY <2>2, <2>3 DEF Record
  <2>7. e.kind = "update" /\ torn' = torn
    BY <1>5 DEF ReplayUpdate
  <2>. QED  BY <1>1, <2>3, <2>4, <2>5, <2>6, <2>7 DEF e
<1>6. CASE e.kind = "delete" /\ ReplayDelete(e)
  <2>1. /\ \A q \in Places : q # index[e.id] => mem'[q] = mem[q]
        /\ index[e.id] # 0 => ~mem'[index[e.id]].used
        /\ \A q \in Places : mem'[q].used => mem[q].used
    BY <1>1, <1>2, <1>6, Bounds DEF ReplayDelete, Place
  <2>2. index'[e.id] = 0 /\ \A x \in Ids : x # e.id => index'[x] = index[x]
    BY <1>1, <1>6 DEF ReplayDelete
  <2>3. \A x \in Ids : x = e.id => Visible(x)' = e.content
    BY <1>3, <1>6, <2>2 DEF Visible
  <2>4. ASSUME NEW x \in Ids, x # e.id, index[x] # 0 PROVE mem'[index[x]] = mem[index[x]]
    <3>1. index[x] \in Places /\ index[x] # index[e.id]
      BY <1>1, <1>2, <2>4
    <3>. QED  BY <2>1, <3>1
  <2>5. \A q \in Places : mem'[q].used => mem'[q] = mem[q] /\ q # index[e.id]
    BY <2>1, Bounds
  <2>6. e.kind = "delete" /\ torn' = torn
    BY <1>6 DEF ReplayDelete
  <2>. QED  BY <1>1, <2>1, <2>2, <2>3, <2>4, <2>5, <2>6 DEF e
<1>. QED  BY <1>4, <1>5, <1>6 DEF Replay, e

LEMMA ReplayStepExact ==
    ASSUME IInv, DeletesEmpty, ReplayExact, Replay
    PROVE  ReplayExact'
<1>. DEFINE e == wal[replayed + 1]
<1>1. /\ stage = "replay" /\ stage' = "replay" /\ wal' = wal /\ replayed' = replayed + 1
      /\ replayed \in Nat
  BY DEF Replay, logVars, IInv, Types
<1>2. ASSUME NEW id \in Ids, NEW i \in 1..replayed', LastIn(id, i, replayed)'
      PROVE  Visible(id)' = wal[i].content
  <2>1. i \in 1..(replayed + 1) /\ wal[i].id = id /\ \A j \in 1..(replayed + 1) : j > i => wal[j].id # id
    BY <1>1, <1>2 DEF LastIn
  <2>2. CASE i = replayed + 1
    BY <2>1, <2>2, ReplayEffect
  <2>3. CASE i # replayed + 1
    <3>1. i \in 1..replayed /\ LastIn(id, i, replayed) /\ wal[replayed + 1].id # id
      BY <1>1, <2>1, <2>3 DEF LastIn
    <3>2. Visible(id) = wal[i].content
      BY <1>1, <3>1 DEF ReplayExact, Applied
    <3>3. Visible(id)' = Visible(id)
      BY <3>1, ReplayEffect DEF Visible
    <3>. QED  BY <3>2, <3>3
  <2>. QED  BY <2>2, <2>3
<1>. QED  BY <1>1, <1>2 DEF ReplayExact, Applied

\* Steps that leave the log and the vertices alone, and open nothing.
LEMMA StillExact ==
    ASSUME ReplayExact, wal' = wal, mem' = mem, index' = index, replayed' = replayed, stage' = stage
    PROVE  ReplayExact'
BY DEF ReplayExact, Applied, LastIn, Visible

LEMMA NextExact ==
    ASSUME IInv, DeletesEmpty, ReplayExact, [Next]_vars
    PROVE  DeletesEmpty' /\ ReplayExact'
<1> USE DEF IInv
<1>1. CASE \E c \in Clients : Log(c)
  <2>1. PICK c \in Clients : Log(c)
    BY <1>1
  <2>2. /\ wal \in Seq(Entry) /\ wal' = Append(wal, Logged(req[c])) /\ req[c] \in Request
        /\ Logged(req[c]) \in Entry
    BY <2>1, Values DEF Log, Types
  <2>3. Logged(req[c]).kind = "delete" => Logged(req[c]).content = 0
    BY <2>2 DEF Logged, Owned, KindsFit, Request, Kinds
  <2>4. DeletesEmpty'
    BY <2>2, <2>3 DEF DeletesEmpty
  <2>5. stage' = "up"
    BY <2>1 DEF Log, Stages, Busy, bootVars
  <2>. QED  BY <2>4, <2>5 DEF ReplayExact
<1>2. CASE \E c \in Clients : Operation(c) /\ ~Log(c)
  <2>1. PICK c \in Clients : Operation(c) /\ ~Log(c)
    BY <1>2
  <2>2. CASE Create(c) \/ \E id \in Ids : Update(c, id) \/ SoftDelete(c, id) \/ HardDelete(c, id)
    BY <2>2 DEF Create, Update, SoftDelete, HardDelete, Begin, bootVars, logVars, DeletesEmpty, ReplayExact
  <2>3. CASE Fill(c) \/ FreeOld(c) \/ Unindex(c)
    <3>1. stage = "up" /\ stage' = stage /\ wal' = wal
      BY <2>3 DEF Fill, FreeOld, Unindex, Step, Stages, Busy, bootVars, logVars
    <3>. QED  BY <3>1 DEF DeletesEmpty, ReplayExact
  <2>. QED  BY <2>1, <2>2, <2>3 DEF Operation
<1>3. CASE Trim \/ Renew
  <2>1. Len(wal') = 0 /\ stage' \notin {"replay", "opening"}
    BY <1>3 DEF Trim, Renew, Stages, bootVars
  <2>. QED  BY <2>1 DEF DeletesEmpty, ReplayExact
<1>4. CASE Rotate \/ \E b \in Blocks : FlushBlock(b) \/ Evict(b)
  BY <1>4, StillExact DEF Rotate, FlushBlock, Evict, DeletesEmpty, bootVars, logVars
<1>5. CASE Crash \/ SaveIndex \/ ReplayFails \/ Close
  BY <1>5 DEF Crash, SaveIndex, ReplayFails, Close, Forget, DeletesEmpty, ReplayExact, logVars
<1>6. CASE Open
  <2>1. stage' = "replay" /\ replayed' = 0 /\ wal' = wal
    BY <1>6 DEF Open, logVars
  <2>. QED  BY <2>1 DEF DeletesEmpty, ReplayExact, Applied
<1>7. CASE Replay
  BY <1>7, ReplayStepExact DEF Replay, DeletesEmpty, logVars
<1>8. CASE ReplayEnds
  <2>1. /\ stage = "replay" /\ replayed = Len(wal) /\ stage' = "opening"
        /\ wal' = wal /\ mem' = mem /\ index' = index
    BY <1>8 DEF ReplayEnds
  <2>2. Applied(Len(wal))
    BY <2>1 DEF ReplayExact
  <2>3. Applied(Len(wal))'
    BY <2>1, <2>2 DEF Applied, LastIn, Visible
  <2>. QED  BY <2>1, <2>3 DEF DeletesEmpty, ReplayExact
<1>9. CASE UNCHANGED vars
  BY <1>9, StillExact DEF vars, bootVars, logVars, DeletesEmpty
<1>. QED  BY <1>1, <1>2, <1>3, <1>4, <1>5, <1>6, <1>7, <1>8, <1>9 DEF Next

LIInv == IInv /\ DeletesEmpty /\ ReplayExact

LEMMA InitLIInv == Init => LIInv
<1>1. Init => DeletesEmpty /\ ReplayExact
  BY DEF Init, DeletesEmpty, ReplayExact
<1>. QED  BY <1>1, InitIInv DEF LIInv

LEMMA NextLIInv == LIInv /\ [Next]_vars => LIInv'
BY NextIInv, NextExact DEF LIInv

\* The last entry of a vertex in the log, if there is one.
LEMMA LastEntryIsLast ==
    ASSUME Types, NEW id \in Ids, NEW k \in 1..Len(wal), wal[k].id = id
    PROVE  LastIn(id, LastEntry(id), Len(wal)) /\ LastEntry(id) # 0
<1>. DEFINE S == {i \in DOMAIN wal : wal[i].id = id}
            n == Len(wal)
<1>1. n \in Nat /\ DOMAIN wal = 1..n /\ k \in S
  BY DEF Types
<1>2. {0} \cup S \in SUBSET (0..n)
  BY <1>1
<1>3. LastEntry(id) \in {0} \cup S /\ \A i \in {0} \cup S : i <= LastEntry(id)
  BY <1>1, <1>2, Maximum DEF LastEntry
<1>4. LastEntry(id) # 0 /\ LastEntry(id) \in S
  BY <1>1, <1>3
<1>. QED  BY <1>1, <1>3, <1>4 DEF LastIn

LEMMA ExactSurvives == LIInv => LoggedSurvives
<1> SUFFICES ASSUME LIInv, stage = "opening", NEW id \in Ids, LastEntry(id) # 0
             PROVE  Visible(id) = wal[LastEntry(id)].content
  BY DEF LoggedSurvives
<1>1. Types /\ Applied(Len(wal))
  BY DEF LIInv, IInv, ReplayExact
<1>2. LastEntry(id) \in {i \in DOMAIN wal : wal[i].id = id}
  <2>1. {0} \cup {i \in DOMAIN wal : wal[i].id = id} \in SUBSET (0..Len(wal)) /\ Len(wal) \in Nat
    BY <1>1 DEF Types
  <2>. QED  BY <2>1, Maximum DEF LastEntry
<1>3. LastEntry(id) \in 1..Len(wal) /\ wal[LastEntry(id)].id = id
  BY <1>1, <1>2 DEF Types
<1>. QED  BY <1>1, <1>3, LastEntryIsLast DEF Applied

\* After the replay every vertex the log mentions is as its last entry says.
THEOREM LoggedSurvivesAlways == Spec => []LoggedSurvives
BY InitLIInv, NextLIInv, ExactSurvives, PTL DEF Spec

-----------------------------------------------------------------------------
(***************************************************************************)
(* The beginning of an operation, whichever it is.                         *)
(***************************************************************************)
Frame ==
    /\ disk' = disk /\ saved' = saved /\ stage' = stage /\ replayed' = replayed
    /\ rotating' = rotating /\ toFlush' = toFlush /\ evictions' = evictions

Started(c, r) ==
    /\ Frame /\ wal' = wal /\ index' = index /\ stage = "up" /\ ~Busy(c)
    /\ req' = [req EXCEPT ![c] = r] /\ torn' = (torn \/ rotating)
    /\ allowed' = [allowed EXCEPT ![r.id] = @ \cup {r.content}]
    /\ mixed \subseteq mixed'
    /\ r.id \notin mixed' => /\ \A d \in Clients : Busy(d) => req[d].id # r.id
                             /\ r.kind = "create" => index[r.id] = 0
    /\ r.phase \in {"fill", "unindex", "log"}
    /\ r.phase = "fill" => /\ r.place \in Places /\ (r.old = index[r.id] \/ r.kind = "create")
                           /\ r.kind = "create" => r.old = 0
    /\ r.phase = "unindex" => index[r.id] \in Places /\ ~mem'[index[r.id]].used
    /\ r.phase = "log" => /\ index[r.id] \in Places /\ r.content = 0 /\ ~Locked(r.id)
                          /\ mem'[index[r.id]].status = "deleted"
    /\ \A p \in Places :
          /\ mem'[p].id = mem[p].id /\ mem'[p].content = mem[p].content
          /\ mem'[p].status = mem[p].status \/ (r.phase = "log" /\ p = index[r.id])
          /\ mem'[p].used => mem[p].used \/ (r.phase = "fill" /\ p = r.place)

\* What Begin notes about the vertex.
LEMMA BeginNotes ==
    ASSUME Types, NEW c \in Clients, NEW r \in Request, Begin(c, r),
           r.kind = "create" \/ ~Locked(r.id)
    PROVE  /\ Frame /\ wal' = wal /\ index' = index /\ stage = "up" /\ ~Busy(c)
           /\ req' = [req EXCEPT ![c] = r] /\ torn' = (torn \/ rotating)
           /\ allowed' = [allowed EXCEPT ![r.id] = @ \cup {r.content}]
           /\ mixed \subseteq mixed'
           /\ r.id \notin mixed' => /\ \A d \in Clients : Busy(d) => req[d].id # r.id
                                    /\ r.kind = "create" => index[r.id] = 0
<1>1. r.id \notin mixed' => ~Creating(r.id) /\ ~Locked(r.id) /\ (r.kind = "create" => index[r.id] = 0)
  BY DEF Begin, InUse
<1>2. ~Creating(r.id) /\ ~Locked(r.id) => \A d \in Clients : Busy(d) => req[d].id # r.id
  BY DEF Creating, Locked
<1>. QED  BY <1>1, <1>2 DEF Begin, Frame, bootVars, logVars

LEMMA OperationStarts ==
    ASSUME Types, NEW c \in Clients,
           Create(c) \/ \E id \in Ids : Update(c, id) \/ SoftDelete(c, id) \/ HardDelete(c, id)
    PROVE  \E r \in Request : Started(c, r)
<1> USE DEF Types
<1>1. CASE Create(c)
  <2>. DEFINE R(p) == [phase |-> "fill", kind |-> "create", id |-> nextId, content |-> ops + 1,
                       place |-> p, old |-> 0]
  <2>1. PICK p \in Free :
           nextId \in Ids /\ Begin(c, R(p)) /\ mem' = [mem EXCEPT ![p].used = TRUE]
    BY <1>1 DEF Create
  <2>2. p \in Places /\ R(p) \in Request
    BY <2>1, Bounds DEF Free, Begin, Contents, Request, Kinds
  <2>. DEFINE r == R(p)
  <2>3. /\ r.phase = "fill" /\ r.kind = "create" /\ r.old = 0 /\ r.place = p
        /\ r \in Request /\ Begin(c, r)
    BY <2>1, <2>2
  <2>4. \A q \in Places :
          /\ mem'[q].id = mem[q].id /\ mem'[q].content = mem[q].content
          /\ mem'[q].status = mem[q].status
          /\ mem'[q].used => mem[q].used \/ q = p
    BY <2>1, <2>2 DEF Place
  <2>. HIDE DEF r
  <2>5. Started(c, r)
    BY <2>2, <2>3, <2>4, BeginNotes DEF Started
  <2>. QED  BY <2>3, <2>5
<1>2. ASSUME NEW id \in Ids, Update(c, id) PROVE \E r \in Request : Started(c, r)
  <2>. DEFINE R(p) == [phase |-> "fill", kind |-> "update", id |-> id, content |-> ops + 1,
                       place |-> p, old |-> index[id]]
  <2>1. PICK p \in Free :
           ~Locked(id) /\ Begin(c, R(p)) /\ mem' = [mem EXCEPT ![p].used = TRUE]
    BY <1>2 DEF Update
  <2>2. p \in Places /\ R(p) \in Request
    BY <2>1, Bounds DEF Free, Begin, Contents, Request, Kinds
  <2>. DEFINE r == R(p)
  <2>3. /\ r.phase = "fill" /\ r.kind = "update" /\ r.old = index[id] /\ r.place = p /\ r.id = id
        /\ r \in Request /\ Begin(c, r)
    BY <2>1, <2>2
  <2>4. \A q \in Places :
          /\ mem'[q].id = mem[q].id /\ mem'[q].content = mem[q].content
          /\ mem'[q].status = mem[q].status
          /\ mem'[q].used => mem[q].used \/ q = p
    BY <2>1, <2>2 DEF Place
  <2>. HIDE DEF r
  <2>5. Started(c, r)
    BY <2>1, <2>2, <2>3, <2>4, BeginNotes DEF Started
  <2>. QED  BY <2>3, <2>5
<1>3. ASSUME NEW id \in Ids, SoftDelete(c, id) PROVE \E r \in Request : Started(c, r)
  <2>. DEFINE r == [phase |-> "log", kind |-> "soft", id |-> id, content |-> 0,
                    place |-> 0, old |-> index[id]]
  <2>1. /\ ~Locked(id) /\ Begin(c, r) /\ index[id] \in Places
        /\ mem' = [mem EXCEPT ![index[id]].status = "deleted"]
    BY <1>3 DEF SoftDelete
  <2>2. r.phase = "log" /\ r.kind = "soft" /\ r.id = id /\ r.content = 0 /\ r \in Request
    BY Bounds DEF Request, Kinds
  <2>3. \A q \in Places :
          /\ mem'[q].id = mem[q].id /\ mem'[q].content = mem[q].content
          /\ mem'[q].status = mem[q].status \/ q = index[id]
          /\ mem'[q].used => mem[q].used
    BY <2>1 DEF Place
  <2>4. mem'[index[id]].status = "deleted"
    BY <2>1 DEF Place
  <2>. HIDE DEF r
  <2>5. Started(c, r)
    BY <2>1, <2>2, <2>3, <2>4, BeginNotes DEF Started
  <2>. QED  BY <2>2, <2>5
<1>4. ASSUME NEW id \in Ids, HardDelete(c, id) PROVE \E r \in Request : Started(c, r)
  <2>. DEFINE r == [phase |-> "unindex", kind |-> "hard", id |-> id, content |-> 0,
                    place |-> 0, old |-> index[id]]
  <2>1. /\ ~Locked(id) /\ Begin(c, r) /\ index[id] \in Places
        /\ mem' = [mem EXCEPT ![index[id]].used = FALSE]
    BY <1>4 DEF HardDelete
  <2>2. r.phase = "unindex" /\ r.kind = "hard" /\ r.id = id /\ r \in Request
    BY Bounds DEF Request, Kinds
  <2>3. /\ ~mem'[index[id]].used
        /\ \A q \in Places :
          /\ mem'[q].id = mem[q].id /\ mem'[q].content = mem[q].content
          /\ mem'[q].status = mem[q].status
          /\ mem'[q].used => mem[q].used
    BY <2>1 DEF Place
  <2>. HIDE DEF r
  <2>4. Started(c, r)
    BY <2>1, <2>2, <2>3, BeginNotes DEF Started
  <2>. QED  BY <2>2, <2>4
<1>. QED  BY <1>1, <1>2, <1>3, <1>4

\* A later step of an operation.
Moved(c, phase) ==
    /\ Frame /\ wal' = wal /\ allowed' = allowed /\ mixed' = mixed /\ torn' = (torn \/ rotating)
    /\ stage = "up" /\ Busy(c)
    /\ req'[c].phase = phase /\ req'[c].id = req[c].id /\ req'[c].kind = req[c].kind
    /\ req'[c].content = req[c].content /\ req'[c].old = req[c].old
    /\ \A d \in Clients : d # c => req'[d] = req[d]

LEMMA StepMoves ==
    ASSUME Types, Stages, NEW c \in Clients, Busy(c), NEW phase, Step(c, phase)
    PROVE  Moved(c, phase)
<1>1. req' = [req EXCEPT ![c].phase = phase] /\ req \in [Clients -> Request]
  BY DEF Step, Types
<1>2. /\ req'[c].phase = phase /\ req'[c].id = req[c].id /\ req'[c].kind = req[c].kind
      /\ req'[c].content = req[c].content /\ req'[c].old = req[c].old
      /\ \A d \in Clients : d # c => req'[d] = req[d]
  BY <1>1 DEF Request
<1>. QED  BY <1>2 DEF Step, Moved, Frame, bootVars, logVars, boundVars, Stages

LEMMA FillMoves ==
    ASSUME Types, Stages, Owned, NEW c \in Clients, Fill(c)
    PROVE  /\ Moved(c, IF req[c].kind = "create" THEN "log" ELSE "free") /\ Filling(c)
           /\ req[c].id \in Ids /\ req[c].place \in Places /\ req[c].place # 0
           /\ index' = [index EXCEPT ![req[c].id] = req[c].place]
           /\ mem'[req[c].place] = Record(req[c].id, req[c].content)
           /\ \A p \in Places : p # req[c].place => mem'[p] = mem[p]
<1>1. Filling(c) /\ Busy(c) /\ req[c].place \in Places /\ req[c].place # 0
  BY Bounds DEF Fill, Filling, Busy, Owned, PlacesTaken
<1>2. Moved(c, IF req[c].kind = "create" THEN "log" ELSE "free")
  BY <1>1, StepMoves DEF Fill
<1>. QED  BY <1>1, <1>2 DEF Fill, Types, Request

LEMMA FreeOldMoves ==
    ASSUME Types, Stages, Owned, NEW c \in Clients, FreeOld(c)
    PROVE  /\ Moved(c, "log") /\ req[c].phase = "free" /\ index' = index
           /\ req[c].id \in Ids /\ req[c].old \in Places
           /\ ~mem'[req[c].old].used
           /\ \A p \in Places : mem'[p].content = mem[p].content /\ mem'[p].status = mem[p].status
           /\ \A p \in Places : p # req[c].old => mem'[p] = mem[p]
<1>1. /\ req[c].phase = "free" /\ Busy(c) /\ req[c].old \in Places /\ req[c].id \in Ids
  BY DEF FreeOld, Busy, Owned, KindsFit, OldKept, Replacing, Types, Request
<1>2. Moved(c, "log")
  BY <1>1, StepMoves DEF FreeOld
<1>. QED  BY <1>1, <1>2 DEF FreeOld, Types, Place

LEMMA UnindexMoves ==
    ASSUME Types, Stages, Owned, NEW c \in Clients, Unindex(c)
    PROVE  /\ Moved(c, "log") /\ req[c].phase = "unindex" /\ mem' = mem
           /\ req[c].id \in Ids /\ req[c].content = 0
           /\ index' = [index EXCEPT ![req[c].id] = 0]
<1>1. req[c].phase = "unindex" /\ Busy(c) /\ req[c].id \in Ids /\ req[c].content = 0
  BY DEF Unindex, Busy, Owned, KindsFit, Types, Request
<1>2. Moved(c, "log")
  BY <1>1, StepMoves DEF Unindex
<1>. QED  BY <1>1, <1>2 DEF Unindex

LEMMA LogEnds ==
    ASSUME Types, Stages, NEW c \in Clients, Log(c)
    PROVE  /\ Frame /\ mem' = mem /\ index' = index /\ mixed' = mixed /\ torn' = torn
           /\ stage = "up" /\ Busy(c) /\ req[c].phase = "log" /\ ~rotating
           /\ req[c].id \in Ids /\ ~Busy(c)'
           /\ \A d \in Clients : d # c => req'[d] = req[d]
           /\ req'[c].phase = "idle"
           /\ allowed' = [allowed EXCEPT ![req[c].id] = {req[c].content}]
           /\ wal' = Append(wal, Logged(req[c]))
           /\ Logged(req[c]).id = req[c].id /\ Logged(req[c]).content = req[c].content
BY DEF Log, Frame, bootVars, boundVars, Busy, NoOp, Types, Request, Stages, Logged

\* Once disturbed, always disturbed.
LEMMA StaysDisturbed ==
    ASSUME IInv, [Next]_vars, NEW id \in Ids, Undisturbed(id)'
    PROVE  Undisturbed(id)
<1> USE DEF IInv
<1>1. mixed \subseteq mixed' /\ (~torn' => ~torn) /\ (evictions' = 0 => evictions = 0)
  <2>1. ASSUME NEW c \in Clients, Operation(c)
        PROVE  mixed \subseteq mixed' /\ (~torn' => ~torn) /\ evictions' = evictions
    <3>1. CASE \E r \in Request : Started(c, r)
      BY <3>1 DEF Started, Frame
    <3>2. CASE \E phase : Moved(c, phase)
      BY <3>2 DEF Moved, Frame
    <3>3. CASE Log(c)
      BY <3>3, LogEnds DEF Frame
    <3>. QED  BY <2>1, <3>1, <3>2, <3>3, OperationStarts, FillMoves, FreeOldMoves, UnindexMoves
              DEF Operation
  <2>2. CASE Rotate
    BY <2>2 DEF Rotate, boundVars
  <2>3. CASE Trim \/ \E b \in Blocks : FlushBlock(b)
    BY <2>3 DEF Trim, FlushBlock, boundVars, history
  <2>4. CASE \E b \in Blocks : Evict(b)
    BY <2>4 DEF Evict, history, Types
  <2>5. CASE Crash
    BY <2>5 DEF Crash
  <2>6. CASE Open \/ ReplayFails \/ ReplayEnds \/ SaveIndex
    BY <2>6 DEF Open, ReplayFails, ReplayEnds, SaveIndex, boundVars, history
  <2>7. CASE Close \/ Renew
    BY <2>7 DEF Close, Renew, boundVars, history
  <2>8. CASE Replay
    <3>1. \A e : ReplayCreate(e) \/ ReplayUpdate(e) \/ ReplayDelete(e) => (~torn' => ~torn)
      BY DEF ReplayCreate, ReplayUpdate, ReplayDelete
    <3>. QED  BY <2>8, <3>1 DEF Replay, boundVars
  <2>9. CASE UNCHANGED vars
    BY <2>9 DEF vars, boundVars, history
  <2>. QED  BY <2>1, <2>2, <2>3, <2>4, <2>5, <2>6, <2>7, <2>8, <2>9 DEF Next
<1>. QED  BY <1>1 DEF Undisturbed

-----------------------------------------------------------------------------
LEMMA OneClientStep ==
    ASSUME IInv, OneClient, [Next]_vars
    PROVE  OneClient'
<1> USE DEF IInv
<1>1. ASSUME NEW c \in Clients, Operation(c) PROVE OneClient'
  <2>1. ASSUME NEW r \in Request, Started(c, r) PROVE OneClient'
    BY <2>1 DEF OneClient, Started, Busy, Types
  <2>2. ASSUME NEW phase, phase # "idle", Moved(c, phase) PROVE OneClient'
    BY <2>2 DEF OneClient, Moved, Busy
  <2>3. CASE Log(c)
    BY <2>3, LogEnds DEF OneClient, Busy
  <2>4. CASE Fill(c) \/ FreeOld(c) \/ Unindex(c)
    <3>1. (IF req[c].kind = "create" THEN "log" ELSE "free") # "idle"
      OBVIOUS
    <3>. QED  BY <2>2, <2>4, <3>1, FillMoves, FreeOldMoves, UnindexMoves
  <2>. QED  BY <1>1, <2>1, <2>3, <2>4, OperationStarts DEF Operation
<1>2. CASE req' = req /\ mixed' = mixed
  BY <1>2 DEF OneClient, Busy
<1>3. CASE Crash \/ SaveIndex
  BY <1>3 DEF Crash, SaveIndex, Forget, OneClient, Busy, NoOp
<1>4. CASE \E b \in Blocks : FlushBlock(b) \/ Evict(b)
  BY <1>2, <1>4 DEF FlushBlock, Evict, history
<1>5. CASE Rotate \/ Trim
  BY <1>2, <1>5 DEF Rotate, Trim, history
<1>6. CASE Open \/ Replay \/ ReplayFails \/ ReplayEnds \/ Close \/ Renew
  BY <1>2, <1>6 DEF Open, Replay, ReplayFails, ReplayEnds, Close, Renew, history
<1>7. CASE UNCHANGED vars
  BY <1>2, <1>7 DEF vars, history
<1>. QED  BY <1>1, <1>3, <1>4, <1>5, <1>6, <1>7 DEF Next

LEMMA RotationQuietStep ==
    ASSUME IInv, RotationQuiet, [Next]_vars
    PROVE  RotationQuiet'
<1> USE DEF IInv
<1>1. ASSUME NEW c \in Clients, Operation(c) PROVE RotationQuiet'
  <2>1. ASSUME NEW r \in Request, Started(c, r) PROVE RotationQuiet'
    BY <2>1 DEF RotationQuiet, Started, Frame, Busy, Types
  <2>2. ASSUME NEW phase, Moved(c, phase), req[c].phase # "log" PROVE RotationQuiet'
    BY <2>2 DEF RotationQuiet, Moved, Frame
  <2>3. CASE Log(c)
    BY <2>3, LogEnds DEF RotationQuiet, Frame
  <2>4. CASE Fill(c) \/ FreeOld(c) \/ Unindex(c)
    BY <2>2, <2>4, FillMoves, FreeOldMoves, UnindexMoves DEF Filling
  <2>. QED  BY <1>1, <2>1, <2>3, <2>4, OperationStarts DEF Operation
<1>2. CASE Rotate
  <2>1. \A p \in Places : BlockOf[p] \in Blocks
    BY GraphRecoveryAssumption
  <2>. QED  BY <1>2, <2>1 DEF Rotate, RotationQuiet, InTheMiddle
<1>3. CASE Trim
  BY <1>3 DEF Trim, RotationQuiet
<1>4. ASSUME NEW b \in Blocks, FlushBlock(b) PROVE RotationQuiet'
  <2>1. /\ req' = req /\ rotating' = rotating /\ torn' = torn /\ stage' = stage
        /\ mem' = mem /\ disk' = Written(b) /\ toFlush' = toFlush \ {b} /\ toFlush # {}
    BY <1>4 DEF FlushBlock, history, bootVars
  <2>2. rotating /\ ~torn => \A p \in Places : BlockOf[p] \notin toFlush' => disk'[p] = mem'[p]
    BY <2>1, FlushBrings DEF RotationQuiet
  <2>. QED  BY <2>1, <2>2 DEF RotationQuiet, InTheMiddle
<1>5. ASSUME NEW b \in Blocks, Evict(b) PROVE RotationQuiet'
  <2>1. /\ req' = req /\ rotating' = rotating /\ torn' = torn /\ stage' = stage
        /\ mem' = mem /\ disk' = Written(b) /\ toFlush' = toFlush
    BY <1>5 DEF Evict, history, bootVars, logVars
  <2>2. \A p \in Places : disk[p] = mem[p] => disk'[p] = mem'[p]
    BY <2>1 DEF Written
  <2>. QED  BY <2>1, <2>2 DEF RotationQuiet, InTheMiddle
<1>6. CASE Crash \/ SaveIndex
  BY <1>6 DEF Crash, SaveIndex, Forget, RotationQuiet
<1>7. CASE Open \/ Replay \/ ReplayFails \/ ReplayEnds
  BY <1>7 DEF Open, Replay, ReplayFails, ReplayEnds, RotationQuiet, Stages, logVars
<1>8. CASE Close
  <2>1. ~rotating
    BY <1>8 DEF Close, RotationQuiet, Busy
  <2>. QED  BY <1>8, <2>1 DEF Close, RotationQuiet
<1>9. CASE Renew
  <2>1. ~rotating
    BY <1>9 DEF Renew, RotationQuiet, Stages, Busy
  <2>. QED  BY <1>9, <2>1 DEF Renew, RotationQuiet
<1>10. CASE UNCHANGED vars
  BY <1>10 DEF vars, bootVars, logVars, history, RotationQuiet, InTheMiddle
<1>. QED  BY <1>1, <1>2, <1>3, <1>4, <1>5, <1>6, <1>7, <1>8, <1>9, <1>10 DEF Next

-----------------------------------------------------------------------------
LEMMA OneRecordStarts ==
    ASSUME IInv, OneRecord, NEW c \in Clients, NEW r \in Request, Started(c, r),
           \A id \in Ids : Undisturbed(id)' => Undisturbed(id)
    PROVE  OneRecord'
<1> SUFFICES ASSUME NEW id \in Ids, Undisturbed(id)', NEW p \in Places, RecordOf(p, id)'
             PROVE  Reached(p, id)'
  BY DEF OneRecord
<1>1. /\ stage = "up" /\ Undisturbed(id) /\ index' = index /\ ~Busy(c)
      /\ req'[c] = r /\ \A d \in Clients : d # c => req'[d] = req[d]
  BY DEF Started, IInv, Types
<1>2. ~(r.phase = "fill" /\ p = r.place) /\ mem'[p].used /\ mem'[p].id = id
  BY <1>1 DEF RecordOf, Filling
<1>3. mem[p].used /\ mem[p].id = id
  BY <1>2 DEF Started
<1>4. RecordOf(p, id)
  BY <1>1, <1>3 DEF RecordOf, Filling, Busy
<1>5. Reached(p, id)
  BY <1>1, <1>4 DEF OneRecord
<1>6. CASE p = index[id] /\ ~Unindexing(id)
  <2>1. ~(r.phase = "unindex" /\ r.id = id)
    BY <1>2, <1>6 DEF Started
  <2>. QED  BY <1>1, <1>6, <2>1 DEF Reached, Unindexing
<1>7. CASE \E d \in Clients : req[d].phase = "free" /\ req[d].id = id /\ req[d].old = p
  BY <1>1, <1>7 DEF Reached, Busy
<1>. QED  BY <1>5, <1>6, <1>7 DEF Reached

LEMMA OneRecordFill ==
    ASSUME IInv, OneClient, OneRecord, Progress, NEW c \in Clients, Fill(c),
           \A id \in Ids : Undisturbed(id)' => Undisturbed(id)
    PROVE  OneRecord'
<1> USE DEF IInv
<1> SUFFICES ASSUME NEW id \in Ids, Undisturbed(id)', NEW p \in Places, RecordOf(p, id)'
             PROVE  Reached(p, id)'
  BY DEF OneRecord
<1>1. /\ Undisturbed(id) /\ Filling(c) /\ Busy(c) /\ stage = "up"
      /\ \A d \in Clients : d # c => req'[d] = req[d]
      /\ req'[c].phase = (IF req[c].kind = "create" THEN "log" ELSE "free")
      /\ req'[c].id = req[c].id /\ req'[c].old = req[c].old
  BY FillMoves DEF Moved
<1>2. mem'[p].used /\ mem'[p].id = id
  BY DEF RecordOf
<1>3. CASE p = req[c].place
  <2>1. id = req[c].id /\ index'[id] = p
    <3>1. /\ mem'[p] = Record(req[c].id, req[c].content)
          /\ index' = [index EXCEPT ![req[c].id] = p] /\ req[c].id \in Ids
      BY <1>3, FillMoves
    <3>. QED  BY <1>2, <3>1 DEF Record, Types
  <2>2. ~Unindexing(id)'
    BY <1>1, <2>1 DEF OneClient, Undisturbed, Unindexing, Busy, Filling
  <2>. QED  BY <2>1, <2>2 DEF Reached
<1>4. CASE p # req[c].place
  <2>1. mem'[p] = mem[p] /\ RecordOf(p, id)
    BY <1>1, <1>2, <1>4, FillMoves DEF RecordOf, Filling
  <2>2. Reached(p, id)
    BY <1>1, <2>1 DEF OneRecord
  <2>3. CASE \E d \in Clients : req[d].phase = "free" /\ req[d].id = id /\ req[d].old = p
    BY <1>1, <2>3 DEF Reached, Filling
  <2>4. CASE p = index[id] /\ ~Unindexing(id) /\ id # req[c].id
    <3>1. index'[id] = index[id]
      BY <2>4, FillMoves DEF Types
    <3>2. ~Unindexing(id)'
      BY <1>1, <2>4 DEF Unindexing
    <3>. QED  BY <2>4, <3>1, <3>2 DEF Reached
  <2>5. CASE p = index[id] /\ id = req[c].id
    <3>1. p = req[c].old /\ req[c].kind # "create"
      BY <1>1, <2>5, Bounds DEF Progress
    <3>. QED  BY <1>1, <2>5, <3>1 DEF Reached
  <2>. QED  BY <2>2, <2>3, <2>4, <2>5 DEF Reached
<1>. QED  BY <1>3, <1>4

LEMMA OneRecordFreeOld ==
    ASSUME IInv, OneRecord, NEW c \in Clients, FreeOld(c),
           \A id \in Ids : Undisturbed(id)' => Undisturbed(id)
    PROVE  OneRecord'
<1> USE DEF IInv
<1> SUFFICES ASSUME NEW id \in Ids, Undisturbed(id)', NEW p \in Places, RecordOf(p, id)'
             PROVE  Reached(p, id)'
  BY DEF OneRecord
<1>1. /\ Undisturbed(id) /\ req[c].phase = "free" /\ stage = "up" /\ index' = index
      /\ \A d \in Clients : d # c => req'[d] = req[d]
      /\ req'[c].phase = "log"
  BY FreeOldMoves DEF Moved
<1>2. mem'[p].used /\ mem'[p].id = id /\ p # req[c].old /\ mem'[p] = mem[p]
  BY FreeOldMoves DEF RecordOf
<1>3. RecordOf(p, id)
  BY <1>1, <1>2 DEF RecordOf, Filling
<1>4. Reached(p, id)
  BY <1>1, <1>3 DEF OneRecord
<1>. QED  BY <1>1, <1>2, <1>4 DEF Reached, Unindexing

LEMMA OneRecordEnds ==
    ASSUME IInv, OneRecord, NEW c \in Clients, Unindex(c) \/ Log(c),
           \A id \in Ids : Undisturbed(id)' => Undisturbed(id)
    PROVE  OneRecord'
<1> USE DEF IInv
<1> SUFFICES ASSUME NEW id \in Ids, Undisturbed(id)', NEW p \in Places, RecordOf(p, id)'
             PROVE  Reached(p, id)'
  BY DEF OneRecord
<1>1. /\ Undisturbed(id) /\ req[c].phase \in {"unindex", "log"} /\ stage = "up" /\ mem' = mem
      /\ \A d \in Clients : d # c => req'[d] = req[d]
      /\ req'[c].phase \in {"log", "idle"}
      /\ \A x \in Ids : index'[x] = index[x] \/ (req[c].phase = "unindex" /\ req[c].id = x)
  BY UnindexMoves, LogEnds DEF Moved, Types
<1>2. RecordOf(p, id)
  BY <1>1 DEF RecordOf, Filling
<1>3. Reached(p, id)
  BY <1>1, <1>2 DEF OneRecord
<1>4. ~Unindexing(id) => index'[id] = index[id] /\ ~Unindexing(id)'
  BY <1>1 DEF Unindexing
<1>. QED  BY <1>1, <1>3, <1>4 DEF Reached

LEMMA OneRecordReplay ==
    ASSUME LIInv, OneRecord, Replay,
           \A id \in Ids : Undisturbed(id)' => Undisturbed(id)
    PROVE  OneRecord'
<1> USE DEF LIInv
<1>. DEFINE e == wal[replayed + 1]
<1>1. stage = "replay" /\ stage' = stage /\ req' = req /\ \A c \in Clients : ~Busy(c)
  BY DEF Replay, IInv, Stages
<1>2. \A c \in Clients : ~Filling(c) /\ req[c].phase # "free" /\ req[c].phase # "unindex"
  BY <1>1 DEF Busy, Filling
<1> SUFFICES ASSUME NEW id \in Ids, Undisturbed(id)', NEW p \in Places, RecordOf(p, id)'
             PROVE  p = index'[id]
  BY <1>1, <1>2 DEF OneRecord, Reached, Unindexing
<1>3. mem'[p].used /\ mem'[p].id = id
  BY DEF RecordOf
<1>4. CASE ~mem[p].used
  BY <1>3, <1>4, ReplayEffect
<1>5. CASE mem[p].used
  <2>1. mem[p].id = id /\ (p = index[e.id] => e.kind = "create")
    BY <1>3, <1>5, ReplayEffect
  <2>2. p = index[id] /\ p # 0
    BY <1>1, <1>2, <1>5, <2>1, Bounds DEF OneRecord, RecordOf, Reached
  <2>3. CASE id = e.id
    BY <2>1, <2>2, <2>3, ReplayEffect DEF Undisturbed
  <2>4. CASE id # e.id
    BY <2>2, <2>4, ReplayEffect
  <2>. QED  BY <2>3, <2>4
<1>. QED  BY <1>4, <1>5

LEMMA OneRecordOpen ==
    ASSUME IInv, Recoverable, Open
    PROVE  OneRecord'
<1> USE DEF IInv
<1>1. mem' = disk /\ toFlush = {} /\ req' = req /\ stage = "down"
  BY DEF Open, OnDisk, FlushedAre
<1>2. \A c \in Clients : ~Busy(c)
  BY <1>1 DEF Stages
<1> SUFFICES ASSUME NEW id \in Ids, Undisturbed(id)', NEW p \in Places, RecordOf(p, id)'
             PROVE  Reached(p, id)'
  BY DEF OneRecord
<1>3. Undisturbed(id)
  BY DEF Open, Undisturbed, boundVars, history
<1>4. p = Rebuilt[id]
  BY <1>1, <1>3 DEF Recoverable, OnDiskOnce, RecordOf
<1>5. index'[id] = Rebuilt[id]
  BY <1>1, <1>3 DEF Recoverable, OnDiskOnce, Open
<1>. QED  BY <1>1, <1>2, <1>4, <1>5 DEF Reached, Unindexing, Busy

LEMMA OneRecordStep ==
    ASSUME LIInv, Survival, [Next]_vars
    PROVE  OneRecord'
<1> USE DEF LIInv, Survival
<1>1. \A id \in Ids : Undisturbed(id)' => Undisturbed(id)
  BY StaysDisturbed
<1>2. ASSUME NEW c \in Clients, Operation(c) PROVE OneRecord'
  BY <1>1, <1>2, OperationStarts, OneRecordStarts, OneRecordFill, OneRecordFreeOld, OneRecordEnds
     DEF Operation, IInv
<1>3. CASE mem' = mem /\ index' = index /\ req' = req /\ (stage' # "down" => stage # "down")
  BY <1>1, <1>3 DEF OneRecord, RecordOf, Reached, Unindexing, Filling
<1>4. CASE Rotate \/ Trim \/ \E b \in Blocks : FlushBlock(b) \/ Evict(b)
  BY <1>3, <1>4 DEF Rotate, Trim, FlushBlock, Evict, bootVars
<1>5. CASE Crash \/ SaveIndex
  BY <1>5 DEF Crash, SaveIndex, Forget, OneRecord
<1>6. CASE ReplayFails \/ ReplayEnds \/ Close \/ Renew
  BY <1>3, <1>6 DEF ReplayFails, ReplayEnds, Close, Renew
<1>7. CASE UNCHANGED vars
  BY <1>3, <1>7 DEF vars, bootVars
<1>. QED  BY <1>1, <1>2, <1>4, <1>5, <1>6, <1>7, OneRecordReplay, OneRecordOpen DEF Next

-----------------------------------------------------------------------------
(***************************************************************************)
(* What a reader finds of a vertex is changed by its own clients only.     *)
(***************************************************************************)
LEMMA SameVisible ==
    ASSUME NEW id \in Ids, index'[id] = index[id],
           index[id] # 0 => /\ mem'[index[id]].status = mem[index[id]].status
                            /\ mem'[index[id]].content = mem[index[id]].content
    PROVE  Visible(id)' = Visible(id)
BY DEF Visible

LEMMA StartedVisible ==
    ASSUME IInv, NEW c \in Clients, NEW r \in Request, Started(c, r),
           NEW id \in Ids, id # r.id, ~Unindexing(id)
    PROVE  Visible(id)' = Visible(id)
<1> USE DEF IInv
<1>1. ASSUME index[id] # 0, r.phase = "log" PROVE index[id] # index[r.id]
  <2>1. r.id \in Ids /\ index[r.id] # 0 /\ ~Unindexing(r.id)
    BY <1>1, WhoWorks, Bounds DEF Started, Owned, Request
  <2>. QED  BY <1>1, <2>1 DEF Owned, EntriesLead
<1>2. index[id] # 0 => index[id] \in Places
  BY Lookup
<1>. QED  BY <1>1, <1>2, SameVisible DEF Started

LEMMA FillVisible ==
    ASSUME IInv, NEW c \in Clients, Fill(c),
           NEW id \in Ids, id # req[c].id, ~Unindexing(id)
    PROVE  Visible(id)' = Visible(id)
<1> USE DEF IInv
<1>1. index[id] # 0 => index[id] \in Places /\ index[id] # req[c].place
  BY Lookup, FillMoves DEF Owned, EntriesLead
<1>2. index'[id] = index[id]
  BY FillMoves DEF Types
<1>. QED  BY <1>1, <1>2, FillMoves, SameVisible

LEMMA FillShows ==
    ASSUME IInv, NEW c \in Clients, Fill(c), NEW id \in Ids, id = req[c].id
    PROVE  Visible(id)' = req[c].content
<1>1. index'[id] = req[c].place /\ req[c].place # 0
  BY FillMoves DEF IInv, Types
<1>2. mem'[req[c].place] = Record(id, req[c].content)
  BY FillMoves DEF IInv
<1>3. mem'[index'[id]].status = "normal" /\ mem'[index'[id]].content = req[c].content
  BY <1>1, <1>2 DEF Record
<1>. QED  BY <1>1, <1>3 DEF Visible

LEMMA FreeOldVisible ==
    ASSUME IInv, NEW c \in Clients, FreeOld(c), NEW id \in Ids
    PROVE  Visible(id)' = Visible(id)
<1>1. index' = index /\ (index[id] # 0 => index[id] \in Places)
  BY Lookup, FreeOldMoves DEF IInv
<1>. QED  BY <1>1, FreeOldMoves, SameVisible DEF IInv

LEMMA UnindexVisible ==
    ASSUME IInv, NEW c \in Clients, Unindex(c), NEW id \in Ids
    PROVE  Visible(id)' = IF id = req[c].id THEN 0 ELSE Visible(id)
BY UnindexMoves DEF IInv, Types, Visible

LEMMA ProgressStarts ==
    ASSUME IInv, OneClient, Progress, NEW c \in Clients, NEW r \in Request, Started(c, r),
           \A id \in Ids : Undisturbed(id)' => Undisturbed(id)
    PROVE  Progress'
<1> USE DEF IInv
<1>1. /\ index' = index /\ ~Busy(c)
      /\ req'[c] = r /\ \A d \in Clients : d # c => req'[d] = req[d]
      /\ r.id \in Ids /\ allowed' = [allowed EXCEPT ![r.id] = @ \cup {r.content}]
      /\ allowed \in [Ids -> SUBSET Contents]
  BY DEF Started, Types, Request
<1> SUFFICES ASSUME NEW id \in Ids, Undisturbed(id)',
                    NEW d \in Clients, Busy(d)', req'[d].id = id
             PROVE  /\ req'[d].content \in allowed'[id]
                    /\ Filling(d)' => /\ index'[id] = req'[d].old
                                      /\ req'[d].kind = "create" => req'[d].old = 0
                    /\ req'[d].phase \in {"free", "log"} => Visible(id)' = req'[d].content
  BY DEF Progress
<1>2. CASE d = c
  <2>1. id = r.id /\ r.id \notin mixed' /\ r.content \in allowed'[id]
    BY <1>1, <1>2 DEF Undisturbed
  <2>2. Filling(d)' => index'[id] = r.old /\ (r.kind = "create" => r.old = 0)
    BY <1>1, <1>2, <2>1 DEF Started, Filling
  <2>3. r.phase \in {"free", "log"} => Visible(id)' = r.content
    BY <1>1, <2>1 DEF Started, Visible
  <2>. QED  BY <1>1, <1>2, <2>1, <2>2, <2>3
<1>3. CASE d # c
  <2>1. /\ req'[d] = req[d] /\ Busy(d) /\ req[d].id = id /\ Undisturbed(id)
    BY <1>1, <1>3 DEF Busy
  <2>2. id # r.id /\ allowed'[id] = allowed[id]
    <3>1. r.id # id
      BY <2>1 DEF Started, Undisturbed
    <3>. QED  BY <1>1, <3>1
  <2>3. req[d].phase \in {"free", "log"} => ~Unindexing(id)
    BY <2>1 DEF Unindexing, OneClient, Undisturbed, Busy
  <2>4. req[d].phase \in {"free", "log"} => Visible(id)' = Visible(id)
    BY <2>2, <2>3, StartedVisible
  <2>. QED  BY <1>1, <2>1, <2>2, <2>4 DEF Progress, Filling
<1>. QED  BY <1>2, <1>3

\* The steps of a client c on its vertex, as the other clients see them.
LEMMA ProgressMoves ==
    ASSUME IInv, OneClient, Progress, NEW c \in Clients, NEW phase, Moved(c, phase),
           phase \in {"free", "log"},
           \A id \in Ids : Undisturbed(id)' => Undisturbed(id),
           \A id \in Ids : id # req[c].id => index'[id] = index[id],
           \A id \in Ids : id # req[c].id /\ ~Unindexing(id) => Visible(id)' = Visible(id),
           \A id \in Ids : id = req[c].id /\ Undisturbed(id) => Visible(id)' = req[c].content
    PROVE  Progress'
<1> USE DEF IInv
<1>1. /\ allowed' = allowed /\ Busy(c) /\ req'[c].phase = phase /\ req'[c].id = req[c].id
      /\ req'[c].content = req[c].content
      /\ \A d \in Clients : d # c => req'[d] = req[d]
  BY DEF Moved
<1> SUFFICES ASSUME NEW id \in Ids, Undisturbed(id)',
                    NEW d \in Clients, Busy(d)', req'[d].id = id
             PROVE  /\ req'[d].content \in allowed'[id]
                    /\ Filling(d)' => /\ index'[id] = req'[d].old
                                      /\ req'[d].kind = "create" => req'[d].old = 0
                    /\ req'[d].phase \in {"free", "log"} => Visible(id)' = req'[d].content
  BY DEF Progress
<1>2. CASE d = c
  <2>1. req[c].id = id /\ Undisturbed(id) /\ req[c].content \in allowed[id]
    BY <1>1, <1>2 DEF Progress
  <2>. QED  BY <1>1, <1>2, <2>1 DEF Filling
<1>3. CASE d # c
  <2>1. req'[d] = req[d] /\ Busy(d) /\ req[d].id = id /\ Undisturbed(id)
    BY <1>1, <1>3 DEF Busy
  <2>2. id # req[c].id
    BY <1>1, <1>3, <2>1 DEF OneClient, Undisturbed
  <2>3. req[d].phase \in {"free", "log"} => ~Unindexing(id)
    BY <2>1 DEF Unindexing, OneClient, Undisturbed, Busy
  <2>. QED  BY <1>1, <2>1, <2>2, <2>3 DEF Progress, Filling
<1>. QED  BY <1>2, <1>3

LEMMA ProgressOperation ==
    ASSUME IInv, OneClient, Progress, NEW c \in Clients, Operation(c),
           \A id \in Ids : Undisturbed(id)' => Undisturbed(id)
    PROVE  Progress'
<1> USE DEF IInv
<1>1. CASE \E r \in Request : Started(c, r)
  BY <1>1, ProgressStarts
<1>2. CASE Fill(c)
  <2>. DEFINE phase == IF req[c].kind = "create" THEN "log" ELSE "free"
  <2>1. Moved(c, phase) /\ phase \in {"free", "log"}
    BY <1>2, FillMoves
  <2>2. \A id \in Ids : id # req[c].id => index'[id] = index[id]
    BY <1>2, FillMoves DEF Types
  <2>. HIDE DEF phase
  <2>. QED  BY <1>2, <2>1, <2>2, FillVisible, FillShows, ProgressMoves
<1>3. CASE FreeOld(c)
  <2>1. Moved(c, "log") /\ index' = index /\ req[c].phase = "free" /\ Busy(c)
    BY <1>3, FreeOldMoves DEF Busy
  <2>2. \A id \in Ids : id = req[c].id /\ Undisturbed(id) => Visible(id)' = req[c].content
    BY <1>3, <2>1, FreeOldVisible DEF Progress
  <2>. QED  BY <1>3, <2>1, <2>2, FreeOldVisible, ProgressMoves
<1>4. CASE Unindex(c)
  <2>1. Moved(c, "log") /\ req[c].content = 0
    BY <1>4, UnindexMoves
  <2>2. \A id \in Ids : id # req[c].id => index'[id] = index[id]
    BY <1>4, UnindexMoves DEF Types
  <2>. QED  BY <1>4, <2>1, <2>2, UnindexVisible, ProgressMoves
<1>5. CASE Log(c)
  <2>1. /\ ~Busy(c)' /\ Busy(c) /\ \A d \in Clients : d # c => req'[d] = req[d]
        /\ mem' = mem /\ index' = index
        /\ allowed' = [allowed EXCEPT ![req[c].id] = {req[c].content}]
    BY <1>5, LogEnds
  <2>2. ASSUME NEW id \in Ids, Undisturbed(id)', NEW d \in Clients, Busy(d)', req'[d].id = id
        PROVE  /\ req'[d] = req[d] /\ Busy(d) /\ Undisturbed(id) /\ allowed'[id] = allowed[id]
               /\ Visible(id)' = Visible(id)
    <3>1. d # c /\ req'[d] = req[d] /\ Busy(d) /\ Undisturbed(id)
      BY <2>1, <2>2 DEF Busy
    <3>2. id # req[c].id
      BY <2>1, <2>2, <3>1 DEF OneClient, Undisturbed
    <3>. QED  BY <2>1, <3>1, <3>2 DEF Types, Visible
  <2>. QED  BY <2>1, <2>2 DEF Progress, Filling
<1>. QED  BY <1>1, <1>2, <1>3, <1>4, <1>5, OperationStarts DEF Operation

LEMMA ProgressStep ==
    ASSUME LIInv, Survival, [Next]_vars
    PROVE  Progress'
<1> USE DEF LIInv, Survival
<1>1. \A id \in Ids : Undisturbed(id)' => Undisturbed(id)
  BY StaysDisturbed
<1>2. ASSUME NEW c \in Clients, Operation(c) PROVE Progress'
  BY <1>1, <1>2, ProgressOperation
<1>3. CASE mem' = mem /\ index' = index /\ req' = req /\ allowed' = allowed
  BY <1>1, <1>3 DEF Progress, Busy, Filling, Visible
<1>4. CASE Rotate \/ Trim \/ \E b \in Blocks : FlushBlock(b) \/ Evict(b)
  BY <1>3, <1>4 DEF Rotate, Trim, FlushBlock, Evict, history
<1>5. CASE (stage # "up" \/ Close) /\ req' = req
  BY <1>5 DEF IInv, Stages, Busy, Close, Progress
<1>6. CASE Crash \/ SaveIndex
  BY <1>6 DEF Crash, SaveIndex, Forget, Progress, Busy, NoOp
<1>7. CASE Open \/ Replay \/ ReplayFails \/ ReplayEnds \/ Renew
  BY <1>5, <1>7 DEF Open, Replay, ReplayFails, ReplayEnds, Renew
<1>8. CASE Close
  BY <1>5, <1>8 DEF Close
<1>9. CASE UNCHANGED vars
  BY <1>3, <1>9 DEF vars, history
<1>. QED  BY <1>1, <1>2, <1>4, <1>6, <1>7, <1>8, <1>9 DEF Next

-----------------------------------------------------------------------------
LEMMA RestingOperation ==
    ASSUME IInv, OneClient, Progress, Resting, NEW c \in Clients, Operation(c),
           \A id \in Ids : Undisturbed(id)' => Undisturbed(id)
    PROVE  Resting'
<1> USE DEF IInv
<1> SUFFICES ASSUME NEW id \in Ids, Undisturbed(id)', \A d \in Clients : Busy(d)' => req'[d].id # id
             PROVE  Visible(id)' \in allowed'[id]
  BY DEF Resting
<1>1. allowed \in [Ids -> SUBSET Contents] /\ Undisturbed(id)
  BY DEF Types
<1>2. ASSUME stage = "up", \A d \in Clients : Busy(d) => req[d].id # id
      PROVE  Visible(id) \in allowed[id] /\ ~Unindexing(id)
  BY <1>1, <1>2 DEF Resting, Unindexing, Busy
<1>3. ASSUME NEW r \in Request, Started(c, r) PROVE Visible(id)' \in allowed'[id]
  <2>1. /\ req'[c] = r /\ Busy(c)' /\ ~Busy(c) /\ \A d \in Clients : d # c => req'[d] = req[d]
        /\ stage = "up" /\ allowed' = [allowed EXCEPT ![r.id] = @ \cup {r.content}]
    BY <1>3 DEF Started, Types, Busy
  <2>2. id # r.id /\ allowed'[id] = allowed[id]
    <3>1. r.id # id
      BY <2>1
    <3>. QED  BY <1>1, <2>1, <3>1
  <2>3. \A d \in Clients : Busy(d) => req[d].id # id
    BY <2>1 DEF Busy
  <2>. QED  BY <1>2, <1>3, <2>1, <2>2, <2>3, StartedVisible
<1>4. ASSUME NEW phase \in {"free", "log"}, Moved(c, phase)
      PROVE  /\ stage = "up" /\ allowed' = allowed /\ id # req[c].id
             /\ \A d \in Clients : Busy(d) => req[d].id # id
  BY <1>4 DEF Moved, Busy
<1>5. CASE Fill(c)
  <2>. DEFINE phase == IF req[c].kind = "create" THEN "log" ELSE "free"
  <2>1. Moved(c, phase) /\ phase \in {"free", "log"}
    BY <1>5, FillMoves
  <2>. HIDE DEF phase
  <2>. QED  BY <1>2, <1>4, <1>5, <2>1, FillVisible
<1>6. CASE FreeOld(c) \/ Unindex(c)
  <2>1. Moved(c, "log")
    BY <1>6, FreeOldMoves, UnindexMoves
  <2>. QED  BY <1>2, <1>4, <1>6, <2>1, FreeOldVisible, UnindexVisible
<1>7. CASE Log(c)
  <2>1. /\ ~Busy(c)' /\ Busy(c) /\ \A d \in Clients : d # c => req'[d] = req[d]
        /\ req[c].phase = "log" /\ req[c].id \in Ids /\ stage = "up"
        /\ allowed' = [allowed EXCEPT ![req[c].id] = {req[c].content}]
        /\ Visible(id)' = Visible(id)
    BY <1>7, LogEnds DEF Visible
  <2>2. CASE id = req[c].id
    <3>1. Visible(id) = req[c].content
      BY <1>1, <2>1, <2>2 DEF Progress
    <3>. QED  BY <1>1, <2>1, <2>2, <3>1
  <2>3. CASE id # req[c].id
    <3>1. \A d \in Clients : Busy(d) => req[d].id # id
      BY <2>1, <2>3 DEF Busy
    <3>. QED  BY <1>1, <1>2, <2>1, <2>3, <3>1
  <2>. QED  BY <2>2, <2>3
<1>. QED  BY <1>3, <1>5, <1>6, <1>7, OperationStarts DEF Operation

\* The end of the replay: the log tells of the vertices it mentions, the disk
\* of the others.
LEMMA ReplayedRests ==
    ASSUME LIInv, RotationQuiet, LoggedAllowed, Recoverable, Untouched, ReplayEnds, NEW id \in Ids, Undisturbed(id)
    PROVE  Visible(id) \in allowed[id]
<1> USE DEF LIInv, IInv
<1>1. stage = "replay" /\ replayed = Len(wal) /\ toFlush = {}
  BY DEF ReplayEnds, RotationQuiet, Stages
<1>2. CASE \E k \in 1..Len(wal) : wal[k].id = id
  <2>1. LastIn(id, LastEntry(id), Len(wal))
    BY <1>2, LastEntryIsLast
  <2>2. LastEntry(id) \in 1..Len(wal)
    BY <2>1 DEF LastIn
  <2>3. Visible(id) = wal[LastEntry(id)].content
    BY <1>1, <2>1, <2>2 DEF ReplayExact, Applied
  <2>. QED  BY <2>1, <2>2, <2>3 DEF LoggedAllowed
<1>3. CASE \A k \in 1..Len(wal) : wal[k].id # id
  <2>1. Shown(disk, Rebuilt[id]) \in allowed[id]
    BY <1>1, <1>3 DEF Recoverable, OnDiskOnce
  <2>2. index[id] = Rebuilt[id] /\ (index[id] # 0 => mem[index[id]] = disk[index[id]])
    BY <1>1, <1>3 DEF Untouched
  <2>. QED  BY <2>1, <2>2 DEF Visible, Shown
<1>. QED  BY <1>2, <1>3

LEMMA RestingStep ==
    ASSUME LIInv, Survival, [Next]_vars
    PROVE  Resting'
<1> USE DEF LIInv, Survival
<1>1. \A id \in Ids : Undisturbed(id)' => Undisturbed(id)
  BY StaysDisturbed
<1>2. ASSUME NEW c \in Clients, Operation(c) PROVE Resting'
  BY <1>1, <1>2, RestingOperation
<1>3. CASE /\ mem' = mem /\ index' = index /\ req' = req /\ allowed' = allowed
           /\ stage' \in {"opening", "up", "closing", "saving"} =>
                 stage \in {"opening", "up", "closing", "saving"}
  BY <1>1, <1>3 DEF Resting, Busy, Visible
<1>4. CASE Rotate \/ Trim \/ \E b \in Blocks : FlushBlock(b) \/ Evict(b)
  BY <1>3, <1>4 DEF Rotate, Trim, FlushBlock, Evict, history, bootVars
<1>5. CASE Crash \/ SaveIndex \/ Open \/ Replay \/ ReplayFails
  BY <1>5 DEF Crash, SaveIndex, Forget, Open, Replay, ReplayFails, Resting
<1>6. CASE ReplayEnds
  <2>1. mem' = mem /\ index' = index /\ allowed' = allowed
    BY <1>6 DEF ReplayEnds, history
  <2>2. \A id \in Ids : Undisturbed(id) => Visible(id) \in allowed[id]
    BY <1>6, ReplayedRests
  <2>. QED  BY <1>1, <2>1, <2>2 DEF Resting, Visible
<1>7. CASE Renew
  <2>1. mem' = mem /\ index' = index /\ allowed' = [id \in Ids |-> {Visible(id)}]
    BY <1>7 DEF Renew
  <2>. QED  BY <2>1 DEF Resting, Visible
<1>8. CASE Close
  BY <1>3, <1>8 DEF Close, history
<1>9. CASE UNCHANGED vars
  BY <1>3, <1>9 DEF vars, bootVars, history
<1>. QED  BY <1>1, <1>2, <1>4, <1>5, <1>6, <1>7, <1>8, <1>9 DEF Next

LEMMA UntouchedStep ==
    ASSUME LIInv, Survival, [Next]_vars
    PROVE  Untouched'
<1> USE DEF LIInv, Survival
<1>1. \A id \in Ids : Undisturbed(id)' => Undisturbed(id)
  BY StaysDisturbed
<1>2. CASE Open
  <2>1. mem' = disk /\ disk' = disk /\ toFlush = {}
    BY <1>2 DEF Open, IInv, OnDisk, FlushedAre
  <2>2. \A id \in Ids : Undisturbed(id) => index'[id] = Rebuilt[id]
    BY <1>2, <2>1 DEF Open, Recoverable, OnDiskOnce
  <2>3. Rebuilt' = Rebuilt
    BY <2>1 DEF Rebuilt
  <2>. QED  BY <1>1, <2>1, <2>2, <2>3 DEF Untouched
<1>3. CASE Replay
  <2>. DEFINE e == wal[replayed + 1]
  <2>1. /\ replayed' = replayed + 1 /\ disk' = disk /\ wal' = wal /\ stage = "replay"
        /\ replayed \in Nat
    BY <1>3 DEF Replay, logVars, IInv, Types
  <2>2. Rebuilt' = Rebuilt
    BY <2>1 DEF Rebuilt
  <2>3. ASSUME NEW id \in Ids, Undisturbed(id), \A i \in 1..(replayed + 1) : wal[i].id # id
        PROVE  /\ index'[id] = Rebuilt[id]
               /\ index'[id] # 0 => mem'[index'[id]] = disk[index'[id]]
    <3>1. e.id # id /\ \A i \in 1..replayed : wal[i].id # id
      BY <2>1, <2>3
    <3>2. index[id] = Rebuilt[id] /\ (index[id] # 0 => mem[index[id]] = disk[index[id]])
      BY <2>1, <2>3, <3>1 DEF Untouched
    <3>. QED  BY <1>3, <3>1, <3>2, ReplayEffect
  <2>. QED  BY <1>1, <2>1, <2>2, <2>3 DEF Untouched
<1>4. CASE stage' # "replay"
  BY <1>4 DEF Untouched
<1>5. CASE \E b \in Blocks : FlushBlock(b)
  <2>1. toFlush # {} /\ stage' = stage
    BY <1>5 DEF FlushBlock, bootVars
  <2>. QED  BY <1>4, <2>1 DEF RotationQuiet, IInv, Stages
<1>6. CASE \E b \in Blocks : Evict(b)
  BY <1>6 DEF Evict, Untouched, Undisturbed, IInv, Types
<1>7. CASE \E c \in Clients : Operation(c)
  <2>1. stage' = "up"
    BY <1>7, OperationStarts, FillMoves, FreeOldMoves, UnindexMoves, LogEnds
       DEF Operation, Started, Moved, Frame, IInv
  <2>. QED  BY <1>4, <2>1
<1>8. CASE Rotate \/ Trim \/ Crash \/ ReplayFails \/ ReplayEnds \/ Close \/ Renew \/ SaveIndex
  <2>1. stage' # "replay"
    BY <1>8 DEF Rotate, Trim, Crash, ReplayFails, ReplayEnds, Close, Renew, SaveIndex, Forget, bootVars,
                IInv, Stages
  <2>. QED  BY <1>4, <2>1
<1>9. CASE UNCHANGED vars
  <2>1. /\ disk' = disk /\ index' = index /\ mem' = mem /\ wal' = wal /\ replayed' = replayed
        /\ stage' = stage
    BY <1>9 DEF vars, bootVars, logVars
  <2>2. Rebuilt' = Rebuilt
    BY <2>1 DEF Rebuilt
  <2>. QED  BY <1>1, <2>1, <2>2 DEF Untouched
<1>. QED  BY <1>2, <1>3, <1>5, <1>6, <1>7, <1>8, <1>9 DEF Next

-----------------------------------------------------------------------------
LEMMA LoggedAllowedStep ==
    ASSUME LIInv, Survival, [Next]_vars
    PROVE  LoggedAllowed'
<1> USE DEF LIInv, Survival
<1>1. \A id \in Ids : Undisturbed(id)' => Undisturbed(id)
  BY StaysDisturbed
<1>2. CASE wal' = wal /\ \A id \in Ids : allowed[id] \subseteq allowed'[id]
  BY <1>1, <1>2 DEF LoggedAllowed, LastIn
<1>3. ASSUME NEW c \in Clients, Log(c) PROVE LoggedAllowed'
  <2>. DEFINE e == Logged(req[c])
              n == Len(wal)
  <2>1. /\ wal' = Append(wal, e) /\ e.id = req[c].id /\ e.content = req[c].content
        /\ allowed' = [allowed EXCEPT ![req[c].id] = {req[c].content}]
        /\ wal \in Seq(Entry) /\ n \in Nat /\ allowed \in [Ids -> SUBSET Contents]
    BY <1>3, LogEnds DEF IInv, Types
  <2>. HIDE DEF e
  <2>2. Len(wal') = n + 1 /\ wal'[n + 1] = e /\ \A i \in 1..n : wal'[i] = wal[i]
    BY <2>1
  <2>. HIDE DEF n
  <2>3. ASSUME NEW id \in Ids, Undisturbed(id)', NEW i \in 1..(n + 1), wal'[i].id = id,
               \A j \in 1..(n + 1) : j > i => wal'[j].id # id
        PROVE  wal'[i].content \in allowed'[id]
    <3>1. wal'[i].id = id /\ \A j \in 1..(n + 1) : j > i => wal'[j].id # id
      BY <2>3
    <3>2. CASE i = n + 1
      BY <2>1, <2>2, <3>1, <3>2
    <3>3. CASE i # n + 1
      <4>1. i \in 1..n /\ n + 1 > i /\ n + 1 \in 1..(n + 1)
        BY <2>1, <3>3
      <4>2. id # req[c].id
        BY <2>1, <2>2, <3>1, <4>1
      <4>3. LastIn(id, i, n)
        BY <2>1, <2>2, <3>1, <4>1 DEF LastIn
      <4>4. wal[i].content \in allowed[id]
        BY <1>1, <2>3, <4>1, <4>3 DEF LoggedAllowed, n
      <4>. QED  BY <2>1, <2>2, <4>1, <4>2, <4>4
    <3>. QED  BY <3>2, <3>3
  <2>. QED  BY <2>2, <2>3 DEF LoggedAllowed, LastIn
<1>4. ASSUME NEW c \in Clients, Operation(c), ~Log(c) PROVE LoggedAllowed'
  <2>1. CASE \E r \in Request : Started(c, r)
    BY <1>2, <2>1 DEF Started, IInv, Types
  <2>2. CASE \E phase : Moved(c, phase)
    BY <1>2, <2>2 DEF Moved
  <2>. QED  BY <1>4, <2>1, <2>2, OperationStarts, FillMoves, FreeOldMoves, UnindexMoves
            DEF Operation, IInv
<1>5. CASE Trim \/ Renew
  <2>1. Len(wal') = 0
    BY <1>5 DEF Trim, Renew
  <2>. QED  BY <2>1 DEF LoggedAllowed
<1>6. CASE Rotate \/ \E b \in Blocks : FlushBlock(b) \/ Evict(b)
  BY <1>2, <1>6 DEF Rotate, FlushBlock, Evict, logVars, history
<1>7. CASE Crash \/ Open \/ Replay \/ ReplayFails
  BY <1>2, <1>7 DEF Crash, Open, Replay, ReplayFails, logVars, history
<1>8. CASE ReplayEnds \/ Close \/ SaveIndex
  BY <1>2, <1>8 DEF ReplayEnds, Close, SaveIndex, logVars, history
<1>9. CASE UNCHANGED vars
  BY <1>2, <1>9 DEF vars, logVars, history
<1>. QED  BY <1>3, <1>4, <1>5, <1>6, <1>7, <1>8, <1>9 DEF Next

\* A rebuild from blocks that are as in the cache finds what the index has.
LEMMA CacheRebuilt ==
    ASSUME IInv, OneClient, OneRecord, Progress, Resting,
           stage \in {"opening", "up", "closing", "saving"}, \A c \in Clients : ~InTheMiddle(c),
           NEW id \in Ids, Undisturbed(id)
    PROVE  /\ LastRecord(mem, id) = index[id]
           /\ Shown(mem, index[id]) = Visible(id) /\ Visible(id) \in allowed[id]
           /\ \A p \in Places : mem[p].used /\ mem[p].id = id => p = index[id]
<1> USE DEF IInv
<1>1. \A c \in Clients : ~Filling(c) /\ req[c].phase # "free" /\ req[c].phase # "unindex"
  BY DEF InTheMiddle, Filling
<1>2. \A p \in Places : mem[p].used /\ mem[p].id = id => p = index[id]
  BY <1>1 DEF OneRecord, RecordOf, Reached
<1>3. index[id] # 0 => mem[index[id]].used /\ mem[index[id]].id = id
  BY <1>1 DEF Owned, EntriesLead, Unindexing
<1>4. mem \in [Places -> Place] /\ index[id] \in Places \cup {0}
  BY DEF Types
<1>5. LastRecord(mem, id) = index[id]
  BY <1>2, <1>3, <1>4, ScanFindsOnly
<1>6. Visible(id) \in allowed[id]
  <2>1. CASE \A c \in Clients : Busy(c) => req[c].id # id
    BY <2>1 DEF Resting
  <2>2. ASSUME NEW c \in Clients, Busy(c), req[c].id = id PROVE Visible(id) \in allowed[id]
    <3>1. req[c].phase = "log"
      BY <2>2 DEF Busy, InTheMiddle, Types, Request
    <3>. QED  BY <2>2, <3>1 DEF Progress
  <2>. QED  BY <2>1, <2>2
<1>7. Shown(mem, index[id]) = Visible(id)
  BY DEF Shown, Visible
<1>. QED  BY <1>2, <1>5, <1>6, <1>7

\* The same after a step that brings the blocks of the cache to the disk.
LEMMA BroughtToDisk ==
    ASSUME IInv, OneClient, OneRecord, Progress, Resting,
           stage \in {"opening", "up", "closing", "saving"}, \A c \in Clients : ~InTheMiddle(c),
           NEW id \in Ids, Undisturbed(id), disk' = mem,
           allowed'[id] = allowed[id] \/ Visible(id) \in allowed'[id],
           saved' = <<>> \/ saved' = index
    PROVE  OnDiskOnce(id)'
<1>1. Rebuilt'[id] = LastRecord(mem, id)
  BY DEF Rebuilt, LastRecord
<1>2. Rebuilt'[id] = index[id]
  BY <1>1, CacheRebuilt
<1>3. Shown(mem, index[id]) \in allowed'[id]
  BY CacheRebuilt
<1>4. \A p \in Places : mem[p].used /\ mem[p].id = id => p = index[id]
  BY CacheRebuilt
<1>. QED  BY <1>2, <1>3, <1>4 DEF OnDiskOnce, Shown

LEMMA RecoverableStep ==
    ASSUME LIInv, Survival, [Next]_vars
    PROVE  Recoverable'
<1> USE DEF LIInv, Survival
<1>1. \A id \in Ids : Undisturbed(id)' => Undisturbed(id)
  BY StaysDisturbed
<1>2. ASSUME disk' = disk, wal' = wal, saved' = saved \/ saved' = <<>>,
             \A id \in Ids : allowed[id] \subseteq allowed'[id],
             toFlush' \in {{}, Blocks} /\ (\E id \in Ids : Undisturbed(id)') => toFlush \in {{}, Blocks}
      PROVE  Recoverable'
  <2>1. Rebuilt' = Rebuilt
    BY <1>2 DEF Rebuilt
  <2>. QED  BY <1>1, <1>2, <2>1 DEF Recoverable, OnDiskOnce, Shown
<1>3. ASSUME NEW c \in Clients, Operation(c), ~Log(c) PROVE Recoverable'
  <2>1. CASE \E r \in Request : Started(c, r)
    BY <1>2, <2>1 DEF Started, Frame, IInv, Types
  <2>2. CASE \E phase : Moved(c, phase)
    BY <1>2, <2>2 DEF Moved, Frame
  <2>. QED  BY <1>3, <2>1, <2>2, OperationStarts, FillMoves, FreeOldMoves, UnindexMoves
            DEF Operation, IInv
<1>4. ASSUME NEW c \in Clients, Log(c) PROVE Recoverable'
  <2>. DEFINE e == Logged(req[c])
              n == Len(wal)
  <2>1. /\ wal' = Append(wal, e) /\ e.id = req[c].id /\ Frame
        /\ allowed' = [allowed EXCEPT ![req[c].id] = {req[c].content}]
        /\ wal \in Seq(Entry) /\ n \in Nat /\ allowed \in [Ids -> SUBSET Contents]
    BY <1>4, LogEnds DEF IInv, Types
  <2>. HIDE DEF e
  <2>2. Len(wal') = n + 1 /\ wal'[n + 1] = e /\ \A i \in 1..n : wal'[i] = wal[i]
    BY <2>1
  <2>. HIDE DEF n
  <2>3. \A id \in Ids : id # req[c].id => allowed'[id] = allowed[id]
    BY <2>1
  <2>4. ASSUME NEW id \in Ids, \A i \in 1..Len(wal') : wal'[i].id # id
        PROVE  id # req[c].id /\ \A i \in 1..Len(wal) : wal[i].id # id
    <3>1. \A i \in 1..(n + 1) : wal'[i].id # id
      BY <2>2, <2>4
    <3>2. e.id # id
      BY <2>1, <2>2, <3>1
    <3>3. \A i \in 1..n : wal[i].id # id
      BY <2>1, <2>2, <3>1
    <3>. QED  BY <2>1, <3>2, <3>3 DEF n
  <2>5. Rebuilt' = Rebuilt /\ disk' = disk /\ saved' = saved /\ toFlush' = toFlush
    BY <2>1 DEF Rebuilt, Frame
  <2>. QED  BY <1>1, <2>3, <2>4, <2>5 DEF Recoverable, OnDiskOnce, Shown
<1>5. CASE Rotate
  <2>1. toFlush = {}
    BY <1>5 DEF Rotate, RotationQuiet
  <2>. QED  BY <1>2, <1>5, <2>1 DEF Rotate, bootVars
<1>6. ASSUME NEW b \in Blocks, FlushBlock(b) PROVE Recoverable'
  <2>1. /\ toFlush # {} /\ disk' = Written(b) /\ toFlush' = toFlush \ {b} /\ mem' = mem
        /\ saved' = saved /\ stage' = stage /\ rotating' = rotating /\ torn' = torn
        /\ req' = req /\ allowed' = allowed /\ b \in toFlush
    BY <1>6 DEF FlushBlock, bootVars, history
  <2>2. saved = <<>>
    BY <2>1 DEF IInv, OnDisk, SavedLeads, FlushedAre
  <2>3. ASSUME NEW id \in Ids, Undisturbed(id)', toFlush' \in {{}, Blocks} PROVE OnDiskOnce(id)'
    <3>1. toFlush' = {} /\ ~torn /\ Undisturbed(id)
      BY <1>1, <2>1, <2>3 DEF Undisturbed
    <3>2. /\ \A p \in Places : BlockOf[p] \notin toFlush => disk[p] = mem[p]
          /\ stage \in {"opening", "up", "closing", "saving"} /\ \A c \in Clients : ~InTheMiddle(c)
      <4>1. CASE rotating
        BY <3>1, <4>1 DEF RotationQuiet, IInv, Stages
      <4>2. CASE stage \in {"opening", "closing"}
        BY <4>2 DEF IInv, OnDisk, FlushedAre, Stages, Busy, InTheMiddle
      <4>. QED  BY <2>1, <4>1, <4>2 DEF RotationQuiet
    <3>3. \A p \in Places : disk'[p] = mem[p]
      BY <2>1, <3>1, <3>2, FlushBrings DEF IInv
    <3>4. disk' = mem
      BY <2>1, <3>3, WrittenTypes DEF IInv, Types
    <3>. QED  BY <2>1, <2>2, <3>1, <3>2, <3>4, BroughtToDisk
  <2>. QED  BY <2>3 DEF Recoverable
<1>7. ASSUME Trim \/ Renew PROVE Recoverable'
  <2>1. /\ toFlush = {} /\ disk' = disk /\ saved' = saved
        /\ (rotating \/ stage \in {"opening", "closing"})
        /\ \A id \in Ids : allowed'[id] = allowed[id] \/ Visible(id) \in allowed'[id]
    BY <1>7 DEF Trim, Renew, bootVars, history
  <2>2. saved = <<>>
    BY <2>1 DEF IInv, OnDisk, SavedLeads, Stages
  <2>3. ASSUME NEW id \in Ids, Undisturbed(id)' PROVE OnDiskOnce(id)'
    <3>1. ~torn /\ Undisturbed(id)
      BY <1>1, <2>3 DEF Undisturbed
    <3>2. /\ \A p \in Places : BlockOf[p] \notin toFlush => disk[p] = mem[p]
          /\ stage \in {"opening", "up", "closing", "saving"} /\ \A c \in Clients : ~InTheMiddle(c)
      <4>1. CASE rotating
        BY <3>1, <4>1 DEF RotationQuiet, IInv, Stages
      <4>2. CASE stage \in {"opening", "closing"}
        BY <4>2 DEF IInv, OnDisk, FlushedAre, Stages, Busy, InTheMiddle
      <4>. QED  BY <2>1, <4>1, <4>2
    <3>3. disk' = mem
      BY <2>1, <3>2, AllFlushed DEF IInv
    <3>. QED  BY <2>1, <2>2, <3>1, <3>2, <3>3, BroughtToDisk
  <2>. QED  BY <2>3 DEF Recoverable
<1>8. CASE \E b \in Blocks : Evict(b)
  BY <1>8 DEF Evict, Recoverable, Undisturbed, IInv, Types
<1>9. CASE Crash
  <2>1. torn' = (torn \/ toFlush \notin {{}, Blocks}) /\ disk' = disk /\ wal' = wal /\ saved' = saved
        /\ allowed' = allowed
    BY <1>9 DEF Crash
  <2>2. (\E id \in Ids : Undisturbed(id)') => toFlush \in {{}, Blocks}
    BY <2>1 DEF Undisturbed
  <2>. QED  BY <1>2, <2>1, <2>2
<1>10. CASE Open \/ Replay \/ ReplayFails
  BY <1>2, <1>10 DEF Open, Replay, ReplayFails, logVars, history
<1>11. CASE ReplayEnds \/ Close
  <2>1. toFlush = {}
    BY <1>11 DEF ReplayEnds, Close, RotationQuiet, IInv, Stages, Busy
  <2>. QED  BY <1>2, <1>11, <2>1 DEF ReplayEnds, Close, history
<1>12. CASE SaveIndex
  <2>1. /\ disk' = mem /\ saved' = index /\ allowed' = allowed /\ stage = "saving"
        /\ \A c \in Clients : ~InTheMiddle(c)
    BY <1>12 DEF SaveIndex, history, IInv, OnDisk, FlushedAre, Stages, Busy, InTheMiddle
  <2>2. \A id \in Ids : Undisturbed(id)' => OnDiskOnce(id)'
    BY <1>1, <2>1, BroughtToDisk
  <2>. QED  BY <2>2 DEF Recoverable
<1>13. CASE UNCHANGED vars
  BY <1>2, <1>13 DEF vars, bootVars, logVars, history
<1>. QED  BY <1>3, <1>4, <1>5, <1>6, <1>7, <1>8, <1>9, <1>10, <1>11, <1>12, <1>13 DEF Next

SIInv == LIInv /\ Survival

LEMMA InitSIInv == Init => SIInv
<1> SUFFICES ASSUME Init PROVE Survival
  BY InitLIInv DEF SIInv
<1>1. /\ \A c \in Clients : ~Busy(c)
      /\ \A id \in Ids : index[id] = 0 /\ Visible(id) = 0 /\ allowed[id] = {0}
      /\ \A p \in Places : ~mem[p].used /\ ~disk[p].used
      /\ saved = <<>> /\ stage = "up" /\ rotating = FALSE /\ toFlush = {} /\ Len(wal) = 0
  BY DEF Init, Busy, NoOp, NoIndex, Visible, Empty
<1>2. OneClient /\ RotationQuiet /\ Progress /\ Untouched
  BY <1>1 DEF OneClient, RotationQuiet, Progress, Untouched
<1>3. OneRecord /\ Resting /\ LoggedAllowed
  BY <1>1 DEF OneRecord, RecordOf, Resting, LoggedAllowed
<1>4. Recoverable
  <2>1. Types
    BY InitTypes
  <2>2. \A id \in Ids : Rebuilt[id] = 0
    BY <1>1, <2>1, RebuiltIsRecord DEF Types
  <2>. QED  BY <1>1, <2>2 DEF Recoverable, OnDiskOnce, Shown
<1>. QED  BY <1>2, <1>3, <1>4 DEF Survival

LEMMA NextSIInv == SIInv /\ [Next]_vars => SIInv'
<1> SUFFICES ASSUME SIInv, [Next]_vars PROVE SIInv'
  OBVIOUS
<1>1. LIInv /\ IInv /\ Survival
  BY DEF SIInv, LIInv
<1>2. OneClient' /\ RotationQuiet'
  BY <1>1, OneClientStep, RotationQuietStep DEF Survival
<1>3. OneRecord' /\ Progress' /\ Resting' /\ LoggedAllowed' /\ Recoverable' /\ Untouched'
  BY <1>1, OneRecordStep, ProgressStep, RestingStep, LoggedAllowedStep, RecoverableStep, UntouchedStep
<1>. QED  BY <1>1, <1>2, <1>3, NextLIInv DEF SIInv, Survival

\* After every restart that no eviction, torn flush or second client of a
\* creation disturbed, a reader finds what the last finished operation on a
\* vertex left or what an unfinished one would have left.
THEOREM VerticesSurviveAlways == Spec => []VerticesSurvive
<1>1. SIInv => VerticesSurvive
  BY DEF SIInv, Survival, Resting, VerticesSurvive
<1>. QED  BY <1>1, InitSIInv, NextSIInv, PTL DEF Spec
=============================================================================
