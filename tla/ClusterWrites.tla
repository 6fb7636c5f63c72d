--------------------------- MODULE ClusterWrites ---------------------------
(***************************************************************************)
(* How a write reaches the nodes of a cluster: the REST handlers of        *)
(* vertices (gremlin/mod.rs), the gateway by which a worker forwards a     *)
(* request to the master and the master broadcasts it (cluster/gateway.rs, *)
(* forward.rs), the execution of a broadcast at a worker                   *)
(* (cluster/server.rs) and the registry that says who is sent broadcasts   *)
(* (cluster/node.rs).                                                      *)
(*                                                                         *)
(* The queue to a worker is the durable first-in-first-out list that       *)
(* module BroadcastQueue promises: an entry that was delivered and counted *)
(* stays in its file until the file is deleted, and a restart begins with  *)
(* the first entry of every file that is left.                             *)
(*                                                                         *)
(* A graph is the function from vertex ids to what is stored under them;   *)
(* the content of a write is its number in the order in which the master   *)
(* applied it.  A request of a client is a process: it goes through the    *)
(* handler at the node the client talks to, and through the handler at the *)
(* master if that node is a worker.                                        *)
(***************************************************************************)
EXTENDS Naturals, FiniteSets, SequencesExt

CONSTANTS
    Workers, Master,
    Clients,
    Home,           \* Home[c]: the node client c talks to
    MaxVertices,    \* bound: ids the master assigns
    MaxPerFile,     \* entries of a queue file before the next is begun
    MaxWrites,      \* bound: requests of all clients
    MaxTroubles     \* bound: restarts of the master, lost answers, failed
                    \* executions and missed heartbeats together

Nodes == Workers \cup {Master}
Ids == 1..MaxVertices
Kinds == {"create", "update", "delete"}

ASSUME ClusterWritesAssumption ==
    /\ IsFiniteSet(Workers) /\ Master \notin Workers
    /\ Home \in [Clients -> Nodes]
    /\ MaxVertices \in Nat /\ MaxPerFile \in Nat \ {0} /\ MaxWrites \in Nat
    /\ MaxTroubles \in Nat

VARIABLES
    store,      \* store[n][id]: the vertex at node n
    nextId,     \* Graph.next_vertex_id at the master
    req,        \* req[c]: the request of client c and where it is
    queue,      \* queue[w]: broadcasts for worker w still to be delivered
    kept,       \* kept[w]: broadcasts delivered from a file that is still there
    live,       \* NodeRegistry.workers
    known,      \* NodeRegistry.known_workers
    nodesFile,  \* the workers in nodes.json
    boot,       \* where the master is in its startup: "info", "load", "up"
    writes, troubles,
    applied,    \* history: writes the master has applied
    raced,      \* history: vertices written while another write of them was under way
    joined,     \* history: workers that have registered since the master started
    missed,     \* history: workers that were not sent, or did not execute, a write
    again       \* history: how many entries at the front of queue[w] were counted
                \* as delivered before a restart

registryVars == <<live, known, nodesFile, boot, joined>>
boundVars == <<writes, troubles>>
queueVars == <<queue, kept, again>>
vars == <<store, nextId, req, queueVars, registryVars, boundVars, applied, raced, missed>>

(***************************************************************************)
(* What a write does to the graph of a node (graph/crud.rs).  A vertex has *)
(* the content of its last write and the version of its header.            *)
(***************************************************************************)
Nothing == [there |-> FALSE, content |-> 0, version |-> 0]
Vertex == [there : BOOLEAN, content : 0..MaxWrites, version : Nat]
Write == [kind : Kinds, id : Ids, content : 0..MaxWrites]

\* A create under an id in use fails, an update or delete of no vertex too.
Possible(graph, w) == (w.kind = "create") # graph[w.id].there

Effect(graph, w) ==
    IF ~Possible(graph, w) THEN graph
    ELSE [graph EXCEPT ![w.id] =
            [there   |-> w.kind # "delete",
             content |-> w.content,
             version |-> IF w.kind = "create" THEN 1 ELSE @.version + 1]]

(***************************************************************************)
(* Requests.  phase: "idle"; "sent" to the handler at the master;          *)
(* "applied" there; "enqueue", while targets is the rest of the workers to  *)
(* enqueue for; and "local", at a worker whose forward was answered        *)
(* without a body, which its handler takes for "not forwarded".            *)
(***************************************************************************)
NoWrite == [kind |-> "create", id |-> 1, content |-> 0]
Idle == [phase |-> "idle", write |-> NoWrite, targets |-> <<>>]

Init ==
    /\ store = [n \in Nodes |-> [id \in Ids |-> Nothing]] /\ nextId = 1
    /\ req = [c \in Clients |-> Idle]
    /\ queue = [w \in Workers |-> <<>>] /\ kept = queue /\ again = [w \in Workers |-> 0]
    /\ live = {} /\ known = <<>> /\ nodesFile = {} /\ boot = "info"
    /\ writes = 0 /\ troubles = 0
    /\ applied = 0 /\ raced = {}
    /\ joined = {} /\ missed = {}

Goto(c, phase) == req' = [req EXCEPT ![c].phase = phase]
Return(c) == req' = [req EXCEPT ![c] = Idle]
AtWorker(c) == Home[c] # Master

Request(c, kind, id) ==
    /\ req[c].phase = "idle" /\ writes < MaxWrites
    /\ kind = "create" => id = 1
    /\ writes' = writes + 1
    /\ LET w == [kind |-> kind, id |-> id, content |-> 0]
       IN  req' = [req EXCEPT ![c] = [phase |-> "sent", write |-> w, targets |-> <<>>]]
    /\ UNCHANGED <<store, nextId, queueVars, registryVars, troubles, applied, raced, missed>>

\* The master does not answer: the worker returns 502.
ForwardFails(c) ==
    /\ req[c].phase = "sent" /\ AtWorker(c)
    /\ Return(c)
    /\ UNCHANGED <<store, nextId, queueVars, registryVars, boundVars, applied, raced, missed>>

\* The handler at the master; a create takes the next id.
Numbered(c) ==
    LET w == req[c].write
    IN  [kind    |-> w.kind,
         id      |-> IF w.kind = "create" THEN nextId ELSE w.id,
         content |-> applied + 1]

UnderWay(c, id) == req[c].phase \in {"applied", "enqueue", "local"} /\ req[c].write.id = id

Apply(c) ==
    LET w == Numbered(c)
    IN  /\ req[c].phase = "sent" /\ w.id \in Ids
        /\ Possible(store[Master], w)
        /\ store' = [store EXCEPT ![Master] = Effect(@, w)]
        /\ applied' = applied + 1
        /\ nextId' = IF w.kind = "create" THEN nextId + 1 ELSE nextId
        /\ raced' = IF \E d \in Clients : UnderWay(d, w.id) THEN raced \cup {w.id} ELSE raced
        /\ req' = [req EXCEPT ![c].phase = "applied", ![c].write = w]
        /\ UNCHANGED <<queueVars, registryVars, boundVars, missed>>

\* The vertex is gone: the client gets an error.
ApplyFails(c) ==
    /\ req[c].phase = "sent" /\ req[c].write.kind # "create"
    /\ ~Possible(store[Master], Numbered(c))
    /\ Return(c)
    /\ UNCHANGED <<store, nextId, queueVars, registryVars, boundVars, applied, raced, missed>>

\* Fault: only the workers that are alive are targets.
BroadcastToLive(c) ==
    /\ req[c].phase = "applied"
    /\ req' = [req EXCEPT ![c].phase = "enqueue",
                          ![c].targets = SelectSeq(known, LAMBDA w : w \in live)]
    /\ missed' = missed \cup (Workers \ Range(known))
    /\ UNCHANGED <<store, nextId, queueVars, registryVars, boundVars, applied, raced>>

\* broadcast: the targets are the workers known now, alive or not.
Broadcast(c) ==
    /\ req[c].phase = "applied"
    /\ req' = [req EXCEPT ![c].phase = "enqueue", ![c].targets = known]
    /\ missed' = missed \cup (Workers \ Range(known))
    /\ UNCHANGED <<store, nextId, queueVars, registryVars, boundVars, applied, raced>>

Enqueue(c) ==
    /\ req[c].phase = "enqueue" /\ req[c].targets # <<>>
    /\ LET w == Head(req[c].targets)
       IN  queue' = [queue EXCEPT ![w] = Append(@, req[c].write)]
    /\ req' = [req EXCEPT ![c].targets = Tail(@)]
    /\ UNCHANGED <<store, nextId, kept, again, registryVars, boundVars, applied, raced, missed>>

\* The answer.  That of an update or a delete is a bare status code.
Answered(c) == req[c].phase = "enqueue" /\ req[c].targets = <<>>
Reply(c) ==
    /\ Answered(c)
    /\ IF AtWorker(c) /\ req[c].write.kind # "create" THEN Goto(c, "local") ELSE Return(c)
    /\ UNCHANGED <<store, nextId, queueVars, registryVars, boundVars, applied, raced, missed>>

ReplyLost(c) ==
    /\ Answered(c) /\ AtWorker(c)
    /\ Return(c)
    /\ UNCHANGED <<store, nextId, queueVars, registryVars, boundVars, applied, raced, missed>>

\* The worker goes on as the master did; it has no queue to broadcast with.
ApplyLocally(c) ==
    /\ req[c].phase = "local"
    /\ store' = [store EXCEPT ![Home[c]] = Effect(@, req[c].write)]
    /\ Return(c)
    /\ UNCHANGED <<nextId, queueVars, registryVars, boundVars, applied, raced, missed>>

(***************************************************************************)
(* Delivery.  The worker answers an executed request with HTTP 200 and the *)
(* outcome in the body, which the consumer does not read.                  *)
(***************************************************************************)
\* The consumer is started after the master's identity was persisted.  It
\* deletes a delivered file before it takes an entry of the next.
Pending(w) == boot # "info" /\ queue[w] # <<>> /\ Len(kept[w]) < MaxPerFile

\* What was delivered is counted: it stays in its file.
Counted(w) ==
    /\ queue' = [queue EXCEPT ![w] = Tail(@)]
    /\ kept' = [kept EXCEPT ![w] = Append(@, Head(queue[w]))]
    /\ again' = [again EXCEPT ![w] = IF @ = 0 THEN 0 ELSE @ - 1]

\* Fault: a broadcast the worker cannot apply is tried again.
DeliverStubborn(w) ==
    /\ Pending(w) /\ Possible(store[w], Head(queue[w]))
    /\ store' = [store EXCEPT ![w] = Effect(@, Head(queue[w]))]
    /\ Counted(w)
    /\ UNCHANGED <<nextId, req, registryVars, boundVars, applied, raced, missed>>

Deliver(w) ==
    /\ Pending(w)
    /\ store' = [store EXCEPT ![w] = Effect(@, Head(queue[w]))]
    /\ Counted(w)
    /\ UNCHANGED <<nextId, req, registryVars, boundVars, applied, raced, missed>>

\* Fault: an entry that was not answered is tried again after the others.
DeliverUnansweredLater(w) ==
    /\ Pending(w) /\ troubles < MaxTroubles
    /\ store' = [store EXCEPT ![w] = Effect(@, Head(queue[w]))]
    /\ queue' = [queue EXCEPT ![w] = Append(Tail(@), Head(@))]
    /\ troubles' = troubles + 1
    /\ UNCHANGED <<nextId, req, kept, again, registryVars, writes, applied, raced, missed>>

\* The worker executes the request and the answer does not arrive.
DeliverUnanswered(w) ==
    /\ Pending(w) /\ troubles < MaxTroubles
    /\ store' = [store EXCEPT ![w] = Effect(@, Head(queue[w]))]
    /\ troubles' = troubles + 1
    /\ UNCHANGED <<nextId, req, queueVars, registryVars, writes, applied, raced, missed>>

\* The worker's own API server is down or fails, and the answer is HTTP 200.
DeliverRefused(w) ==
    /\ Pending(w) /\ troubles < MaxTroubles
    /\ Counted(w)
    /\ troubles' = troubles + 1 /\ missed' = missed \cup {w}
    /\ UNCHANGED <<store, nextId, req, registryVars, writes, applied, raced>>

\* A file is deleted when every entry of it was counted, full or not (prepare_next).
RemoveFile(w) ==
    /\ boot # "info" /\ kept[w] # <<>>
    /\ queue[w] = <<>> \/ Len(kept[w]) = MaxPerFile
    /\ kept' = [kept EXCEPT ![w] = <<>>]
    /\ UNCHANGED <<store, nextId, req, queue, again, registryVars, boundVars, applied, raced,
                   missed>>

(***************************************************************************)
(* The registry of the master.                                             *)
(***************************************************************************)
\* register: the entry of a known worker is replaced in place.
Registered(w) == IF w \in Range(known) THEN known ELSE Append(known, w)

Heartbeat(w) ==
    /\ boot = "up"
    /\ live' = live \cup {w} /\ known' = Registered(w)
    /\ nodesFile' = live' /\ joined' = joined \cup {w}
    /\ UNCHANGED <<store, nextId, req, queueVars, boot, boundVars, applied, raced, missed>>

\* Fault: a worker that expired is forgotten.
ExpireAndForget(w) ==
    /\ boot = "up" /\ w \in live /\ troubles < MaxTroubles
    /\ live' = live \ {w} /\ nodesFile' = live'
    /\ known' = SelectSeq(known, LAMBDA k : k # w)
    /\ troubles' = troubles + 1
    /\ UNCHANGED <<store, nextId, req, queueVars, boot, joined, writes, applied,
                   raced, missed>>

\* purge_expired: the worker is no longer alive, and no longer in the file.
Expire(w) ==
    /\ boot = "up" /\ w \in live /\ troubles < MaxTroubles
    /\ live' = live \ {w} /\ nodesFile' = live'
    /\ troubles' = troubles + 1
    /\ UNCHANGED <<store, nextId, req, queueVars, known, boot, joined, writes, applied,
                   raced, missed>>

\* Startup: the master's identity is persisted first, with the workers that
\* are alive, then the known workers are loaded.
SetMasterInfo ==
    /\ boot = "info"
    /\ nodesFile' = live /\ boot' = "load"
    /\ UNCHANGED <<store, nextId, req, queueVars, live, known, joined, boundVars, applied,
                   raced, missed>>

LoadKnown ==
    /\ boot = "load"
    /\ known' \in SetToSeqs(nodesFile) /\ boot' = "up"
    /\ UNCHANGED <<store, nextId, req, queueVars, live, nodesFile, joined, boundVars, applied,
                   raced, missed>>

\* The master dies: its handlers die, a worker that waits for it answers 502;
\* the graph, the files of the queues and nodes.json are on disk.
\* How far a file was delivered is not: all its entries are queued again.
AtMaster(c) == req[c].phase \in {"sent", "applied", "enqueue"}
Cut(w) == \E c \in Clients : \/ req[c].phase = "applied"
                             \/ req[c].phase = "enqueue" /\ w \in Range(req[c].targets)

Crash ==
    /\ troubles < MaxTroubles
    /\ troubles' = troubles + 1
    /\ req' = [c \in Clients |-> IF AtMaster(c) THEN Idle ELSE req[c]]
    /\ nextId' = 1 + Max({0} \cup {id \in Ids : store[Master][id].there})
    /\ missed' = missed \cup {w \in Workers : Cut(w)}
    /\ live' = {} /\ known' = <<>> /\ joined' = {} /\ boot' = "info"
    /\ queue' = [w \in Workers |-> kept[w] \o queue[w]]
    /\ again' = [w \in Workers |-> Len(kept[w]) + again[w]]
    /\ kept' = [w \in Workers |-> <<>>]
    /\ UNCHANGED <<store, nodesFile, writes, applied, raced>>

Handle(c) == Apply(c) \/ ApplyFails(c) \/ Broadcast(c) \/ Enqueue(c) \/ Reply(c) \/ ApplyLocally(c)
Startup == SetMasterInfo \/ LoadKnown

Next ==
    \/ \E c \in Clients : \/ \E kind \in Kinds, id \in Ids : Request(c, kind, id)
                          \/ ForwardFails(c) \/ Handle(c) \/ ReplyLost(c)
    \/ \E w \in Workers : \/ Deliver(w) \/ DeliverUnanswered(w) \/ DeliverRefused(w)
                          \/ RemoveFile(w) \/ Heartbeat(w) \/ Expire(w)
    \/ Startup \/ Crash

Spec == Init /\ [][Next]_vars

\* Handlers, the startup and the consumer go on, and the worker that is tried for ever is
\* reached at last (BroadcastQueue!FairSpec).
FairSpec ==
    /\ Spec
    /\ WF_vars(Startup)
    /\ \A c \in Clients : WF_vars(Handle(c))
    /\ \A w \in Workers : WF_vars(RemoveFile(w)) /\ SF_vars(Deliver(w))

(***************************************************************************)
(* Properties.                                                             *)
(***************************************************************************)

\* Types; a worker is known once, so it is sent every broadcast once.
TypeOK ==
    /\ store \in [Nodes -> [Ids -> Vertex]] /\ nextId \in 1..(MaxVertices + 1)
    /\ \A c \in Clients :
         /\ req[c].phase \in {"idle", "sent", "applied", "enqueue", "local"}
         /\ req[c].write \in Write /\ Range(req[c].targets) \subseteq Workers
    /\ \A w \in Workers : {queue[w], kept[w]} \subseteq Seq(Write) /\ again[w] \in 0..Len(queue[w])
    /\ live \subseteq Workers /\ nodesFile \subseteq Workers
    /\ Range(known) \subseteq Workers /\ IsInjective(known)
    /\ boot \in {"info", "load", "up"}
    /\ applied \in 0..MaxWrites /\ joined \subseteq Workers /\ missed \subseteq Workers
    /\ raced \subseteq Ids

Same(u, v) == u.there = v.there /\ (u.there => u.content = v.content)
Agree(w) == \A id \in Ids \ raced : Same(store[w][id], store[Master][id])
Quiet(w) == /\ queue[w] = <<>>
            /\ \A c \in Clients : /\ req[c].phase \notin {"applied", "enqueue"}
                                  /\ Home[c] = w => req[c].phase # "local"

\* "Every node converges to the same state": when nothing is under way to a
\* worker that has missed no broadcast, it stores what the master stores,
\* for every vertex whose writes did not overlap.
Converged == \A w \in Workers : Quiet(w) /\ w \notin missed => Agree(w)

\* A worker that no client writes through goes back to an earlier content of a
\* vertex, whose writes did not overlap, only while it executes again what it
\* had executed before a restart of the master: not when an answer is lost, a
\* worker is away, the files roll, nor when it is through with the repetition.
ReadsAdvance ==
    [][\A w \in Workers \ Range(Home), id \in Ids \ raced :
          again[w] = 0 => store'[w][id].content >= store[w][id].content]_vars

\* "Broadcasts keep flowing to offline workers": a worker that has registered
\* since the master started is a target of every broadcast, expired or not.
OfflineStillServed ==
    [][\A c \in Clients :
          req[c].phase = "applied" /\ req'[c].phase = "enqueue"
             => joined \subseteq Range(req'[c].targets)]_vars

\* "Offline workers catch up": in the end every worker agrees with the master
\* for ever, unless it has missed a broadcast.
CatchUp == \A w \in Workers : <>[](Agree(w) \/ w \in missed)

\* "The worker does not apply it locally": every write that a worker stores
\* was applied there once, so that versions agree too.
VersionsAgree ==
    \A w \in Workers : Quiet(w) /\ w \notin missed =>
        \A id \in Ids : store[w][id].there /\ store[Master][id].there
            => store[w][id].version = store[Master][id].version
=============================================================================
