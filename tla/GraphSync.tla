------------------------------ MODULE GraphSync ------------------------------
(***************************************************************************)
(* How a worker comes to have the graphs of the master: the requests of    *)
(* clients that create, describe, configure and delete graphs              *)
(* (gremlin/mod.rs) are broadcast to the worker, and each heartbeat of the *)
(* worker reports its graphs to the master, which answers with commands    *)
(* for whatever differs (cluster/server.rs, main.rs).  Broadcasts may be   *)
(* queued in another order than they were applied, or be missed; a         *)
(* heartbeat may be lost; a report may be stale when its commands are      *)
(* executed; and any request for a graph the worker does not know creates  *)
(* it there.                                                               *)
(*                                                                         *)
(* What a graph manager does under one lock is one call here.  The         *)
(* description and the time travel setting are one value, meta.            *)
(***************************************************************************)
EXTENDS Naturals, SequencesExt

CONSTANTS
    Names, Graph0,    \* names of graphs, the one there at first among them
    Metas, NoMeta,    \* descriptions, and the empty one
    Confs, Standard,  \* configurations, and the one of a new graph
    Clients,
    MaxChanges,       \* bound: requests of clients
    MaxReads,         \* bound: requests at the worker for graphs not known there
    MaxTroubles       \* bound: missed broadcasts and lost heartbeats

VARIABLES
    master, worker,   \* the registry of each, and the configurations in the directories
    pending,          \* requests applied at the master and not queued yet
    queue,            \* broadcasts to the worker
    calls,            \* what each task of the worker has still to do
    beat,             \* the heartbeat: the report, while it is under way
    changes, reads, troubles

boundVars == <<changes, reads, troubles>>
vars == <<master, worker, pending, queue, calls, beat, boundVars>>

Tasks == {"heartbeat", "replay", "handler"}

Entry(n, m) == [name |-> n, meta |-> m]
NamesOf(r) == {r.graphs[i].name : i \in DOMAIN r.graphs}
IndexOf(r, n) == CHOOSE i \in DOMAIN r.graphs : r.graphs[i].name = n
Said(r, n) == r.graphs[IndexOf(r, n)].meta
Fresh == [default |-> Graph0, graphs |-> <<Entry(Graph0, NoMeta)>>, conf |-> [n \in Names |-> Standard]]

-----------------------------------------------------------------------------
(***************************************************************************)
(* Calls of a graph manager: get, update_meta, set_graph_config, delete    *)
(* and set_default.                                                        *)
(***************************************************************************)
Call(op, n, m, c) == [op |-> op, name |-> n, meta |-> m, conf |-> c]

Opened(r, n) ==
    IF n \in NamesOf(r) THEN r ELSE [r EXCEPT !.graphs = Append(@, Entry(n, NoMeta))]

Described(r, n, m) ==
    [r EXCEPT !.graphs = [i \in DOMAIN @ |-> IF @[i].name = n THEN Entry(n, m) ELSE @[i]]]

Dropped(r, n) ==
    LET kept == SelectSeq(r.graphs, LAMBDA e : e.name # n)
    IN  [graphs  |-> kept,
         default |-> IF r.default = n /\ kept # <<>> THEN Head(kept).name ELSE r.default,
         conf    |-> [r.conf EXCEPT ![n] = Standard]]

Done(r, call) ==
    CASE call.op = "get"       -> Opened(r, call.name)
      [] call.op = "describe"  -> Described(r, call.name, call.meta)
      [] call.op = "configure" -> [Opened(r, call.name) EXCEPT !.conf[call.name] = call.conf]
      [] call.op = "delete"    -> Dropped(r, call.name)
      [] call.op = "default"   -> IF call.name \in NamesOf(r) THEN [r EXCEPT !.default = call.name] ELSE r

AllDone(r, list) == FoldLeft(Done, r, list)
Get(n) == Call("get", n, NoMeta, Standard)
Describe(n, m) == Call("describe", n, m, Standard)
Configure(n, c) == Call("configure", n, NoMeta, c)
Delete(n) == Call("delete", n, NoMeta, Standard)
Default(n) == Call("default", n, NoMeta, Standard)

\* The handler of a request: what it calls, nothing if it refuses.
Handled(r, req) ==
    CASE req.op = "create"   -> IF req.name \in NamesOf(r) THEN <<>> ELSE <<Get(req.name), Describe(req.name, req.meta)>>
      [] req.op = "describe" -> IF req.name \in NamesOf(r) THEN <<req>> ELSE <<>>
      [] req.op = "default"  -> IF req.name \in NamesOf(r) THEN <<req>> ELSE <<>>
      [] OTHER               -> <<req>>

Requests == {Call("create", n, m, Standard) : n \in Names, m \in Metas}
            \cup {Describe(n, m) : n \in Names, m \in Metas}
            \cup {Configure(n, c) : n \in Names, c \in Confs}
            \cup {Delete(n) : n \in Names} \cup {Default(n) : n \in Names}

NoRequest == Call("none", Graph0, NoMeta, Standard)
NoBeat == [sent |-> FALSE, seen |-> Fresh]

Init ==
    /\ master = Fresh /\ worker = Fresh
    /\ pending = [c \in Clients |-> NoRequest]
    /\ queue = <<>>
    /\ calls = [t \in Tasks |-> <<>>]
    /\ beat = NoBeat
    /\ changes = 0 /\ reads = 0 /\ troubles = 0

-----------------------------------------------------------------------------
\* A request, of a client of the master or forwarded by the worker, at the master.
Change(c, req) ==
    /\ pending[c] = NoRequest /\ changes < MaxChanges /\ changes' = changes + 1
    /\ Handled(master, req) # <<>>
    /\ master' = AllDone(master, Handled(master, req))
    /\ pending' = [pending EXCEPT ![c] = req]
    /\ UNCHANGED <<worker, queue, calls, beat, reads, troubles>>

Broadcast(c) ==
    /\ pending[c] # NoRequest
    /\ queue' = Append(queue, pending[c])
    /\ pending' = [pending EXCEPT ![c] = NoRequest]
    /\ UNCHANGED <<master, worker, calls, beat, boundVars>>

\* A creation that was forwarded is also done by the worker when it is answered.
BroadcastAndAnswer(c) ==
    /\ pending[c].op = "create" /\ calls["handler"] = <<>>
    /\ queue' = Append(queue, pending[c])
    /\ pending' = [pending EXCEPT ![c] = NoRequest]
    /\ calls' = [calls EXCEPT !["handler"] = <<Get(pending[c].name), Describe(pending[c].name, pending[c].meta)>>]
    /\ UNCHANGED <<master, worker, beat, boundVars>>

\* Fault: the worker is not among the known nodes, or fails to execute it.
BroadcastMissed(c) ==
    /\ pending[c] # NoRequest /\ troubles < MaxTroubles /\ troubles' = troubles + 1
    /\ pending' = [pending EXCEPT ![c] = NoRequest]
    /\ UNCHANGED <<master, worker, queue, calls, beat, changes, reads>>

Deliver ==
    /\ queue # <<>> /\ calls["replay"] = <<>>
    /\ calls' = [calls EXCEPT !["replay"] = Handled(worker, Head(queue))]
    /\ queue' = Tail(queue)
    /\ UNCHANGED <<master, worker, pending, beat, boundVars>>

\* The next call of a task of the worker.
Step(t) ==
    /\ calls[t] # <<>>
    /\ worker' = Done(worker, Head(calls[t]))
    /\ calls' = [calls EXCEPT ![t] = Tail(@)]
    /\ UNCHANGED <<master, pending, queue, beat, boundVars>>

\* A query at the worker for any graph: get creates it.
Read(n) ==
    /\ reads < MaxReads /\ reads' = reads + 1 /\ n \notin NamesOf(worker)
    /\ worker' = Opened(worker, n)
    /\ UNCHANGED <<master, pending, queue, calls, beat, changes, troubles>>

-----------------------------------------------------------------------------
\* Fault: only names and descriptions are compared.
DifferingNames(m, seen, n) ==
    IF Said(seen, n) # Said(m, n) THEN <<Describe(n, Said(m, n))>> ELSE <<>>

\* compute_graph_sync_commands: a graph both have,
Differing(m, seen, n) ==
    (IF Said(seen, n) # Said(m, n) THEN <<Describe(n, Said(m, n))>> ELSE <<>>)
    \o (IF seen.conf[n] # m.conf[n] THEN <<Configure(n, m.conf[n])>> ELSE <<>>)

\* one the worker lacks (CreateGraph, as apply_graph_sync_commands does it),
Lacking(m, n) == <<Get(n), Describe(n, Said(m, n)), Configure(n, m.conf[n])>>

\* then those the master lacks, and the default.
Commands(m, seen) ==
    LET mine == [i \in DOMAIN m.graphs |-> m.graphs[i].name]
        gone == SelectSeq([i \in DOMAIN seen.graphs |-> seen.graphs[i].name],
                          LAMBDA n : n \notin NamesOf(m))
    IN  FlattenSeq([i \in DOMAIN mine |-> IF mine[i] \in NamesOf(seen) THEN Differing(m, seen, mine[i])
                                          ELSE Lacking(m, mine[i])])
        \o [i \in DOMAIN gone |-> Delete(gone[i])]
        \o (IF seen.default # m.default THEN <<Default(m.default)>> ELSE <<>>)

\* The heartbeat loop of the worker: report, and execute what is answered.
Report ==
    /\ ~beat.sent /\ calls["heartbeat"] = <<>>
    /\ beat' = [sent |-> TRUE, seen |-> worker]
    /\ UNCHANGED <<master, worker, pending, queue, calls, boundVars>>

Acknowledge ==
    /\ beat.sent
    /\ calls' = [calls EXCEPT !["heartbeat"] = Commands(master, beat.seen)]
    /\ beat' = NoBeat
    /\ UNCHANGED <<master, worker, pending, queue, boundVars>>

\* Fault: the heartbeat or its answer is lost.
Lose ==
    /\ beat.sent /\ troubles < MaxTroubles /\ troubles' = troubles + 1
    /\ beat' = NoBeat
    /\ UNCHANGED <<master, worker, pending, queue, calls, changes, reads>>

Next ==
    \/ \E c \in Clients, req \in Requests : Change(c, req)
    \/ \E c \in Clients : Broadcast(c) \/ BroadcastAndAnswer(c) \/ BroadcastMissed(c)
    \/ Deliver
    \/ \E t \in Tasks : Step(t)
    \/ \E n \in Names : Read(n)
    \/ Report \/ Acknowledge \/ Lose

\* Handlers go on, the queue delivers, and the heartbeat loop runs for ever.
Fairness ==
    /\ WF_vars(\E c \in Clients : Broadcast(c))
    /\ WF_vars(Deliver)
    /\ \A t \in Tasks : WF_vars(Step(t))
    /\ WF_vars(Report) /\ WF_vars(Acknowledge)

Spec == Init /\ [][Next]_vars
FairSpec == Spec /\ Fairness

-----------------------------------------------------------------------------

TypeOK ==
    /\ master.default \in Names /\ worker.default \in Names
    /\ \A r \in {master, worker} : Len(r.graphs) = Cardinality(NamesOf(r))
    /\ DOMAIN calls = Tasks
    /\ \A i \in DOMAIN queue : queue[i] \in Requests

Agrees ==
    /\ NamesOf(worker) = NamesOf(master)
    /\ \A n \in NamesOf(master) : /\ Said(worker, n) = Said(master, n)
                                  /\ worker.conf[n] = master.conf[n]
    /\ master.default \in NamesOf(master) => worker.default = master.default

(***************************************************************************)
(* When clients stop, the worker comes to have exactly the graphs of the   *)
(* master, with the same descriptions, configurations and default, and     *)
(* keeps them: whatever broadcasts it missed or got in another order,      *)
(* whatever stale commands or local reads did to it.  A default that the   *)
(* master itself does not list (its last graph was deleted) is not         *)
(* followed.                                                               *)
(***************************************************************************)
SyncConverges == <>[]Agrees

(***************************************************************************)
(* The worker gives up a graph only while the master does not have it.     *)
(* Not so: the commands of a heartbeat and old broadcasts are executed     *)
(* without a look at the master, so a graph that was deleted and created   *)
(* again is deleted at the worker with what has been replicated since.     *)
(***************************************************************************)
DropsOnlyAbsent ==
    [][\A n \in NamesOf(worker) \ NamesOf(worker') : n \notin NamesOf(master)]_vars
=============================================================================
