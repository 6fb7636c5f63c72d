--------------------------- MODULE GraphLifecycle ---------------------------
(***************************************************************************)
(* The graphs of one process: which are open, which are registered, and    *)
(* what of that is on disk (graph_manager.rs, graph/graph_registry.rs and  *)
(* the handlers of gremlin/mod.rs for graphs).  Requests get, create,      *)
(* describe and delete graphs at the same time; each step below is what is *)
(* done under one lock or by one call of the file system.  The process may *)
(* die at any time, also while it writes the registry: the file is written *)
(* in place, and what is left of it then does not parse.                   *)
(*                                                                         *)
(* The description and the time travel setting of a graph are one value.   *)
(***************************************************************************)
EXTENDS Integers, SequencesExt, FiniteSetsExt

CONSTANTS
    Threads,
    Names,       \* names of graphs, as numbers: the order of the names
    Graph0,      \* the name "graph0"
    Metas,       \* what may be said of a graph
    NoMeta,      \* an empty description
    MaxOps,      \* bound: requests
    MaxCrashes   \* bound: crashes and stops

VARIABLES
    opened,    \* name -> handle of the open graph (0: none)
    handles,   \* handles given out
    reg,       \* the registry in memory: default, and names with what is said of them
    dirs,      \* directories with data
    file,      \* the registry on disk, and whether it is there and parses
    thread,    \* what each request is doing
    up,        \* the process runs
    ops, crashes,
    answered,  \* history: name -> handles answered since it was last deleted
    settled,   \* history: graphs answered to a client and not deleted since
    spoiled    \* history: graphs deleted while another request for them was under way

vars == <<opened, handles, reg, dirs, file, thread, up, ops, crashes, answered, settled, spoiled>>

Entry(n, m) == [name |-> n, meta |-> m]
NamesOf(r) == {r.graphs[i].name : i \in DOMAIN r.graphs}
Idle == [step |-> "idle", name |-> 0, handle |-> 0, meta |-> NoMeta]
Saved(r) == [ok |-> TRUE, reg |-> r]
Torn(f) == [f EXCEPT !.ok = FALSE]

\* The numbers of S in order.
Ascending(S) == CHOOSE q \in SetToSeqs(S) : \A i, j \in DOMAIN q : i < j => q[i] < q[j]

\* GraphRegistry::ensure, remove, update
Ensured(r, n) == IF n \in NamesOf(r) THEN r ELSE [r EXCEPT !.graphs = Append(@, Entry(n, NoMeta))]
Dropped(r, n) ==
    LET order == Ascending({i \in DOMAIN r.graphs : r.graphs[i].name # n})
        kept == [j \in DOMAIN order |-> r.graphs[order[j]]]
    IN  [graphs |-> kept,
         default |-> IF r.default = n /\ kept # <<>> THEN Head(kept).name ELSE r.default]
Described(r, n, m) ==
    [r EXCEPT !.graphs = [i \in DOMAIN @ |-> IF @[i].name = n THEN Entry(n, m) ELSE @[i]]]

\* Fault: a registry that cannot be read is begun anew without a look at the disk.
ScannedNot(found) == [default |-> Graph0, graphs |-> <<Entry(Graph0, NoMeta)>>]

\* GraphRegistry::create_initial from the directories that are there
Scanned(found) ==
    LET names == Ascending(found)
    IN  IF found = {} THEN [default |-> Graph0, graphs |-> <<Entry(Graph0, NoMeta)>>]
        ELSE [default |-> Head(names), graphs |-> [i \in DOMAIN names |-> Entry(names[i], NoMeta)]]

\* GraphRegistry::load, with the repair of an empty list or a stale default
Loaded(r) ==
    IF r.graphs = <<>> THEN [default |-> Graph0, graphs |-> <<Entry(Graph0, NoMeta)>>]
    ELSE IF r.default \in NamesOf(r) THEN r
    ELSE [r EXCEPT !.default = Head(r.graphs).name]

\* main: load or create the registry, open every graph in it, and graph0.
Started(f, found) == Ensured(IF f.ok THEN Loaded(f.reg) ELSE Scanned(found), Graph0)
HandlesOf(r, from) == [n \in Names |-> IF n \in NamesOf(r) THEN from + n ELSE 0]

Init ==
    LET r == Scanned({})
    IN  /\ reg = r /\ file = Saved(r)
        /\ dirs = NamesOf(r)
        /\ opened = HandlesOf(r, 0) /\ handles = Max(Names)
        /\ answered = [n \in Names |-> {opened[n]} \ {0}]
        /\ thread = [t \in Threads |-> Idle]
        /\ up = TRUE /\ ops = 0 /\ crashes = 0
        /\ settled = {} /\ spoiled = {}

-----------------------------------------------------------------------------
At(t, step) == up /\ thread[t].step = step
Goto(t, step) == [thread EXCEPT ![t].step = step]
Deleting(n) == \E t \in Threads : thread[t].name = n /\ thread[t].step \in {"remove", "unlist"}

\* A get or a create.  A graph that is registered is not created again.
Request(t, n, m) ==
    /\ At(t, "idle") /\ ops < MaxOps /\ ops' = ops + 1
    /\ m # NoMeta => n \notin NamesOf(reg)
    /\ thread' = [thread EXCEPT ![t] = [Idle EXCEPT !.step = "get", !.name = n, !.meta = m]]
    /\ spoiled' = IF Deleting(n) THEN spoiled \cup {n} ELSE spoiled
    /\ UNCHANGED <<handles, opened, reg, dirs, file, up, crashes, answered, settled>>

\* The request has its graph; a creation then describes it.
Answer(t, h) ==
    /\ answered' = [answered EXCEPT ![thread[t].name] = @ \cup {h}]
    /\ thread' = [thread EXCEPT ![t] = IF @.meta = NoMeta THEN Idle ELSE [@ EXCEPT !.step = "describe"]]
    /\ settled' = (settled \cup {thread[t].name}) \ spoiled

GetOpened(t) ==
    LET n == thread[t].name
    IN  /\ At(t, "get") /\ opened[n] # 0 /\ Answer(t, opened[n])
        /\ UNCHANGED <<handles, opened, reg, dirs, file, up, ops, crashes, spoiled>>

\* Not open: two requests may both come here.
Missed(t) ==
    /\ At(t, "get") /\ opened[thread[t].name] = 0
    /\ thread' = Goto(t, "open")
    /\ UNCHANGED <<handles, opened, reg, dirs, file, up, ops, crashes, answered, settled, spoiled>>

\* Graph::open; its handle is a number no other has.
Open(t) ==
    /\ At(t, "open")
    /\ dirs' = dirs \cup {thread[t].name}
    /\ handles' = handles + 1
    /\ thread' = [thread EXCEPT ![t].step = "list", ![t].handle = handles']
    /\ UNCHANGED <<opened, reg, file, up, ops, crashes, answered, settled, spoiled>>

List(t) ==
    LET r == Ensured(reg, thread[t].name)
    IN  /\ At(t, "list")
        /\ reg' = r
        /\ file' = IF r = reg THEN file ELSE Saved(r)
        /\ thread' = Goto(t, "insert")
        /\ UNCHANGED <<handles, opened, dirs, up, ops, crashes, answered, settled, spoiled>>

\* Fault: the graph is put in the map although another request was faster.
KeptAlways(n, h) == h

\* The graph another request has put in the map meanwhile goes first.
Kept(n, h) == IF opened[n] # 0 THEN opened[n] ELSE h

Insert(t) ==
    LET n == thread[t].name
        h == Kept(n, thread[t].handle)
    IN  /\ At(t, "insert")
        /\ opened' = [opened EXCEPT ![n] = h]
        /\ Answer(t, h)
        /\ UNCHANGED <<handles, reg, dirs, file, up, ops, crashes, spoiled>>

\* update_meta: of a creation, or a request of its own.
Describe(t) ==
    LET r == Described(reg, thread[t].name, thread[t].meta)
    IN  /\ At(t, "describe")
        /\ reg' = r
        /\ file' = IF thread[t].name \in NamesOf(reg) THEN Saved(r) ELSE file
        /\ thread' = [thread EXCEPT ![t] = Idle]
        /\ UNCHANGED <<handles, opened, dirs, up, ops, crashes, answered, settled, spoiled>>

UpdateMeta(t, n, m) ==
    /\ At(t, "idle") /\ ops < MaxOps /\ ops' = ops + 1
    /\ n \in NamesOf(reg)
    /\ thread' = [thread EXCEPT ![t] = [Idle EXCEPT !.step = "describe", !.name = n, !.meta = m]]
    /\ UNCHANGED <<handles, opened, reg, dirs, file, up, crashes, answered, settled, spoiled>>

SetDefault(t, n) ==
    /\ At(t, "idle") /\ ops < MaxOps /\ ops' = ops + 1
    /\ n \in NamesOf(reg)
    /\ reg' = [reg EXCEPT !.default = n]
    /\ file' = Saved(reg')
    /\ UNCHANGED <<handles, opened, dirs, thread, up, crashes, answered, settled, spoiled>>

\* delete: the graph leaves the map and is closed,
Close(t, n) ==
    /\ At(t, "idle") /\ ops < MaxOps /\ ops' = ops + 1
    /\ opened' = [opened EXCEPT ![n] = 0]
    /\ thread' = [thread EXCEPT ![t] = [Idle EXCEPT !.step = "remove", !.name = n]]
    /\ spoiled' = IF \E u \in Threads \ {t} : thread[u].name = n THEN spoiled \cup {n} ELSE spoiled
    /\ answered' = [answered EXCEPT ![n] = {}]
    /\ settled' = settled \ {n}
    /\ UNCHANGED <<handles, reg, dirs, file, up, crashes>>

\* then its directory goes, and then its entry.
RemoveDir(t) ==
    /\ At(t, "remove")
    /\ dirs' = dirs \ {thread[t].name}
    /\ thread' = Goto(t, "unlist")
    /\ UNCHANGED <<handles, opened, reg, file, up, ops, crashes, answered, settled, spoiled>>

Unlist(t) ==
    /\ At(t, "unlist")
    /\ reg' = Dropped(reg, thread[t].name)
    /\ file' = Saved(reg')
    /\ thread' = [thread EXCEPT ![t] = Idle]
    /\ UNCHANGED <<handles, opened, dirs, up, ops, crashes, answered, settled, spoiled>>

\* The process dies, perhaps while it writes the registry.
Crash ==
    /\ up /\ crashes < MaxCrashes /\ crashes' = crashes + 1
    /\ up' = FALSE
    /\ file' \in {file} \cup (IF \E t \in Threads : thread[t].step \in {"list", "describe", "unlist"}
                              THEN {Torn(file)} ELSE {})
    /\ thread' = [t \in Threads |-> Idle]
    /\ UNCHANGED <<handles, opened, reg, dirs, ops, answered, settled, spoiled>>

Restart ==
    /\ ~up /\ up' = TRUE /\ spoiled' = {}
    /\ reg' = Started(file, dirs) /\ file' = Saved(reg')
    /\ dirs' = dirs \cup NamesOf(reg')
    /\ opened' = HandlesOf(reg', handles) /\ handles' = handles + Max(Names)
    /\ answered' = [n \in Names |-> {opened'[n]} \ {0}]
    /\ UNCHANGED <<thread, ops, crashes, settled>>

Next ==
    \/ \E t \in Threads, n \in Names, m \in Metas \cup {NoMeta} : Request(t, n, m)
    \/ \E t \in Threads : GetOpened(t) \/ Missed(t) \/ Open(t) \/ List(t) \/ Insert(t) \/ Describe(t)
    \/ \E t \in Threads, n \in Names, m \in Metas : UpdateMeta(t, n, m)
    \/ \E t \in Threads, n \in Names : SetDefault(t, n) \/ Close(t, n)
    \/ \E t \in Threads : RemoveDir(t) \/ Unlist(t)
    \/ Crash
    \/ Restart

Spec == Init /\ [][Next]_vars

-----------------------------------------------------------------------------
TypeOK ==
    /\ \A n \in Names : opened[n] \in Nat /\ answered[n] \subseteq Nat
    /\ NamesOf(reg) \subseteq Names /\ reg.default \in Names
    /\ dirs \subseteq Names /\ settled \subseteq Names
    /\ \A t \in Threads : thread[t].step \in {"idle", "get", "open", "list", "insert", "describe",
                                              "remove", "unlist"}

(***************************************************************************)
(* All requests for a graph work on one and the same open graph, from its  *)
(* first opening until it is deleted: two opened at once would keep two    *)
(* caches and two logs of the same files (GraphManager::get).              *)
(***************************************************************************)
OneHandle == \A n \in Names : Cardinality(answered[n]) <= 1

(***************************************************************************)
(* A graph that was answered to a client, and that nobody deletes after    *)
(* that, is listed in the registry once and has its directory, whatever    *)
(* other graphs are created or deleted meanwhile and wherever the process  *)
(* dies, also in the middle of writing the registry                        *)
(* (GraphRegistry::load, create_initial).  It is not said of a graph that  *)
(* was deleted while another request opened it: such a graph stays open    *)
(* without a directory until the process restarts.                         *)
(***************************************************************************)
SettledListed ==
    up => \A n \in settled : /\ Cardinality({i \in DOMAIN reg.graphs : reg.graphs[i].name = n}) = 1
                             /\ n \in dirs
=============================================================================
