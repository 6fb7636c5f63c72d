----------------------------- MODULE GraphIndex -----------------------------
(***************************************************************************)
(* Vertices and edges of one graph with the in-memory index that leads to  *)
(* them: the operations of graph/crud.rs and graph/batch.rs under the      *)
(* locks of graph/locked.rs, over storage/memory_index.rs, and the rank    *)
(* decay of graph/rank_decay.rs.                                           *)
(*                                                                         *)
(* A step is what an operation does between two locks or two accesses to   *)
(* the records: the index is locked for one step only, and records are     *)
(* read and written without it.  A request is a list of tasks; its thread  *)
(* holds a record of where it is.  The decay pass is one more actor.       *)
(*                                                                         *)
(* A record has one name, one label and at most one value of the one       *)
(* property that is indexed.  Its place keeps its contents after it was    *)
(* freed, until it is used again.                                          *)
(***************************************************************************)
EXTENDS Integers, SequencesExt, FiniteSetsExt

CONSTANTS
    Threads,
    NumPlaces,   \* bound: places for records
    MaxIds,      \* bound: ids of vertices, and of edges
    MaxOps,      \* bound: requests
    MaxPasses,   \* bound: decay passes
    MaxAtWork,   \* bound: actors at work at once
    Payloads,    \* [name, label, value] a record may have
    Requests,    \* [op, kind, id, arg] a client may send
    Saved,       \* the records that are there at first
    None         \* no value

Kinds == {"vertex", "edge"}
Places == 1..NumPlaces
Ids == 1..MaxIds
Names == {d.name : d \in Payloads}
Labels == {d.label : d \in Payloads}
Values == {d.value : d \in Payloads} \ {None}
Fields == {"name", "label", "value"}
Actors == Threads \cup {"decay"}

VARIABLES
    g,         \* the records and the index
    thread,    \* what each actor is doing
    now,       \* the clock: it ticks when a request or a decay pass begins
    passes,    \* decay passes that began
    updated,   \* history: some record was updated
    clashed,   \* history: places at which two worked at once, or that decay read when free
    misled     \* history: places, and entities, that an operation took for others

vars == <<g, thread, now, passes, updated, clashed, misled>>

(***************************************************************************)
(* Records: a header (kind, id, status, rank, atime) and a payload.        *)
(***************************************************************************)
Blank == [kind |-> "none", id |-> 0, status |-> "Normal", rank |-> 0, atime |-> 0,
          name |-> None, label |-> None, value |-> None, source |-> 0, target |-> 0]

Record(k, i, d, s, t) ==
    [kind |-> k, id |-> i, status |-> "Normal", rank |-> 1, atime |-> now,
     name |-> d.name, label |-> d.label, value |-> d.value, source |-> s, target |-> t]

\* update_header_in_place: the payload stays.
Headed(r, h) == [h EXCEPT !.name = r.name, !.label = r.label, !.value = r.value,
                          !.source = r.source, !.target = r.target]

SamePayload(r, s) == Headed(r, Blank) = Headed(s, Blank)

(***************************************************************************)
(* The index: what one step does to it.                                    *)
(***************************************************************************)
Empty ==
    [rec    |-> [p \in Places |-> Blank],
     used   |-> {},
     made   |-> [k \in Kinds |-> 0],                          \* ids given out
     ids    |-> [k \in Kinds |-> [i \in Ids |-> 0]],          \* id -> place, 0: none
     names  |-> [k \in Kinds |-> [n \in Names |-> 0]],        \* name -> id, 0: none
     labels |-> [k \in Kinds |-> [l \in Labels |-> <<>>]],    \* label -> places
     props  |-> [k \in Kinds |-> [v \in Values |-> <<>>]],    \* value -> places
     ranks  |-> <<>>,                                         \* rank index, in order of insertion
     atimes |-> <<>>,                                         \* atime index, likewise
     out    |-> [i \in Ids |-> <<>>],                         \* adjacency: edges from a vertex
     inc    |-> [i \in Ids |-> <<>>]]                         \* and to it

Ranking(r, p) == [rank |-> r, ptr |-> p]
Access(t, p) == [at |-> t, ptr |-> p]
Link(e, v, p) == [edge |-> e, end |-> v, ptr |-> p]
Without(q, x) == SelectSeq(q, LAMBDA y : y # x)
At(h, k, i) == h.rec[h.ids[k][i]]
Readable(h, k, i) == h.ids[k][i] # 0 /\ At(h, k, i).status = "Normal"
Live(h, k) == {i \in Ids : h.ids[k][i] # 0}
Ascending(S) == SetToSortSeq(S, <)
EdgesOf(links) == [n \in DOMAIN links |-> links[n].edge]

WithValue(props, v, p) == IF v = None THEN props ELSE [props EXCEPT ![v] = Append(@, p)]
WithoutValue(props, v, p) == IF v = None THEN props ELSE [props EXCEPT ![v] = Without(@, p)]

\* An entry of the rank or of the atime index is replaced.
Reranked(h, old, new) == [h EXCEPT !.ranks = Append(Without(@, old), new)]
Accessed(h, old, new) == [h EXCEPT !.atimes = Append(Without(@, old), new)]

\* AdjacencyIndex::add_edge and remove_edge
Joined(h, e, s, t, p) ==
    [h EXCEPT !.out[s] = Append(@, Link(e, t, p)), !.inc[t] = Append(@, Link(e, s, p))]
Parted(h, s, t, p) ==
    LET Other(v, x) == x.end # v \/ x.ptr # p
    IN  [h EXCEPT !.out[s] = SelectSeq(@, LAMBDA x : Other(t, x)),
                  !.inc[t] = SelectSeq(@, LAMBDA x : Other(s, x))]

Stored(h, p, r) == [h EXCEPT !.rec[p] = r, !.used = @ \cup {p}]

\* A new record is entered in the index,
Entered(h, p, r) ==
    LET h1 == [h EXCEPT !.ids[r.kind][r.id] = p, !.names[r.kind][r.name] = r.id,
                        !.labels[r.kind][r.label] = Append(@, p),
                        !.props[r.kind] = WithValue(@, r.value, p),
                        !.ranks = Append(@, Ranking(1, p))]
    IN  IF r.kind = "edge" THEN Joined(h1, r.id, r.source, r.target, p) ELSE h1

\* Fault: the label index keeps the place of a record that is gone.
StruckButLabel(h, p, r) ==
    LET h1 == [h EXCEPT !.names[r.kind][r.name] = 0, !.props[r.kind] = WithoutValue(@, r.value, p)]
    IN  IF r.kind = "edge" THEN Parted(h1, r.source, r.target, p) ELSE h1

\* and what a payload says of it is struck again.
Struck(h, p, r) ==
    LET h1 == [h EXCEPT !.names[r.kind][r.name] = 0, !.labels[r.kind][r.label] = Without(@, p),
                        !.props[r.kind] = WithoutValue(@, r.value, p)]
    IN  IF r.kind = "edge" THEN Parted(h1, r.source, r.target, p) ELSE h1

\* The graph that was opened, with the index that was saved: a record of rank 1
\* was never read, and is not in the atime index.
Opened ==
    LET Add(h, x) ==
            LET p == Cardinality(h.used) + 1
                h1 == Reranked(Entered(Stored(h, p, x), p, x), Ranking(1, p), Ranking(x.rank, p))
            IN  IF x.rank = 1 THEN h1 ELSE Accessed(h1, Access(0, p), Access(x.atime, p))
        made == [k \in Kinds |-> Len(SelectSeq(Saved, LAMBDA x : x.kind = k))]
    IN  [FoldLeft(Add, Empty, Saved) EXCEPT !.made = made]

(***************************************************************************)
(* Actors.  todo: the tasks of the request, the first under way.  step:    *)
(* where it is with it.  edges: those a vertex deletion has still to       *)
(* delete.  ptr, copy: the places it works at; at: when the copy was made; *)
(* held: the record it read or wrote there, Blank before.  vids, eids,     *)
(* doomed: what a batch has looked up, and the edges it is to delete.      *)
(***************************************************************************)
Do(op, k, i, arg) == [op |-> op, kind |-> k, id |-> i, arg |-> arg]
Idle == [todo |-> <<>>, step |-> "start", edges |-> <<>>,
         ptr |-> 0, copy |-> 0, at |-> 0, held |-> Blank,
         vids |-> [n \in Names |-> 0], eids |-> {}, doomed |-> {}]

Init ==
    /\ g = Opened /\ thread = [t \in Actors |-> Idle] /\ now = 1 /\ passes = 0
    /\ updated = FALSE /\ clashed = {} /\ misled = {}

\* batch_import, upsert_vertex, upsert_edge: what a put comes to, by what the
\* import knows then; without "update" it is always a creation.
Resolved(x, vids, eids) ==
    LET a == x.arg
        key == <<a.source, a.target, a.data.name>>
        known == {e.id : e \in {e \in eids : e.key = key}}
        Edit(i) == Do("update", x.kind, i, [data |-> a.data, fields |-> Fields])
        New(s, t) == Do("create", x.kind, 0, [data |-> a.data, source |-> s, target |-> t, key |-> key])
    IN  IF x.kind = "vertex"
        THEN IF a.update /\ vids[a.data.name] # 0 THEN Edit(vids[a.data.name]) ELSE New(0, 0)
        ELSE IF 0 \in {vids[a.source], vids[a.target]} THEN Do("skip", "edge", 0, None)
        ELSE IF a.update /\ known # {} THEN Edit(Max(known)) ELSE New(vids[a.source], vids[a.target])

Task(t) ==
    LET x == Head(thread[t].todo)
    IN  IF x.op = "put" THEN Resolved(x, thread[t].vids, thread[t].eids) ELSE x

Busy(t) == thread[t].todo # <<>>
Is(t, step) == Busy(t) /\ thread[t].step = step
Starting(t, ops) == Is(t, "start") /\ Task(t).op \in ops
Holds(t, p) == thread[t].held # Blank /\ p \in {thread[t].ptr, thread[t].copy}

\* What the task is about: in a vertex deletion, first the edges.
Target(t) ==
    IF thread[t].edges # <<>> THEN <<"edge", Head(thread[t].edges)>> ELSE <<Task(t).kind, Task(t).id>>
PtrOf(e) == g.ids[e[1]][e[2]]

\* A thread takes up the next task, or is idle.
Turned(a, todo) ==
    IF todo = <<>> THEN Idle
    ELSE [a EXCEPT !.todo = todo, !.step = "start", !.edges = <<>>,
                   !.ptr = 0, !.copy = 0, !.at = 0, !.held = Blank]
Ended(t) == [thread EXCEPT ![t] = Turned(@, Tail(@.todo))]
Goto(t, step) == [thread EXCEPT ![t].step = step]
NextTarget(t) ==
    IF thread[t].edges = <<>> THEN Ended(t)
    ELSE [thread EXCEPT ![t].edges = Tail(@), ![t].step = "look", ![t].ptr = 0, ![t].held = Blank]

(***************************************************************************)
(* Locks of vertices and edges: a read is shared, an update and a deletion *)
(* exclusive, for the whole of the operation.  Nothing else takes one: not *)
(* a creation, not a change of metadata, not the edges of a deleted vertex,*)
(* not the reads that look up edges for an import, and not decay.          *)
(***************************************************************************)
Conflict(a, b) ==
    /\ a.kind = b.kind /\ a.id = b.id
    /\ {a.op, b.op} \subseteq {"get", "update", "soft", "hard"} /\ {a.op, b.op} # {"get"}
Granted(t) == \A u \in Threads \ {t} : Busy(u) /\ ~Is(u, "start") => ~Conflict(Task(t), Task(u))

\* To read a header is to begin work at its place.
Clash(t, p) == IF p \in g.used /\ \A u \in Actors \ {t} : ~Holds(u, p) THEN {} ELSE {p}
Reads(t, p, step) ==
    /\ thread' = [thread EXCEPT ![t].ptr = p, ![t].held = g.rec[p], ![t].step = step]
    /\ clashed' = clashed \cup Clash(t, p)

\* Free places; those that were never used are alike, and one stands for all.
Vacant == {p \in Places \ g.used : g.rec[p] # Blank \/ \A q \in 1..(p - 1) : g.rec[q] # Blank}

\* A place is given out that somebody still works at: he takes it for his own.
\* The index may say things of such a place that nobody strikes any more.
Given(p, k, i) ==
    LET disturbed == {u \in Actors : Holds(u, p)}
    IN  IF disturbed = {} /\ <<"place", p>> \notin misled THEN UNCHANGED <<clashed, misled>>
        ELSE /\ clashed' = clashed \cup {p}
             /\ misled' = misled \cup {<<"place", p>>, <<k, i>>}
                                 \cup {Target(u) : u \in disturbed \ {"decay"}}

Keep == UNCHANGED <<now, passes, updated, clashed, misled>>

(***************************************************************************)
(* Requests, and decay passes.  Threads are alike: one that is idle takes  *)
(* the request.  A pass collects the entries of the atime index up to a    *)
(* time and visits their places one by one.                                *)
(***************************************************************************)
Room == Cardinality({t \in Actors : Busy(t)}) < MaxAtWork

Begin(x) ==
    LET idle == {t \in Threads : ~Busy(t)}
        ends == IF x.op = "create" /\ x.kind = "edge" THEN {x.arg.source, x.arg.target} ELSE {}
    IN  /\ Room /\ idle # {} /\ now - passes <= MaxOps /\ now' = now + 1
        \* A client names entities that it knows.
        /\ x.id # 0 => x.id \in Live(g, x.kind)
        /\ ends \subseteq Live(g, "vertex")
        \* Requests that came before are under way, or wait for a lock.
        /\ \A t \in Threads : Is(t, "start") => ~Granted(t)
        /\ thread' = [thread EXCEPT ![CHOOSE t \in idle : TRUE].todo = <<x>>]
        /\ UNCHANGED <<g, passes, updated, clashed, misled>>

DecayCollect ==
    \E threshold \in 1..now :
        LET AtTime(a) == SelectSeq(g.atimes, LAMBDA e : e.at = a)
            inactive == FlattenSeq([a \in 1..threshold |-> AtTime(a)])
        IN  /\ ~Busy("decay") /\ inactive # <<>>
            /\ Room /\ passes < MaxPasses /\ passes' = passes + 1 /\ now' = now + 1
            /\ thread' = [thread EXCEPT !["decay"].todo =
                              [n \in DOMAIN inactive |-> Do("decay", "none", 0, inactive[n])]]
            /\ UNCHANGED <<g, updated, clashed, misled>>

(***************************************************************************)
(* Reads, changes of the rank, and decay: the place is looked up, the      *)
(* header read, the index changed and the header written, one after the    *)
(* other.                                                                  *)
(***************************************************************************)
Look(t) ==
    /\ \/ Is(t, "look") \/ Starting(t, {"get", "lookup", "meta"})
       \/ Starting(t, {"soft", "hard"}) /\ Task(t).kind = "edge"
    /\ Is(t, "start") => Granted(t)
    /\ LET next == IF Task(t).op \in {"get", "lookup"} THEN "check" ELSE "read"
       IN  thread' = IF PtrOf(Target(t)) = 0 THEN Ended(t)
                     ELSE [thread EXCEPT ![t].ptr = PtrOf(Target(t)), ![t].step = next]
    /\ UNCHANGED g /\ Keep

\* A deleted record is not found; build_edge_lookup notes what it reads.
Check(t) ==
    LET r == g.rec[thread[t].ptr]
        Called(v) == {n \in Names : thread[t].vids[n] = v}
        keys == {<<m, n, r.name>> : m \in Called(r.source), n \in Called(r.target)}
        noted == IF Task(t).op = "lookup" THEN {[key |-> key, id |-> Task(t).id] : key \in keys} ELSE {}
    IN  /\ Is(t, "check")
        /\ thread' = IF r.status = "Deleted" \/ r.kind # Task(t).kind THEN Ended(t)
                     ELSE [thread EXCEPT ![t].step = "read", ![t].eids = @ \cup noted]
        /\ UNCHANGED g /\ Keep

Read(t) ==
    LET p == thread[t].ptr
        r == g.rec[p]
        op == Task(t).op
        next == IF op = "soft" THEN "mark" ELSE IF op = "hard" THEN "free" ELSE "move"
    IN  /\ Is(t, "read")
        /\ IF op = "meta" /\ r.rank = Task(t).arg THEN thread' = Ended(t) /\ UNCHANGED clashed
           ELSE Reads(t, p, next)
        \* A deletion that looked the place up before it was used again.
        /\ misled' = IF op = "hard" /\ p \in g.used /\ <<r.kind, r.id>> # Target(t)
                     THEN misled \cup {<<"place", p>>, <<r.kind, r.id>>} ELSE misled
        /\ UNCHANGED <<g, now, passes, updated>>

\* try_decay: nothing says that the record at the place is the one collected.
Visit(t) ==
    LET p == Task(t).arg.ptr
    IN  /\ Starting(t, {"decay"})
        /\ IF g.rec[p].rank = 0 THEN thread' = Ended(t) /\ UNCHANGED clashed
           ELSE Reads(t, p, "move")
        /\ UNCHANGED <<g, now, passes, updated, misled>>

\* update_rank_and_atime and try_decay
Move(t) ==
    LET p == thread[t].ptr
        old == thread[t].held
        decays == Task(t).op = "decay"
        rank == IF decays THEN old.rank - 1 ELSE old.rank + 1
        at == IF decays THEN Task(t).arg.at ELSE old.atime
        h == Reranked(g, Ranking(old.rank, p), Ranking(rank, p))
    IN  /\ Is(t, "move") /\ Task(t).op # "meta"
        /\ g' = Accessed(h, Access(at, p), Access(now, p))
        /\ thread' = [thread EXCEPT ![t].held = [@ EXCEPT !.rank = rank, !.atime = now], ![t].step = "write"]
        /\ Keep

\* update_vertex_meta and update_edge_meta, which read the header once more.
SetRank(t) ==
    LET p == thread[t].ptr
    IN  /\ Is(t, "move") /\ Task(t).op = "meta"
        /\ g' = Reranked(g, Ranking(thread[t].held.rank, p), Ranking(Task(t).arg, p))
        /\ thread' = Goto(t, "reread") /\ Keep

Reread(t) ==
    LET header == [g.rec[thread[t].ptr] EXCEPT !.rank = Task(t).arg, !.atime = thread[t].held.atime]
    IN  /\ Is(t, "reread")
        /\ thread' = [thread EXCEPT ![t].held = header, ![t].step = "write"]
        /\ UNCHANGED g /\ Keep

Write(t) ==
    /\ Is(t, "write")
    /\ g' = [g EXCEPT !.rec[thread[t].ptr] = Headed(@, thread[t].held)]
    /\ thread' = Ended(t) /\ Keep

(***************************************************************************)
(* Creation and update.  An update copies the record to a new place;       *)
(* values are indexed under the place it leaves, labels not at all, and a  *)
(* deleted record is Normal again.                                         *)
(***************************************************************************)
Put(t) ==
    LET k == Task(t).kind
        i == g.made[k] + 1
        r == Record(k, i, Task(t).arg.data, Task(t).arg.source, Task(t).arg.target)
    IN  /\ Starting(t, {"create"}) /\ i <= MaxIds
        /\ \E p \in Vacant :
              /\ g' = [Stored(g, p, r) EXCEPT !.made[k] = i]
              /\ thread' = [thread EXCEPT ![t].ptr = p, ![t].held = r, ![t].step = "index"]
              /\ Given(p, k, i)
        /\ UNCHANGED <<now, passes, updated>>

\* An end of an edge may be gone by now, or on its way with its edges collected.
Leaving(t, v) ==
    \/ g.ids["vertex"][v] = 0
    \/ \E u \in Threads \ {t} :
           Busy(u) /\ ~Is(u, "start") /\ <<Task(u).op, Task(u).kind, Task(u).id>> = <<"hard", "vertex", v>>

Index(t) ==
    LET r == thread[t].held
        key == [key |-> Task(t).arg.key, id |-> r.id]
        known == IF r.kind = "edge" THEN [thread[t] EXCEPT !.eids = @ \cup {key}]
                 ELSE [thread[t] EXCEPT !.vids[r.name] = r.id]
    IN  /\ Is(t, "index")
        /\ g' = Entered(g, thread[t].ptr, r)
        /\ thread' = [thread EXCEPT ![t] = Turned(known, Tail(@.todo))]
        /\ misled' = IF r.kind = "edge" /\ \E v \in {r.source, r.target} : Leaving(t, v)
                     THEN misled \cup {<<"edge", r.id>>} ELSE misled
        /\ UNCHANGED <<now, passes, updated, clashed>>

Fetch(t) ==
    LET p == PtrOf(Target(t))
        next == IF "value" \in Task(t).arg.fields THEN "reindex" ELSE "copy"
    IN  /\ Starting(t, {"update"}) /\ Granted(t)
        /\ IF p = 0 \/ g.rec[p].kind # Task(t).kind
           THEN thread' = Ended(t) /\ UNCHANGED <<updated, clashed>>
           ELSE Reads(t, p, next) /\ updated' = TRUE
        /\ UNCHANGED <<g, now, passes, misled>>

Reindex(t) ==
    LET a == thread[t]
    IN  /\ Is(t, "reindex")
        /\ g' = [g EXCEPT !.props[Task(t).kind] =
                     WithValue(WithoutValue(@, a.held.value, a.ptr), Task(t).arg.data.value, a.ptr)]
        /\ thread' = Goto(t, "copy") /\ Keep

Copy(t) ==
    LET old == thread[t].held
        Field(f) == IF f \in Task(t).arg.fields THEN Task(t).arg.data[f] ELSE old[f]
        header == [old EXCEPT !.kind = Task(t).kind, !.id = Task(t).id, !.status = "Normal",
                              !.rank = @ + 1, !.atime = now]
        r == [header EXCEPT !.name = Field("name"), !.label = Field("label"), !.value = Field("value")]
    IN  /\ Is(t, "copy")
        /\ \E p \in Vacant :
              /\ g' = Stored(g, p, r)
              /\ thread' = [thread EXCEPT ![t].copy = p, ![t].at = now, ![t].step = "install"]
              /\ Given(p, Task(t).kind, Task(t).id)
        /\ UNCHANGED <<now, passes, updated>>

Install(t) ==
    LET k == Task(t).kind
        i == Task(t).id
        p == thread[t].ptr
        q == thread[t].copy
        old == thread[t].held
        h1 == Reranked([g EXCEPT !.ids[k][i] = q], Ranking(old.rank, p), Ranking(old.rank + 1, q))
        h2 == Accessed(h1, Access(old.atime, p), Access(thread[t].at, q))
        Renamed(h) == [h EXCEPT !.names[k][old.name] = 0, !.names[k][Task(t).arg.data.name] = i]
    IN  /\ Is(t, "install")
        /\ g' = IF k = "edge"
                THEN Joined(Parted(h2, old.source, old.target, p), i, old.source, old.target, q)
                ELSE IF "name" \in Task(t).arg.fields THEN Renamed(h2) ELSE h2
        /\ thread' = Goto(t, "release")
        \* An edge that was deleted meanwhile with one of its ends is back.
        /\ misled' = IF g.ids[k][i] = p THEN misled ELSE misled \cup {<<k, i>>, <<"place", q>>}
        /\ UNCHANGED <<now, passes, updated, clashed>>

Release(t) ==
    /\ Is(t, "release")
    /\ g' = [g EXCEPT !.used = @ \ {thread[t].ptr}]
    /\ thread' = Ended(t) /\ Keep

(***************************************************************************)
(* Deletion.  cascade_delete_edges collects both lists of the vertex, and  *)
(* deletes edge by edge until one is not found: an edge from a vertex to   *)
(* itself is in both lists.  Then the deletion fails, and the vertex stays.*)
(***************************************************************************)
Starts(t) == Starting(t, {"soft", "hard"}) /\ Task(t).kind = "vertex" /\ Granted(t)


Collect(t) ==
    /\ Starts(t)
    /\ thread' = [thread EXCEPT ![t].edges = EdgesOf(g.out[Task(t).id] \o g.inc[Task(t).id]),
                                ![t].step = "look"]
    /\ UNCHANGED g /\ Keep

\* A soft deletion leaves the record everywhere but in the rank index.
Mark(t) ==
    /\ Is(t, "mark")
    /\ g' = [g EXCEPT !.rec[thread[t].ptr] = Headed(@, [thread[t].held EXCEPT !.status = "Deleted"])]
    /\ thread' = Goto(t, "unrank") /\ Keep

Unrank(t) ==
    /\ Is(t, "unrank")
    /\ g' = [g EXCEPT !.ranks = Without(@, Ranking(thread[t].held.rank, thread[t].ptr))]
    /\ thread' = NextTarget(t) /\ Keep

\* A hard deletion frees the place first,
Free(t) ==
    /\ Is(t, "free")
    /\ g' = [g EXCEPT !.used = @ \ {thread[t].ptr}]
    /\ thread' = Goto(t, "unindex") /\ Keep

\* and then reads the name, the label and the value from it: by then another
\* record may be there, and what is read may or may not parse.
Unindex(t) ==
    LET k == Target(t)[1]
        i == Target(t)[2]
        p == thread[t].ptr
        old == thread[t].held
    IN  /\ Is(t, "unindex")
        /\ \E parsed \in BOOLEAN :
              /\ SamePayload(g.rec[p], old) => parsed
              /\ parsed => g.rec[p].kind = k
              /\ LET h == IF parsed THEN Struck(g, p, g.rec[p]) ELSE g
                 IN  g' = [h EXCEPT !.ids[k][i] = 0, !.ranks = Without(@, Ranking(old.rank, p))]
        /\ thread' = NextTarget(t)
        \* An update has moved the record meanwhile: its new place is lost.
        /\ misled' = IF g.ids[k][i] = p THEN misled ELSE misled \cup {<<k, i>>, <<"place", g.ids[k][i]>>}
        /\ UNCHANGED <<now, passes, updated, clashed>>

(***************************************************************************)
(* Batches: a task stands for others, which are found when its turn comes. *)
(* Names are looked up once, before the first of them.                     *)
(***************************************************************************)
Expand(t, tasks) ==
    /\ thread' = [thread EXCEPT ![t] = Turned(@, tasks \o Tail(@.todo))]
    /\ UNCHANGED g /\ Keep

Named(t, tasks) ==
    /\ thread' = [thread EXCEPT ![t] = Turned([@ EXCEPT !.vids = g.names["vertex"]], tasks)]
    /\ UNCHANGED g /\ Keep

BatchImport(t) ==
    LET x == Task(t).arg
        PutOf(k, d, source, target) ==
            Do("put", k, 0, [data |-> d, source |-> source, target |-> target, update |-> x.update])
        Relation(r) == PutOf("edge", r.data, r.source, r.target)
        puts == [n \in DOMAIN x.entities |-> PutOf("vertex", x.entities[n], None, None)]
                \o [n \in DOMAIN x.relations |-> Relation(x.relations[n])]
    IN  /\ Starting(t, {"import"})
        /\ Named(t, IF x.update THEN <<Do("list", "edge", 0, None)>> \o puts ELSE puts)

\* With "update", every edge of the index is read to learn its name and ends.
List(t) ==
    LET es == Ascending(Live(g, "edge"))
    IN  Starting(t, {"list"}) /\ Expand(t, [n \in DOMAIN es |-> Do("lookup", "edge", es[n], None)])

\* A relation whose ends are not known
Skip(t) == Starting(t, {"skip"}) /\ Expand(t, <<>>)

BatchDelete(t) ==
    LET x == Task(t).arg
        drops == [n \in DOMAIN x.edges |-> Do("drop", "edge", 0, x.edges[n])]
        Gathering(n) == Do("gather", "vertex", g.names["vertex"][n], None)
        gathers == [n \in DOMAIN x.vertices |-> Gathering(x.vertices[n])]
        known == SelectSeq(gathers, LAMBDA y : y.id # 0)
    IN  Starting(t, {"remove"}) /\ Named(t, drops \o known \o <<Do("purge", "edge", 0, None)>>)

\* A listed edge is looked for by its ends alone, whatever its name.
Drop(t) ==
    LET s == thread[t].vids[Task(t).arg.source]
        v == thread[t].vids[Task(t).arg.target]
        links == IF s = 0 THEN <<>> ELSE SelectSeq(g.out[s], LAMBDA x : x.end = v)
    IN  /\ Starting(t, {"drop"})
        /\ Expand(t, IF links = <<>> THEN <<>> ELSE <<Do("hard", "edge", Head(links).edge, None)>>)

\* The edges of all vertices to delete are collected, and deleted before them.
Gather(t) ==
    LET v == Task(t).id
        es == Range(EdgesOf(g.out[v] \o g.inc[v]))
    IN  /\ Starting(t, {"gather"})
        /\ thread' = [thread EXCEPT ![t] = Turned([@ EXCEPT !.doomed = @ \cup es],
                                                  Append(Tail(@.todo), Do("hard", "vertex", v, None)))]
        /\ UNCHANGED g /\ Keep

Purge(t) ==
    LET es == Ascending(thread[t].doomed)
    IN  Starting(t, {"purge"}) /\ Expand(t, [n \in DOMAIN es |-> Do("hard", "edge", es[n], None)])

Steps(t) ==
    \/ Look(t) \/ Check(t) \/ Read(t) \/ Move(t) \/ SetRank(t) \/ Reread(t) \/ Write(t)
    \/ Put(t) \/ Index(t) \/ Fetch(t) \/ Reindex(t) \/ Copy(t) \/ Install(t) \/ Release(t)
    \/ Collect(t) \/ Mark(t) \/ Unrank(t) \/ Free(t) \/ Unindex(t)
    \/ BatchImport(t) \/ List(t) \/ Skip(t) \/ BatchDelete(t) \/ Drop(t) \/ Gather(t) \/ Purge(t)

Next ==
    \/ DecayCollect
    \/ \E x \in Requests : Begin(x)
    \/ \E t \in Threads : Steps(t)
    \/ Visit("decay") \/ Move("decay") \/ Write("decay")

Spec == Init /\ [][Next]_vars

-----------------------------------------------------------------------------
Entities(h) == {e \in Kinds \X Ids : h.ids[e[1]][e[2]] # 0}

\* Places and entities that no operation has taken for others, and places at
\* which nobody is at work, or ever was with another.
Sure(p) == <<"place", p>> \notin misled /\ \A u \in Actors : ~Holds(u, p)
Calm(p) == Sure(p) /\ p \notin clashed

(***************************************************************************)
(* Types.                                                                  *)
(***************************************************************************)
TypeOK ==
    /\ g.used \subseteq Places
    /\ \A p \in Places : g.rec[p].kind \in Kinds \cup {"none"} /\ g.rec[p].rank \in Nat
    /\ g.made \in [Kinds -> 0..MaxIds] /\ g.ids \in [Kinds -> [Ids -> Places \cup {0}]]
    /\ g.names \in [Kinds -> [Names -> Ids \cup {0}]]
    /\ g.labels \in [Kinds -> [Labels -> Seq(Places)]] /\ g.props \in [Kinds -> [Values -> Seq(Places)]]
    /\ \A v \in Ids : \A x \in Range(g.out[v] \o g.inc[v]) : {x.edge, x.end} \subseteq Ids /\ x.ptr \in Places
    /\ \A x \in Range(g.ranks) : x.rank \in Nat /\ x.ptr \in Places
    /\ \A x \in Range(g.atimes) : x.at \in 1..now /\ x.ptr \in Places
    /\ \A t \in Actors : {thread[t].ptr, thread[t].copy} \subseteq Places \cup {0}
    /\ clashed \subseteq Places /\ misled \subseteq (Kinds \X Ids) \cup ({"place"} \X (Places \cup {0}))

(***************************************************************************)
(* The rank index lists every readable record exactly once, at the rank of *)
(* its header, and no place that is free: through reads, updates, changes  *)
(* of the rank, deletions, and decay passes whose places were freed and    *)
(* used again before their turn came.  Places at which two were at work at *)
(* once are the exception: there the index can list a record twice         *)
(* (update_rank_and_atime, update_vertex_meta, try_decay).                 *)
(***************************************************************************)
RanksListEach ==
    \A p \in Places : Calm(p) =>
        LET listed == SelectSeq(g.ranks, LAMBDA e : e.ptr = p)
        IN  IF p \notin g.used THEN listed = <<>>
            ELSE g.rec[p].status = "Normal" => listed = <<Ranking(g.rec[p].rank, p)>>

=============================================================================
