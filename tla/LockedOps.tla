------------------------------ MODULE LockedOps ------------------------------
(***************************************************************************)
(* The locks of vertices and edges (lock/lock_manager.rs) as the           *)
(* operations take them (graph/locked.rs) and what they guard: each        *)
(* operation looks up the record of its entity, works on it, and then      *)
(* changes the index, in steps with other operations in between            *)
(* (graph/crud.rs).  An operation of a client holds the lock of its        *)
(* entity, shared to read and exclusive to change; the lock of the         *)
(* metadata is only ever taken shared and so excludes nobody.  The         *)
(* deletion of a vertex deletes its edges first, without the locks of      *)
(* those edges, and a change of rank or access time takes no lock at all;  *)
(* nor does the reading of the edges at the start of an import, which      *)
(* works in the same way.                                                  *)
(*                                                                         *)
(* A record is a number.  Entities whose ids are equal modulo the number   *)
(* of stripes share a lock.                                                *)
(***************************************************************************)
EXTENDS Naturals, SequencesExt

CONSTANTS
    Threads,
    Vertices, Edges,
    Ends,          \* Ends[e]: the vertices an edge joins
    Stripe,        \* Stripe[x]: the lock of an entity
    MaxOps         \* bound: operations

Entities == Vertices \cup Edges

VARIABLES
    index,      \* entity -> its record, 0 if it has none
    freed,      \* records whose chunks were freed
    fresh,      \* the next record
    thread,     \* what each thread does: its operation, step, entities to work on, record
    ops,
    unguarded   \* history: entities that one operation changed without their
                \* lock while another one worked on them

vars == <<index, freed, fresh, thread, ops, unguarded>>

Kinds == {"get", "update", "soft_delete", "hard_delete", "meta"}
Idle == [op |-> "none", step |-> "idle", entity |-> 0, work |-> <<>>, at |-> 0]

Init ==
    /\ index = CHOOSE f \in [Entities -> 1..Cardinality(Entities)] : IsInjective(f)
    /\ freed = {} /\ fresh = Cardinality(Entities) + 1
    /\ thread = [t \in Threads |-> Idle]
    /\ ops = 0 /\ unguarded = {}

At(t, step) == thread[t].step = step
Op(t) == thread[t].op
Holds(t) == thread[t].step \notin {"idle", "wait"} /\ Op(t) # "meta"
Goto(t, step) == [thread EXCEPT ![t].step = step]
Done(t) == [thread EXCEPT ![t] = Idle]
Now(t) == Head(thread[t].work)

\* Entities a thread has looked up and is not finished with.
WorksOn(t, x) == thread[t].step \notin {"idle", "wait", "lookup"} /\ Now(t) = x
Covers(t, x) == Holds(t) /\ Stripe[thread[t].entity] = Stripe[x]
                         /\ (x \in Vertices <=> thread[t].entity \in Vertices)

Begin(t, op, x) ==
    /\ At(t, "idle") /\ ops < MaxOps /\ ops' = ops + 1
    /\ thread' = [thread EXCEPT ![t] = [op |-> op, step |-> "wait", entity |-> x, work |-> <<>>, at |-> 0]]
    /\ UNCHANGED <<index, freed, fresh, unguarded>>

\* Fault: only writers exclude each other.
ConflictOfWriters(t, u) ==
    Op(t) # "get" /\ Op(u) # "get" /\ Op(t) # "meta" /\ Covers(u, thread[t].entity)

\* read_vertex, write_vertex, read_edge, write_edge of one stripe
Conflict(t, u) ==
    (Op(t) # "get" \/ Op(u) # "get") /\ Op(t) # "meta" /\ Covers(u, thread[t].entity)

\* cascade_delete_edges: the edges of a vertex, collected from the index
Incident(v) == SetToSeq({e \in Edges : v \in Ends[e] /\ index[e] # 0})

Acquire(t) ==
    LET x == thread[t].entity
    IN  /\ At(t, "wait")
        /\ \A u \in Threads \ {t} : ~Conflict(t, u)
        /\ thread' = [thread EXCEPT ![t].step = "lookup", ![t].work =
                        (IF x \in Vertices /\ Op(t) \in {"soft_delete", "hard_delete"} THEN Incident(x) ELSE <<>>) \o <<x>>]
        /\ UNCHANGED <<index, freed, fresh, ops, unguarded>>

\* The record of the entity; without one the operation ends with an error.
Lookup(t) ==
    LET x == Now(t)
        others == {u \in Threads \ {t} : WorksOn(u, x)}
    IN  /\ At(t, "lookup")
        /\ thread' = IF index[x] = 0 THEN Done(t)
                     ELSE [thread EXCEPT ![t].step = "work", ![t].at = index[x]]
        /\ unguarded' = IF \/ ~Covers(t, x) /\ others # {}
                           \/ \E u \in others : ~Covers(u, x)
                        THEN unguarded \cup {x} ELSE unguarded
        /\ UNCHANGED <<index, freed, fresh, ops>>

\* The next entity of a cascade, or the end of the operation.
Further(t) ==
    IF Len(thread[t].work) = 1 THEN Done(t)
    ELSE [thread EXCEPT ![t].step = "lookup", ![t].work = Tail(@)]

\* get reads the payload and sets rank and time of access, update_vertex_meta
\* and update_edge_meta these two, a soft deletion the status: all in place.
InPlace(t) ==
    /\ At(t, "work") /\ Op(t) \in {"get", "meta", "soft_delete"}
    /\ thread' = Further(t)
    /\ UNCHANGED <<index, freed, fresh, ops, unguarded>>

\* update: a new record, the index, and the old record is freed
Install(t) ==
    /\ At(t, "work") /\ Op(t) = "update"
    /\ index' = [index EXCEPT ![Now(t)] = fresh] /\ fresh' = fresh + 1
    /\ thread' = Goto(t, "free")
    /\ UNCHANGED <<freed, ops, unguarded>>

FreeOld(t) ==
    /\ At(t, "free")
    /\ freed' = freed \cup {thread[t].at}
    /\ thread' = Done(t)
    /\ UNCHANGED <<index, fresh, ops, unguarded>>

\* delete: the chunks are freed, then the index entry goes
Free(t) ==
    /\ At(t, "work") /\ Op(t) = "hard_delete"
    /\ freed' = freed \cup {thread[t].at}
    /\ thread' = Goto(t, "unindex")
    /\ UNCHANGED <<index, fresh, ops, unguarded>>

Unindex(t) ==
    /\ At(t, "unindex")
    /\ index' = [index EXCEPT ![Now(t)] = 0]
    /\ thread' = Further(t)
    /\ UNCHANGED <<freed, fresh, ops, unguarded>>

Next ==
    \/ \E t \in Threads, op \in Kinds, x \in Entities : Begin(t, op, x)
    \/ \E t \in Threads : \/ Acquire(t) \/ Lookup(t) \/ InPlace(t) \/ Install(t)
                          \/ FreeOld(t) \/ Free(t) \/ Unindex(t)

Spec == Init /\ [][Next]_vars

-----------------------------------------------------------------------------
TypeOK ==
    /\ \A x \in Entities : index[x] \in Nat
    /\ freed \subseteq 1..(fresh - 1) /\ unguarded \subseteq Entities
    /\ \A t \in Threads : thread[t].step \in {"idle", "wait", "lookup", "work", "free", "unindex"}

(***************************************************************************)
(* While an operation works with the record it looked up, that record      *)
(* stays the record of its entity and its chunks stay allocated, until the *)
(* operation itself replaces or frees it; no record is freed twice, and    *)
(* the index leads to a freed record only while the deletion of its entity *)
(* is about to remove the entry.  So no update works from a version that   *)
(* another one has replaced, and no reader reads chunks that were given    *)
(* away (graph/locked.rs).  It is not said of entities that a cascade or a *)
(* change of rank worked on without their lock while another operation     *)
(* worked on them: there it is false.                                      *)
(***************************************************************************)
LookedUpStays ==
    \A x \in Entities \ unguarded :
        /\ \A t \in Threads : WorksOn(t, x) /\ At(t, "work") => index[x] = thread[t].at
        /\ \A t \in Threads : WorksOn(t, x) /\ (At(t, "work") \/ At(t, "free")) => thread[t].at \notin freed
        /\ index[x] \in freed => \E t \in Threads : WorksOn(t, x) /\ At(t, "unindex")
=============================================================================
