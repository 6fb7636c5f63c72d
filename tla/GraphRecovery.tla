--------------------------- MODULE GraphRecovery ---------------------------
(***************************************************************************)
(* The vertices of a graph across restarts: create_vertex, update_vertex   *)
(* (copy on write), the soft and the hard delete and their replay          *)
(* (graph/crud.rs, locked.rs), Graph::open, flush and close                *)
(* (graph/graph.rs), the rebuild of the index from the blocks              *)
(* (memory_index_builder.rs) and the saved index (memory_index.rs).        *)
(*                                                                         *)
(* A place is room for one record; which places one block holds is a       *)
(* constant, and places are numbered in the order in which the rebuild     *)
(* scans them.  The allocator may return any free place (RecordStore has   *)
(* the details).  The log is the list of entries that module RedoLog       *)
(* promises to keep; the rotation that trims it is a process of its own,   *)
(* because it flushes the blocks one after the other while the threads     *)
(* that do not wait for the log go on.  Edges have operations of the same  *)
(* form.                                                                   *)
(***************************************************************************)
EXTENDS Integers, FiniteSets, FiniteSetsExt, Sequences

CONSTANTS
    Clients,
    Blocks, NumPlaces, BlockOf, \* BlockOf[p]: the block of place p
    MaxIds, MaxOps,             \* bounds: vertex ids, operations of all clients
    MaxRestarts, MaxEvictions   \* bounds; a crash or a close is a restart

Places == 1..NumPlaces
Ids == 1..MaxIds

ASSUME GraphRecoveryAssumption ==
    /\ MaxIds \in Nat \ {0} /\ MaxOps \in Nat
    /\ MaxRestarts \in Nat /\ MaxEvictions \in Nat
    /\ NumPlaces \in Nat /\ BlockOf \in [Places -> Blocks]

VARIABLES
    mem,        \* the blocks as the cache shows them
    disk,       \* the data file
    index,      \* MemoryIndex.vertex_id; 0 for no entry
    saved,      \* the index files of a close; <<>> without the marker
    nextId,     \* Graph.next_vertex_id
    wal,        \* the entries in the log files
    stage,      \* where Graph::open or close is
    replayed,   \* how many entries the replay has applied
    rotating, toFlush,      \* the writer thread in a rotation; blocks to flush
    req,        \* req[c]: the operation of client c
    ops, restarts, evictions,
    allowed,    \* history: what a reader of a vertex may find
    mixed,      \* history: ids of which a second operation began before the creation was
                \* logged, or which were given out while they were in use
    torn        \* history: an operation was under way during a rotation

bootVars == <<saved, stage, replayed>>
logVars == <<wal, rotating, toFlush>>
boundVars == <<ops, restarts, evictions>>
history == <<allowed, mixed, torn>>
vars == <<mem, disk, index, nextId, bootVars, logVars, req, boundVars, history>>

(***************************************************************************)
(* Records.  A place whose bit is clear keeps the bytes of its last        *)
(* record, and a place that is allocated has them until it is written.     *)
(* The content of a vertex is the number of the operation that wrote it;   *)
(* 0 stands for no vertex.                                                 *)
(***************************************************************************)
Contents == 0..MaxOps
Place == [used : BOOLEAN, id : 0..MaxIds, content : Contents, status : {"normal", "deleted"}]
Empty == [used |-> FALSE, id |-> 0, content |-> 0, status |-> "normal"]
Record(id, content) == [used |-> TRUE, id |-> id, content |-> content, status |-> "normal"]

Kinds == {"create", "update", "soft", "hard"}
Entry == [kind : {"create", "update", "delete"}, id : Ids, content : Contents]

Free == {p \in Places : ~mem[p].used}
NoIndex == [id \in Ids |-> 0]

\* get_vertex
Visible(id) ==
    IF index[id] = 0 \/ mem[index[id]].status = "deleted" THEN 0 ELSE mem[index[id]].content

NoOp == [phase |-> "idle", kind |-> "create", id |-> 1, content |-> 0, place |-> 0, old |-> 0]
Busy(c) == req[c].phase # "idle"
InTheMiddle(c) == req[c].phase \in {"fill", "free", "unindex"}

Init ==
    /\ mem = [p \in Places |-> Empty] /\ disk = mem
    /\ index = NoIndex /\ nextId = 1
    /\ saved = <<>> /\ stage = "up" /\ replayed = 0
    /\ wal = <<>> /\ rotating = FALSE /\ toFlush = {}
    /\ req = [c \in Clients |-> NoOp]
    /\ ops = 0 /\ restarts = 0 /\ evictions = 0
    /\ allowed = [id \in Ids |-> {0}] /\ mixed = {} /\ torn = FALSE

(***************************************************************************)
(* Operations.  Each ends by appending to the log; while the writer        *)
(* rotates, appends wait.                                                  *)
(***************************************************************************)
\* write_vertex; a create takes no lock on the vertex.
Locked(id) == \E c \in Clients : Busy(c) /\ req[c].id = id /\ req[c].kind # "create"
Creating(id) == \E c \in Clients : Busy(c) /\ req[c].id = id /\ req[c].kind = "create"
InUse(id) == index[id] # 0 \/ Locked(id)

Begin(c, r) ==
    /\ stage = "up" /\ ~Busy(c) /\ ops < MaxOps
    /\ req' = [req EXCEPT ![c] = r]
    /\ ops' = ops + 1
    /\ allowed' = [allowed EXCEPT ![r.id] = @ \cup {r.content}]
    /\ mixed' = IF Creating(r.id) \/ (r.kind = "create" /\ InUse(r.id))
                THEN mixed \cup {r.id} ELSE mixed
    /\ torn' = (torn \/ rotating)
    /\ UNCHANGED <<disk, index, bootVars, logVars, restarts, evictions>>

Step(c, phase) ==
    /\ req' = [req EXCEPT ![c].phase = phase]
    /\ torn' = (torn \/ rotating)
    /\ UNCHANGED <<disk, nextId, bootVars, logVars, boundVars, allowed, mixed>>

Create(c) == \E p \in Free :
    /\ nextId \in Ids
    /\ Begin(c, [phase |-> "fill", kind |-> "create", id |-> nextId, content |-> ops + 1,
                 place |-> p, old |-> 0])
    /\ nextId' = nextId + 1
    /\ mem' = [mem EXCEPT ![p].used = TRUE]

Update(c, id) == \E p \in Free :
    /\ index[id] # 0 /\ ~Locked(id)
    /\ Begin(c, [phase |-> "fill", kind |-> "update", id |-> id, content |-> ops + 1,
                 place |-> p, old |-> index[id]])
    /\ mem' = [mem EXCEPT ![p].used = TRUE]
    /\ UNCHANGED nextId

SoftDelete(c, id) ==
    /\ index[id] # 0 /\ ~Locked(id)
    /\ Begin(c, [phase |-> "log", kind |-> "soft", id |-> id, content |-> 0,
                 place |-> 0, old |-> index[id]])
    /\ mem' = [mem EXCEPT ![index[id]].status = "deleted"]
    /\ UNCHANGED nextId

HardDelete(c, id) ==
    /\ index[id] # 0 /\ ~Locked(id)
    /\ Begin(c, [phase |-> "unindex", kind |-> "hard", id |-> id, content |-> 0,
                 place |-> 0, old |-> index[id]])
    /\ mem' = [mem EXCEPT ![index[id]].used = FALSE]
    /\ UNCHANGED nextId

\* write_data_chunks, and the index entry moves to the new record.
Fill(c) ==
    /\ req[c].phase = "fill"
    /\ mem' = [mem EXCEPT ![req[c].place] = Record(req[c].id, req[c].content)]
    /\ index' = [index EXCEPT ![req[c].id] = req[c].place]
    /\ Step(c, IF req[c].kind = "create" THEN "log" ELSE "free")

FreeOld(c) ==
    /\ req[c].phase = "free"
    /\ mem' = [mem EXCEPT ![req[c].old].used = FALSE]
    /\ Step(c, "log") /\ UNCHANGED index

\* Fault: the entry of a deleted vertex stays in the index.
UnindexNot(c) ==
    /\ req[c].phase = "unindex"
    /\ Step(c, "log") /\ UNCHANGED <<mem, index>>

Unindex(c) ==
    /\ req[c].phase = "unindex"
    /\ index' = [index EXCEPT ![req[c].id] = 0]
    /\ Step(c, "log") /\ UNCHANGED mem

Logged(r) ==
    [kind |-> IF r.kind \in {"soft", "hard"} THEN "delete" ELSE r.kind,
     id |-> r.id, content |-> r.content]

\* redo_log.append returns when the entry is written.
Log(c) ==
    /\ req[c].phase = "log" /\ ~rotating
    /\ wal' = Append(wal, Logged(req[c]))
    /\ req' = [req EXCEPT ![c] = NoOp]
    /\ allowed' = [allowed EXCEPT ![req[c].id] = {req[c].content}]
    /\ UNCHANGED <<mem, disk, index, nextId, bootVars, rotating, toFlush, boundVars, mixed, torn>>

(***************************************************************************)
(* Blocks that reach the disk.                                             *)
(***************************************************************************)
Written(b) == [p \in Places |-> IF BlockOf[p] = b THEN mem[p] ELSE disk[p]]

\* Before it writes what is pending, the writer thread rotates the log.
Rotate ==
    /\ stage = "up" /\ ~rotating /\ wal # <<>>
    /\ \E c \in Clients : req[c].phase = "log"
    /\ rotating' = TRUE /\ toFlush' = Blocks
    /\ torn' = (torn \/ \E c \in Clients : InTheMiddle(c))
    /\ UNCHANGED <<mem, disk, index, nextId, bootVars, wal, req, boundVars, allowed, mixed>>

FlushBlock(b) ==
    /\ b \in toFlush
    /\ disk' = Written(b) /\ toFlush' = toFlush \ {b}
    /\ UNCHANGED <<mem, index, nextId, bootVars, wal, rotating, req, boundVars, history>>

\* The old file is deleted when every block was flushed.
Trim ==
    /\ rotating /\ toFlush = {}
    /\ rotating' = FALSE /\ wal' = <<>>
    /\ UNCHANGED <<mem, disk, index, nextId, bootVars, toFlush, req, boundVars, history>>

\* The cache makes room for a block that an operation or the replay needs.
Evict(b) ==
    /\ stage \in {"up", "replay"} /\ evictions < MaxEvictions
    /\ Written(b) # disk /\ disk' = Written(b)
    /\ evictions' = evictions + 1
    /\ UNCHANGED <<mem, index, nextId, bootVars, logVars, req, ops, restarts, history>>

(***************************************************************************)
(* Restarts.                                                               *)
(***************************************************************************)
Forget ==
    /\ mem' = disk /\ index' = NoIndex /\ nextId' = 1
    /\ stage' = "down" /\ replayed' = 0
    /\ rotating' = FALSE /\ toFlush' = {}
    /\ req' = [c \in Clients |-> NoOp]

Crash ==
    /\ stage # "down" /\ restarts < MaxRestarts
    /\ restarts' = restarts + 1
    /\ torn' = (torn \/ toFlush \notin {{}, Blocks})
    /\ Forget
    /\ UNCHANGED <<disk, saved, wal, ops, evictions, allowed, mixed>>

\* build_memory_index: the last record of a vertex in the order of the scan
\* is the one that stays.
Rebuilt == [id \in Ids |-> Max({0} \cup {p \in Places : disk[p].used /\ disk[p].id = id})]

Open ==
    /\ stage = "down"
    /\ index' = IF saved # <<>> THEN saved ELSE Rebuilt
    /\ saved' = <<>>
    /\ nextId' = 1 + Max({0} \cup {id \in Ids : index'[id] # 0})
    /\ stage' = "replay" /\ replayed' = 0
    /\ UNCHANGED <<mem, disk, logVars, req, boundVars, history>>

\* Fault: the counter is left where the rebuild put it.
ReplayCreateCounted(e) == \E p \in Free :
    /\ nextId' = nextId + 1
    /\ mem' = [mem EXCEPT ![p] = Record(nextId, e.content)]
    /\ index' = [index EXCEPT ![nextId] = p]
    /\ UNCHANGED torn

\* replay_entry.  It runs alone, and a delete is replayed as a hard delete.
ReplayCreate(e) == \E p \in Free :
    /\ nextId' = e.id + 1
    /\ mem' = [mem EXCEPT ![p] = Record(e.id, e.content)]
    /\ index' = [index EXCEPT ![e.id] = p]
    /\ torn' = (torn \/ index[e.id] # 0)

ReplayUpdate(e) == \E p \in Free :
    /\ index[e.id] # 0
    /\ nextId' = Max({nextId, e.id + 1})
    /\ mem' = [mem EXCEPT ![p] = Record(e.id, e.content), ![index[e.id]].used = FALSE]
    /\ index' = [index EXCEPT ![e.id] = p]
    /\ UNCHANGED torn

ReplayDelete(e) ==
    /\ mem' = IF index[e.id] = 0 THEN mem ELSE [mem EXCEPT ![index[e.id]].used = FALSE]
    /\ index' = [index EXCEPT ![e.id] = 0]
    /\ UNCHANGED <<nextId, torn>>

Replay ==
    /\ stage = "replay" /\ replayed < Len(wal)
    /\ LET e == wal[replayed + 1]
       IN  \/ e.kind = "create" /\ ReplayCreate(e)
           \/ e.kind = "update" /\ ReplayUpdate(e)
           \/ e.kind = "delete" /\ ReplayDelete(e)
    /\ replayed' = replayed + 1
    /\ UNCHANGED <<disk, saved, stage, logVars, req, boundVars, allowed, mixed>>

\* An update of a vertex that is not in the index is an error, which ends
\* Graph::open.
ReplayFails ==
    /\ stage = "replay" /\ replayed < Len(wal)
    /\ wal[replayed + 1].kind = "update" /\ index[wal[replayed + 1].id] = 0
    /\ stage' = "failed"
    /\ UNCHANGED <<mem, disk, index, nextId, saved, replayed, logVars, req, boundVars, history>>

\* Fault: the log is renewed without a flush before it.
ReplayEndsUnflushed ==
    /\ stage = "replay" /\ replayed = Len(wal)
    /\ stage' = "opening" /\ replayed' = 0
    /\ UNCHANGED <<mem, disk, index, nextId, saved, logVars, req, boundVars, history>>

ReplayEnds ==
    /\ stage = "replay" /\ replayed = Len(wal)
    /\ stage' = "opening" /\ toFlush' = Blocks /\ replayed' = 0
    /\ UNCHANGED <<mem, disk, index, nextId, saved, wal, rotating, req, boundVars, history>>

Close ==
    /\ stage = "up" /\ \A c \in Clients : ~Busy(c)
    /\ restarts < MaxRestarts /\ restarts' = restarts + 1
    /\ stage' = "closing" /\ toFlush' = Blocks
    /\ UNCHANGED <<mem, disk, index, nextId, saved, replayed, wal, rotating, req, ops, evictions,
                   history>>

\* RedoLog::renew at the end of open and of close.
Renew ==
    /\ stage \in {"opening", "closing"} /\ toFlush = {}
    /\ wal' = <<>>
    /\ stage' = IF stage = "opening" THEN "up" ELSE "saving"
    /\ allowed' = [id \in Ids |-> {Visible(id)}]
    /\ UNCHANGED <<mem, disk, index, nextId, saved, replayed, rotating, toFlush, req, boundVars,
                   mixed, torn>>

SaveIndex ==
    /\ stage = "saving"
    /\ saved' = index
    /\ Forget
    /\ UNCHANGED <<disk, wal, boundVars, history>>

Operation(c) ==
    \/ Create(c) \/ Fill(c) \/ FreeOld(c) \/ Unindex(c) \/ Log(c)
    \/ \E id \in Ids : Update(c, id) \/ SoftDelete(c, id) \/ HardDelete(c, id)

Next ==
    \/ \E c \in Clients : Operation(c)
    \/ Rotate \/ Trim
    \/ \E b \in Blocks : FlushBlock(b) \/ Evict(b)
    \/ Crash \/ Open \/ Replay \/ ReplayFails \/ ReplayEnds \/ Close \/ Renew \/ SaveIndex

Spec == Init /\ [][Next]_vars

(***************************************************************************)
(* Properties.                                                             *)
(***************************************************************************)
TypeOK ==
    /\ mem \in [Places -> Place] /\ disk \in [Places -> Place]
    /\ index \in [Ids -> Places \cup {0}] /\ nextId \in 1..(MaxIds + 1)
    /\ saved = <<>> \/ saved \in [Ids -> Places \cup {0}]
    /\ stage \in {"down", "replay", "failed", "opening", "up", "closing", "saving"}
    /\ wal \in Seq(Entry) /\ replayed \in 0..Len(wal)
    /\ rotating \in BOOLEAN /\ toFlush \subseteq Blocks
    /\ \A c \in Clients :
         /\ req[c].phase \in {"idle", "fill", "free", "unindex", "log"}
         /\ req[c].kind \in Kinds /\ req[c].id \in Ids /\ req[c].content \in Contents
         /\ req[c].place \in Places \cup {0} /\ req[c].old \in Places \cup {0}
    /\ allowed \in [Ids -> SUBSET Contents] /\ mixed \subseteq Ids /\ torn \in BOOLEAN

\* "Whatever is on disk must be valid": whatever was evicted or flushed before
\* a crash, an entry of the index leads to an allocated record of its vertex,
\* so that no vertex reads, frees or overwrites the record of another.
Unindexing(id) == \E c \in Clients : req[c].phase = "unindex" /\ req[c].id = id
IndexSound ==
    stage # "down" =>
        \A id \in Ids : index[id] # 0 /\ ~Unindexing(id)
            => mem[index[id]].used /\ mem[index[id]].id = id

\* When the log has been replayed, every vertex it mentions is as its last
\* entry says, whatever the blocks held.
LastEntry(id) == Max({0} \cup {i \in DOMAIN wal : wal[i].id = id})
LoggedSurvives ==
    stage = "opening" => \A id \in Ids : LastEntry(id) # 0 => Visible(id) = wal[LastEntry(id)].content

\* "Uncheckpointed entries are replayed to restore the graph to its pre-crash
\* state": after every restart, a reader finds what the last finished
\* operation on a vertex left or what an unfinished one would have left; as
\* long as the blocks on disk are those of one moment, with one record of it.
Undisturbed(id) == evictions = 0 /\ ~torn /\ id \notin mixed
VerticesSurvive ==
    stage \in {"opening", "up"} =>
        \A id \in Ids :
            Undisturbed(id) /\ (\A c \in Clients : Busy(c) => req[c].id # id)
                => Visible(id) \in allowed[id]

\* "The reopen must not panic or error."
ReopenSucceeds == stage # "failed"
=============================================================================
