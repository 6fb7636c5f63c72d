----------------------------- MODULE TimeTravel -----------------------------
(***************************************************************************)
(* The versions of one vertex or edge and what a read at an earlier time   *)
(* answers (graph/crud.rs).  An update by copy on write keeps the version  *)
(* it replaces in the history of the new record, with the time the old     *)
(* header calls its last modification.  That time also moves for other     *)
(* reasons: a deletion, a change of rank, the decay of ranks.              *)
(*                                                                         *)
(* The clock advances with every operation.  A hard deletion ends the      *)
(* record and is not part of this module.                                  *)
(***************************************************************************)
EXTENDS Integers, Sequences

CONSTANTS
    Values,       \* what a version says
    None,         \* no version
    MaxTime,      \* bound: the clock
    MaxHistory    \* time_travel_max_history

VARIABLES
    rec,       \* the record: header and payload with its history
    now,       \* the clock
    truth,     \* history: what the record said at each time
    turns,     \* history: when this version began, and when it was deleted
    blurred    \* history: past times the record cannot tell any more

vars == <<rec, now, truth, turns, blurred>>

Times == 1..MaxTime

Init ==
    /\ rec = [ctime |-> 0, mtime |-> 0, atime |-> 0, status |-> "none", value |-> None, history |-> <<>>]
    /\ now = 0
    /\ truth = [t \in Times |-> None]
    /\ turns = {}
    /\ blurred = {}

Tick == now < MaxTime /\ now' = now + 1
Says(v) == truth' = [t \in Times |-> IF t >= now' THEN v ELSE truth[t]]
Exists == rec.status # "none"

\* Times at which the header misleads: the version began, or was deleted, at
\* the one end, and was last modified, it says, at the other.
Between(a, b) == IF a < b THEN a..(b - 1) ELSE b..(a - 1)
Misled == UNION {Between(t, rec.mtime) : t \in turns}

Create(v) ==
    /\ ~Exists /\ Tick
    /\ rec' = [ctime |-> now', mtime |-> now', atime |-> now', status |-> "Normal", value |-> v, history |-> <<>>]
    /\ Says(v) /\ turns' = {now'} /\ UNCHANGED blurred

\* Fault: the version that is replaced is stamped with the time of the update.
PushedNow(history, time) == Append(history, [timestamp |-> now', data |-> rec.value])

Pushed(history, time) == Append(history, [timestamp |-> time, data |-> rec.value])

Capped(history) ==
    IF Len(history) <= MaxHistory THEN history
    ELSE SubSeq(history, Len(history) - MaxHistory + 1, Len(history))

\* update_vertex, update_edge; every caller records the history.  A deleted
\* record is Normal again.
Update(v) ==
    LET pushed == Pushed(rec.history, rec.mtime)
        kept == Capped(pushed)
    IN  /\ Exists /\ Tick
        /\ rec' = [rec EXCEPT !.mtime = now', !.atime = now', !.status = "Normal", !.value = v,
                              !.history = kept]
        /\ Says(v) /\ turns' = {now'}
        /\ blurred' = blurred \cup Misled
                \cup (IF rec.status = "Deleted" THEN rec.mtime..now ELSE {})
                \cup (IF Len(pushed) > MaxHistory
                      THEN 1..((IF kept = <<>> THEN now' ELSE Head(kept).timestamp) - 1) ELSE {})

SoftDelete ==
    /\ Exists /\ Tick
    /\ rec' = [rec EXCEPT !.status = "Deleted", !.mtime = now']
    /\ Says(None) /\ UNCHANGED blurred
    /\ turns' = IF rec.status = "Deleted" THEN turns ELSE turns \cup {now'}

\* get_vertex, get_edge
Get ==
    /\ rec.status = "Normal" /\ Tick
    /\ rec' = [rec EXCEPT !.atime = now']
    /\ Says(rec.value) /\ UNCHANGED <<turns, blurred>>

\* update_vertex_meta, update_edge_meta: with a new rank, and with an access
\* time a client gives or the one the record has; the header takes it for the
\* time of modification.
UpdateMeta(atime) ==
    /\ Exists /\ Tick
    /\ rec' = [rec EXCEPT !.atime = atime, !.mtime = atime]
    /\ Says(IF rec.status = "Deleted" THEN None ELSE rec.value) /\ UNCHANGED <<turns, blurred>>

\* try_decay of graph/rank_decay.rs
Decay ==
    /\ Exists /\ Tick
    /\ rec' = [rec EXCEPT !.atime = now', !.mtime = now']
    /\ Says(IF rec.status = "Deleted" THEN None ELSE rec.value) /\ UNCHANGED <<turns, blurred>>

Next ==
    \/ \E v \in Values : Create(v) \/ Update(v)
    \/ SoftDelete
    \/ Get
    \/ \E t \in Times : t <= now /\ UpdateMeta(t)
    \/ Decay

Spec == Init /\ [][Next]_vars

(***************************************************************************)
(* read_vertex_by_ptr, read_edge_by_ptr.                                   *)
(***************************************************************************)
Read == IF rec.status = "Normal" THEN rec.value ELSE None

ReadAt(t) ==
    LET old == {i \in DOMAIN rec.history : rec.history[i].timestamp <= t}
        newest == CHOOSE i \in old : \A j \in old : j <= i
    IN  IF ~Exists \/ t < rec.ctime THEN None
        ELSE IF old # {} /\ t < rec.mtime THEN rec.history[newest].data
        ELSE IF rec.status = "Deleted" /\ t >= rec.mtime THEN None
        ELSE rec.value

-----------------------------------------------------------------------------
TypeOK ==
    /\ rec.status \in {"none", "Normal", "Deleted"}
    /\ rec.value \in Values \cup {None}
    /\ rec.ctime \in 0..now /\ rec.mtime \in 0..now /\ rec.atime \in 0..now
    /\ Len(rec.history) <= MaxHistory

(***************************************************************************)
(* A read at an earlier time answers what the record said then, and a read *)
(* without a time what it says now, whatever updates, deletions, accesses  *)
(* and changes of rank came after (update_vertex, read_vertex_by_ptr).     *)
(* The times the code cannot tell are named: between the beginning of a    *)
(* version, or its deletion, and the modification time of its header,      *)
(* while a record was deleted that an update brought back, and before the  *)
(* oldest version that is kept.                                            *)
(***************************************************************************)
HistoryFaithful ==
    /\ \A t \in 1..now : t \notin blurred \cup Misled => ReadAt(t) = truth[t]
    /\ now > 0 => Read = truth[now]
=============================================================================
