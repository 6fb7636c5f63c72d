---------------------------- MODULE BlockStore ----------------------------
(***************************************************************************)
(* What the storage engine relies on from the block layer: a flat array of *)
(* blocks whose reads return the last write, of which some value survives  *)
(* a crash, and a flush that, once it has returned, has made durable for   *)
(* every block a value no older than the call.  Caching, eviction, LRU     *)
(* order and shards do not appear here; BlockCache implements this module. *)
(***************************************************************************)

CONSTANTS
    Blocks,     \* block indices
    Values,     \* contents of a block
    Zero,       \* contents of a block that was never written
    Flushers    \* callers of flush_dirty (Graph::flush, the WAL writer)

VARIABLES
    mem,        \* mem[b]: what a read of block b returns
    durable,    \* durable[b]: what block b holds after a crash
    reply,      \* the block and contents last handed to a reader
    owed        \* owed[f][b]: contents b has had since flush f began

vars == <<mem, durable, reply, owed>>

Init ==
    /\ mem = [b \in Blocks |-> Zero]
    /\ durable = mem
    /\ reply = <<>>
    /\ owed = [f \in Flushers |-> <<>>]

Active(f) == owed[f] # <<>>

\* Blocks may become durable at any time, on the side of any operation.
Settling ==
    /\ durable' \in [Blocks -> Values]
    /\ \A b \in Blocks : durable'[b] \in {mem[b], durable[b]}

Settle ==
    /\ UNCHANGED <<mem, reply, owed>>
    /\ Settling

Read(b) ==
    /\ reply' = <<b, mem[b]>>
    /\ UNCHANGED <<mem, owed>>
    /\ Settling

Write(b, v) ==
    /\ mem' = [mem EXCEPT ![b] = v]
    /\ owed' = [f \in Flushers |->
                  IF Active(f) THEN [owed[f] EXCEPT ![b] = @ \cup {v}]
                               ELSE owed[f]]
    /\ UNCHANGED reply
    /\ Settling

FlushBegin(f) ==
    /\ ~Active(f)
    /\ owed' = [owed EXCEPT ![f] = [b \in Blocks |-> {mem[b]}]]
    /\ UNCHANGED <<mem, durable, reply>>

\* A flush returns Ok only when nothing older than its start is on disk.
FlushEnd(f) ==
    /\ Active(f)
    /\ \A b \in Blocks : durable[b] \in owed[f][b]
    /\ owed' = [owed EXCEPT ![f] = <<>>]
    /\ UNCHANGED <<mem, durable, reply>>

\* A flush that fails may have persisted some blocks.
FlushError(f) ==
    /\ Active(f)
    /\ owed' = [owed EXCEPT ![f] = <<>>]
    /\ UNCHANGED <<mem, reply>>
    /\ Settling

Crash ==
    /\ mem' = durable
    /\ owed' = [f \in Flushers |-> <<>>]
    /\ reply' = <<>>
    /\ UNCHANGED durable

Next ==
    \/ Settle
    \/ \E b \in Blocks : Read(b)
    \/ \E b \in Blocks, v \in Values : Write(b, v)
    \/ \E f \in Flushers : FlushBegin(f) \/ FlushEnd(f) \/ FlushError(f)
    \/ Crash

Spec == Init /\ [][Next]_vars
=============================================================================
