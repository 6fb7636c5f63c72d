------------------------------ MODULE RedoLog ------------------------------
(***************************************************************************)
(* The write-ahead log of one graph (storage/redo_log.rs) and the part of  *)
(* Graph::open that trims it (graph/graph.rs).  Threads of the program     *)
(* apply an operation to the cached blocks, then append its entry to the   *)
(* log; a writer thread takes messages from a FIFO channel, writes them to *)
(* the current file, rotates files and answers through a condition         *)
(* variable.  Any thread may be interrupted between two accesses to shared *)
(* state, and the process may die at any moment.                           *)
(*                                                                         *)
(* The epoch counter is abstracted to the set of appenders for which it    *)
(* still has the value they read.  The size and the age that make a file   *)
(* rotate are abstracted to a free choice.                                 *)
(***************************************************************************)
EXTENDS Naturals, FiniteSets, SequencesExt

CONSTANTS
    Appenders,  \* threads that create, update or delete something
    Importers,  \* those of them that also run batch imports
    Owner,      \* the thread that opens the graph
    Timer,      \* the flush checker thread of batch mode
    MaxAge,     \* TRUE when log_flush_max_age_us > 0
    BatchSize,  \* DEFAULT_BATCH_SIZE
    MaxOps,     \* bound: operations of each appender
    Faults,     \* which parts of a flush can fail: "rotate", "write", "renew"
    MaxFaults,  \* bound: failures
    Off,        \* the batch buffer when it is None
    Torn,       \* the incomplete bytes of an entry
    NoTask      \* the writer is waiting for a message

Callers == Appenders \cup {Owner, Timer}
Ops == Appenders \X (1..MaxOps)
Records == Ops \cup {Torn}

ASSUME RedoLogAssumption ==
    /\ Importers \subseteq Appenders
    /\ {Owner, Timer} \cap Appenders = {} /\ Owner # Timer
    /\ MaxAge \in BOOLEAN
    /\ BatchSize \in Nat \ {0} /\ MaxOps \in Nat /\ MaxFaults \in Nat
    /\ Faults \subseteq {"rotate", "write", "renew"}
    /\ Torn \notin Ops
    /\ Off \notin Seq(Ops)

VARIABLES
    flushed,    \* operations whose blocks are in the data file
    files,      \* the redo files in name order, each the records it holds
    live,       \* operations applied to the cached blocks
    cur,        \* index of the file the writer has open, 0 when it is unlinked
    batch,      \* entries the writer has taken and not yet written
    task,       \* the message the writer is working on
    step,       \* where the writer is in writer_main_loop
    round,      \* rotations this flush has made: first for age, then for size
    error,      \* WriteState.error
    observed,   \* appenders that would still find the epoch they read
    queue,      \* the channel
    answered,   \* callers whose done flag the writer has set
    buffer,     \* BatchBuffer.entries, or Off
    hand,       \* entries a caller has taken from the buffer, not yet sent
    ticking,    \* the flush checker thread runs
    importing,  \* importers between start_batch and end_batch
    pc,         \* where each caller is
    why,        \* what the flush_batch or sync of a caller is part of
    issued,     \* issued[a]: operations appender a has begun
    faults,     \* failures so far
    acked,      \* history: operations reported durable
    batched,    \* history: operations of batches that have not ended
    handed      \* history: operations given to the log by this process

diskVars == <<flushed, files>>
writerVars == <<cur, batch, task, step, round, faults>>
sharedVars == <<error, observed, answered>>
batchVars == <<buffer, hand, ticking, importing>>
callerVars == <<pc, why, issued, live>>
histVars == <<acked, batched, handed>>
vars == <<diskVars, writerVars, sharedVars, queue, batchVars, callerVars, histVars>>

Init ==
    /\ flushed = {} /\ files = <<>> /\ live = {}
    /\ cur = 0 /\ batch = <<>> /\ task = NoTask /\ step = "recv" /\ round = 0
    /\ error = FALSE /\ observed = {} /\ queue = <<>> /\ answered = {}
    /\ buffer = Off /\ hand = [c \in Callers |-> <<>>] /\ ticking = FALSE
    /\ importing = {}
    /\ pc = [c \in Callers |-> IF c = Owner THEN "down" ELSE "idle"]
    /\ why = [c \in Callers |-> "none"]
    /\ issued = [a \in Appenders |-> 0]
    /\ faults = 0
    /\ acked = {} /\ batched = {} /\ handed = {}

Opened == pc[Owner] = "idle"
Op(a) == <<a, issued[a]>>
Message(k, es, c) == [kind |-> k, entries |-> es, from |-> c]
Goto(c, l) == pc' = [pc EXCEPT ![c] = l]
Because(c, w) == why' = [why EXCEPT ![c] = w]

\* What RedoLog::replay makes of a file: it stops at the first bad record.
Readable(f) ==
    LET bad == SelectInSeq(f, LAMBDA r : r = Torn)
    IN  IF bad = 0 THEN f ELSE SubSeq(f, 1, bad - 1)

Logged == UNION {Range(Readable(files[i])) : i \in DOMAIN files}

Recoverable == flushed \cup Logged

(***************************************************************************)
(* Opening the graph: replay, flush the blocks, sync, then renew the log.  *)
(* Nobody else has the graph before renew returns.                         *)
(***************************************************************************)
Replay ==
    /\ pc[Owner] = "down"
    /\ files' = IF files = <<>> THEN <<(<<>>)>> ELSE files
    /\ cur' = Len(files')
    /\ live' = Recoverable
    /\ Goto(Owner, "replayed")
    /\ UNCHANGED <<flushed, batch, task, step, round, faults, sharedVars, queue,
                   batchVars, why, issued, histVars>>

\* Fault: open renews the log while the replayed blocks are only in memory.
FlushBlocksNever ==
    /\ pc[Owner] = "replayed"
    /\ Goto(Owner, "flush") /\ Because(Owner, "sync")
    /\ UNCHANGED <<diskVars, writerVars, sharedVars, queue, batchVars, issued, live, histVars>>

FlushBlocks ==
    /\ pc[Owner] = "replayed"
    /\ flushed' = live
    /\ Goto(Owner, "flush") /\ Because(Owner, "sync")
    /\ UNCHANGED <<files, writerVars, sharedVars, queue, batchVars, issued, live, histVars>>

SendRenew ==
    /\ pc[Owner] = "trim"
    /\ queue' = Append(queue, Message("renew", <<>>, Owner))
    /\ Goto(Owner, "done") /\ Because(Owner, "renew")
    /\ UNCHANGED <<diskVars, writerVars, sharedVars, batchVars, issued, live, histVars>>

\* The last reference to the graph is dropped (RedoLog::stop), also after a
\* failed open; the checker thread is joined first.
Shutdown ==
    /\ pc[Owner] \in {"idle", "shut"}
    /\ \A c \in Callers \ {Owner} : pc[c] = "idle"
    /\ importing = {}
    /\ queue' = Append(queue, Message("shutdown", <<>>, Owner))
    /\ ticking' = FALSE
    /\ Goto(Owner, "stopped")
    /\ UNCHANGED <<diskVars, writerVars, sharedVars, buffer, hand, importing, why, issued, live, histVars>>

(***************************************************************************)
(* append.                                                                 *)
(***************************************************************************)

\* The caller changes blocks and index first (crud), then calls append.
Apply(a) ==
    /\ Opened /\ pc[a] = "idle" /\ issued[a] < MaxOps
    /\ issued' = [issued EXCEPT ![a] = @ + 1]
    /\ live' = live \cup {<<a, issued'[a]>>}
    /\ Goto(a, "append")
    /\ UNCHANGED <<diskVars, writerVars, sharedVars, queue, batchVars, why, histVars>>

\* Batch mode: the entry goes to the buffer and append returns.
Push(a) ==
    /\ \/ pc[a] = "append" /\ buffer # Off
       \/ pc[a] = "push"
    /\ buffer' = IF buffer = Off THEN Off ELSE Append(buffer, Op(a))
    /\ handed' = handed \cup {Op(a)}
    /\ batched' = IF a \in importing THEN batched \cup {Op(a)} ELSE batched
    /\ Goto(a, "idle")
    /\ UNCHANGED <<diskVars, writerVars, sharedVars, queue, hand, ticking, importing, why, issued,
                   live, acked>>

\* Batch mode, the buffer is older than its maximal age: flush it first.
Aged(a) ==
    /\ pc[a] = "append" /\ buffer # Off /\ MaxAge
    /\ Goto(a, "take") /\ Because(a, "age")
    /\ UNCHANGED <<diskVars, writerVars, sharedVars, queue, batchVars, issued, live, histVars>>

ReadEpoch(a) ==
    /\ pc[a] = "append" /\ buffer = Off
    /\ observed' = observed \cup {a}
    /\ Goto(a, "send")
    /\ UNCHANGED <<diskVars, writerVars, error, answered, queue, batchVars, why, issued,
                   live, histVars>>

Send(a) ==
    /\ pc[a] = "send"
    /\ queue' = Append(queue, Message("entry", <<Op(a)>>, a))
    /\ handed' = handed \cup {Op(a)}
    /\ Goto(a, "wait")
    /\ UNCHANGED <<diskVars, writerVars, sharedVars, batchVars, why, issued, live,
                   acked, batched>>

\* The condition variable: the epoch moved, or an error is set.
Return(a) ==
    /\ pc[a] = "wait"
    /\ a \notin observed \/ error
    /\ acked' = IF error THEN acked ELSE acked \cup {Op(a)}
    /\ Goto(a, "idle")
    /\ UNCHANGED <<diskVars, writerVars, sharedVars, queue, batchVars, why, issued, live,
                   batched, handed>>

(***************************************************************************)
(* Batch mode: start_batch, flush_batch, end_batch and the checker thread. *)
(***************************************************************************)
StartBatch(i) ==
    /\ Opened /\ pc[i] = "idle" /\ pc[Timer] = "idle" /\ i \notin importing
    /\ issued[i] < MaxOps
    /\ buffer' = IF buffer = Off THEN <<>> ELSE buffer
    /\ ticking' = MaxAge
    /\ importing' = importing \cup {i}
    /\ UNCHANGED <<diskVars, writerVars, sharedVars, queue, hand, callerVars, histVars>>

EndBatch(i) ==
    /\ Opened /\ pc[i] = "idle" /\ i \in importing
    /\ Goto(i, "take") /\ Because(i, "end")
    /\ UNCHANGED <<diskVars, writerVars, sharedVars, queue, batchVars, issued, live, histVars>>

\* The checker wakes up and finds the buffer old enough.
Tick ==
    /\ ticking /\ pc[Timer] = "idle" /\ buffer \notin {Off, <<>>}
    /\ Goto(Timer, "take") /\ Because(Timer, "timer")
    /\ UNCHANGED <<diskVars, writerVars, sharedVars, queue, batchVars, issued, live, histVars>>

OnOk == [age |-> "push", end |-> "clear", timer |-> "idle", sync |-> "trim", renew |-> "idle"]
OnError == [age |-> "idle", end |-> "clear", timer |-> "idle", sync |-> "shut", renew |-> "shut"]

\* Take the entries under the lock of the buffer; without any there is
\* nothing to flush.
Take(c) ==
    /\ pc[c] = "take"
    /\ IF buffer \in {Off, <<>>}
       THEN Goto(c, OnOk[why[c]]) /\ UNCHANGED <<buffer, hand>>
       ELSE /\ Goto(c, "batch")
            /\ hand' = [hand EXCEPT ![c] = buffer]
            /\ buffer' = <<>>
    /\ UNCHANGED <<diskVars, writerVars, sharedVars, queue, ticking, importing, why, issued, live,
                   histVars>>

SendBatch(c) ==
    /\ pc[c] = "batch"
    /\ queue' = Append(queue, Message("batch", hand[c], c))
    /\ hand' = [hand EXCEPT ![c] = <<>>]
    /\ Goto(c, "flush")
    /\ UNCHANGED <<diskVars, writerVars, sharedVars, buffer, ticking, importing, why, issued, live,
                   histVars>>

SendFlush(c) ==
    /\ pc[c] = "flush"
    /\ queue' = Append(queue, Message("flush", <<>>, c))
    /\ Goto(c, "done")
    /\ UNCHANGED <<diskVars, writerVars, sharedVars, batchVars, why, issued, live, histVars>>

\* The writer has set the done flag; the caller then looks at the error.
Flushed(c) ==
    /\ pc[c] = "done" /\ c \in answered
    /\ answered' = answered \ {c}
    /\ Goto(c, IF error THEN OnError[why[c]] ELSE OnOk[why[c]])
    /\ Because(c, IF error /\ why[c] = "end" THEN "failed" ELSE why[c])
    /\ UNCHANGED <<diskVars, writerVars, error, observed, queue, batchVars, issued, live, histVars>>

\* end_batch after its flush: join the checker, then drop the buffer with
\* whatever it holds.
Clear(i) ==
    /\ pc[i] = "clear" /\ pc[Timer] = "idle"
    /\ ticking' = FALSE
    /\ buffer' = Off
    /\ importing' = importing \ {i}
    /\ LET mine == {o \in batched : o[1] = i} IN
       /\ acked' = IF why[i] = "end" THEN acked \cup mine ELSE acked
       /\ batched' = batched \ mine
    /\ Goto(i, "idle") /\ Because(i, "none")
    /\ UNCHANGED <<diskVars, writerVars, sharedVars, queue, hand, issued, live, handed>>

(***************************************************************************)
(* The writer thread.                                                      *)
(***************************************************************************)
\* Fault: the epoch does not move when a flush succeeds.
AdvanceOnError(err) == error' = err /\ observed' = IF err THEN {} ELSE observed

Advance(err) == error' = err /\ observed' = {}

AfterFlush == IF task.kind \in {"flush", "renew", "shutdown"} THEN "answer" ELSE "recv"

Receive ==
    /\ step = "recv" /\ queue # <<>>
    /\ task' = Head(queue)
    /\ queue' = Tail(queue)
    /\ batch' = batch \o task'.entries
    /\ step' = IF task'.kind = "batch" /\ Len(batch') < BatchSize THEN "recv" ELSE "flush"
    /\ UNCHANGED <<diskVars, cur, round, faults, sharedVars, batchVars, callerVars, histVars>>

FlushNothing ==
    /\ step = "flush" /\ batch = <<>>
    /\ Advance(FALSE)
    /\ step' = AfterFlush
    /\ UNCHANGED <<diskVars, cur, batch, task, round, faults, answered, queue, batchVars,
                   callerVars, histVars>>

\* Rotation: create the next file, flush the dirty blocks, delete the old
\* file, and only then write the batch to the new one.
Rotate ==
    /\ step = "flush" /\ batch # <<>> /\ round < 2
    /\ files' = Append(files, <<>>)
    /\ step' = "sweep"
    /\ UNCHANGED <<flushed, cur, batch, task, round, faults, sharedVars, queue, batchVars,
                   callerVars, histVars>>

\* Fault: the old file is deleted without flushing the blocks first.
SweepNothing ==
    /\ step = "sweep"
    /\ step' = "remove"
    /\ UNCHANGED <<flushed, files, cur, batch, task, round, faults, sharedVars, queue,
                   batchVars, callerVars, histVars>>

Sweep ==
    /\ step = "sweep"
    /\ flushed' = flushed \cup live
    /\ step' = "remove"
    /\ UNCHANGED <<files, cur, batch, task, round, faults, sharedVars, queue, batchVars,
                   callerVars, histVars>>

RemoveOld ==
    /\ step = "remove"
    /\ files' = RemoveAt(files, cur)
    /\ cur' = Len(files')
    /\ round' = round + 1
    /\ step' = "flush"
    /\ UNCHANGED <<flushed, batch, task, faults, sharedVars, queue, batchVars, callerVars,
                   histVars>>

\* Fault: the batch is cleared although the rotation failed.
RotateFailsAndClears ==
    /\ step \in {"sweep", "remove"} \/ (step = "flush" /\ batch # <<>> /\ round < 2)
    /\ "rotate" \in Faults /\ faults < MaxFaults
    /\ faults' = faults + 1
    /\ Advance(TRUE)
    /\ batch' = <<>>
    /\ round' = 0
    /\ step' = AfterFlush
    /\ UNCHANGED <<diskVars, cur, task, answered, queue, batchVars, callerVars, histVars>>

\* Creating, syncing, flushing or deleting fails: the writer stays with the
\* old file and keeps the batch.
RotateFails ==
    /\ step \in {"sweep", "remove"} \/ (step = "flush" /\ batch # <<>> /\ round < 2)
    /\ "rotate" \in Faults /\ faults < MaxFaults
    /\ faults' = faults + 1
    /\ Advance(TRUE)
    /\ round' = 0
    /\ step' = AfterFlush
    /\ UNCHANGED <<diskVars, cur, batch, task, answered, queue, batchVars, callerVars, histVars>>

\* Fault: the batch is not cleared once written.
WriteBatchAgain ==
    /\ step = "flush" /\ batch # <<>>
    /\ files' = [files EXCEPT ![cur] = @ \o batch]
    /\ Advance(FALSE)
    /\ round' = 0
    /\ step' = AfterFlush
    /\ UNCHANGED <<flushed, cur, batch, task, faults, answered, queue, batchVars, callerVars,
                   histVars>>

WriteBatch ==
    /\ step = "flush" /\ batch # <<>>
    /\ files' = [files EXCEPT ![cur] = @ \o batch]
    /\ batch' = <<>>
    /\ Advance(FALSE)
    /\ round' = 0
    /\ step' = AfterFlush
    /\ UNCHANGED <<flushed, cur, task, faults, answered, queue, batchVars, callerVars, histVars>>

\* Some entries of the batch, the last one perhaps in part.
PartOfBatch ==
    {SubSeq(batch, 1, n) : n \in 0..Len(batch)} \cup
    {Append(SubSeq(batch, 1, n), Torn) : n \in 0..(Len(batch) - 1)}

\* write_all or sync_all fails: part of the batch is in the file, and the
\* batch is kept, to be written once more with the next one.
WriteFails ==
    /\ step = "flush" /\ batch # <<>>
    /\ "write" \in Faults /\ faults < MaxFaults
    /\ faults' = faults + 1
    /\ \E part \in PartOfBatch : files' = [files EXCEPT ![cur] = @ \o part]
    /\ Advance(TRUE)
    /\ round' = 0
    /\ step' = AfterFlush
    /\ UNCHANGED <<flushed, cur, batch, task, answered, queue, batchVars, callerVars, histVars>>

Answer ==
    /\ step = "answer"
    /\ answered' = IF task.kind = "flush" THEN answered \cup {task.from} ELSE answered
    /\ step' = CASE task.kind = "flush" -> "recv"
                 [] task.kind = "renew" -> "trim"
                 [] task.kind = "shutdown" -> "stopped"
    /\ cur' = IF task.kind = "renew" THEN 0 ELSE cur
    /\ UNCHANGED <<diskVars, batch, task, round, faults, error, observed, queue, batchVars,
                   callerVars, histVars>>

\* Renew deletes every redo file, in directory order, then creates one.
TrimOne ==
    /\ step = "trim"
    /\ \E i \in DOMAIN files : files' = RemoveAt(files, i)
    /\ UNCHANGED <<flushed, writerVars, sharedVars, queue, batchVars, callerVars, histVars>>

Renewed ==
    /\ step = "trim" /\ files = <<>>
    /\ files' = <<(<<>>)>>
    /\ cur' = 1
    /\ Advance(FALSE)
    /\ answered' = answered \cup {task.from}
    /\ step' = "recv"
    /\ UNCHANGED <<flushed, batch, task, round, faults, queue, batchVars, callerVars, histVars>>

RenewFails ==
    /\ step = "trim" /\ files = <<>>
    /\ "renew" \in Faults /\ faults < MaxFaults
    /\ faults' = faults + 1
    /\ Advance(TRUE)
    /\ answered' = answered \cup {task.from}
    /\ step' = "recv"
    /\ UNCHANGED <<diskVars, cur, batch, task, round, queue, batchVars, callerVars, histVars>>

(***************************************************************************)
(* The process dies, or has ended, and starts again.  A write in progress  *)
(* leaves part of the batch in the file.                                   *)
(***************************************************************************)
Crash ==
    /\ pc[Owner] # "down"
    /\ files' \in {files} \cup
          (IF step = "flush" /\ batch # <<>>
           THEN {[files EXCEPT ![cur] = @ \o part] : part \in PartOfBatch} ELSE {})
    /\ live' = {}
    /\ cur' = 0 /\ batch' = <<>> /\ task' = NoTask /\ step' = "recv" /\ round' = 0
    /\ error' = FALSE /\ observed' = {} /\ queue' = <<>> /\ answered' = {}
    /\ buffer' = Off /\ hand' = [c \in Callers |-> <<>>] /\ ticking' = FALSE
    /\ importing' = {}
    /\ pc' = [c \in Callers |-> IF c = Owner THEN "down" ELSE "idle"]
    /\ why' = [c \in Callers |-> "none"]
    /\ batched' = {} /\ handed' = {}
    /\ UNCHANGED <<flushed, issued, faults, acked>>

Opening == Replay \/ FlushBlocks \/ SendRenew
Appending(a) == Push(a) \/ Aged(a) \/ ReadEpoch(a) \/ Send(a) \/ Return(a)
Flushing(c) == Take(c) \/ SendBatch(c) \/ SendFlush(c) \/ Flushed(c)
Importing(i) == StartBatch(i) \/ EndBatch(i) \/ Clear(i)
Writing ==
    \/ Receive \/ FlushNothing \/ Rotate \/ Sweep \/ RemoveOld \/ WriteBatch \/ Answer
    \/ TrimOne \/ Renewed
Failing == RotateFails \/ WriteFails \/ RenewFails

Next ==
    \/ Opening \/ Shutdown \/ Tick \/ Writing \/ Failing \/ Crash
    \/ \E a \in Appenders : Apply(a) \/ Appending(a)
    \/ \E c \in Callers : Flushing(c)
    \/ \E i \in Importers : Importing(i)

Spec == Init /\ [][Next]_vars

\* The writer thread runs, and a caller that can go on does.
FairSpec == Spec /\ WF_vars(Writing) /\ \A c \in Callers : WF_vars(Flushing(c))
                 /\ \A a \in Appenders : WF_vars(Appending(a))

(***************************************************************************)
(* Properties.                                                             *)
(***************************************************************************)
Labels == {"idle", "append", "send", "wait", "take", "batch", "flush", "done", "push",
           "clear", "down", "replayed", "trim", "shut", "stopped"}

Messages == [kind : {"entry", "batch", "flush", "renew", "shutdown"},
             entries : Seq(Ops), from : Callers]

\* Types; while a batch waits to be written the writer has a file to write to.
TypeOK ==
    /\ flushed \subseteq Ops /\ live \subseteq Ops
    /\ files \in Seq(Seq(Records))
    /\ cur \in 0..Len(files)
    /\ batch \in Seq(Ops)
    /\ task \in Messages \cup {NoTask}
    /\ step \in {"recv", "flush", "sweep", "remove", "answer", "trim", "stopped"}
    /\ round \in 0..2 /\ error \in BOOLEAN
    /\ observed \subseteq Appenders /\ answered \subseteq Callers
    /\ queue \in Seq(Messages)
    /\ buffer \in Seq(Ops) \cup {Off} /\ hand \in [Callers -> Seq(Ops)]
    /\ importing \subseteq Importers /\ ticking \in BOOLEAN
    /\ pc \in [Callers -> Labels]
    /\ issued \in [Appenders -> 0..MaxOps] /\ faults \in 0..MaxFaults
    /\ acked \cup batched \cup handed \subseteq Ops
    /\ batch # <<>> => cur # 0

\* An operation reported durable, by append or by the end_batch of its import,
\* is found again by the next start whenever the process dies: in the middle
\* of a rotation, of replay, or of the deletion of the files replay consumed.
AckedSurvives == acked \subseteq Recoverable

QueuedEntries == FlattenSeq([i \in DOMAIN queue |-> queue[i].entries])

\* Whatever the order of appends, rotations and failed rotations, an entry
\* given to the log is always somewhere: on its way to the writer, in a file
\* replay reads, or no longer needed because its blocks are in the data file.
NothingDropped ==
    handed \subseteq Recoverable \cup Range(batch) \cup Range(QueuedEntries)
                     \cup (IF buffer = Off THEN {} ELSE Range(buffer))
                     \cup UNION {Range(hand[c]) : c \in Callers}

\* From the oldest file to the tail of the channel, the operations of one
\* thread stand in the order it did them and none stands there twice, so that
\* replay repeats them in that order.
ReplayInOrder ==
    LET line == FlattenSeq(files) \o batch \o QueuedEntries
    IN  \A i, j \in DOMAIN line :
            i < j /\ Torn \notin {line[i], line[j]} /\ line[i][1] = line[j][1]
                => line[i][2] < line[j][2]

\* A rotation or a renewal only removes records whose operations are in the
\* data file.
TrimsOnlyFlushed ==
    [][pc[Owner]' # "down" => Logged \ Logged' \subseteq flushed]_vars

\* Every thread that waits for the writer, for its epoch or for its done
\* flag, is released, whichever flushes fail.
CallersReleased ==
    \A c \in Callers : pc[c] \in {"wait", "done"} ~> pc[c] \notin {"wait", "done"}
=============================================================================
