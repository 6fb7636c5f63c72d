--------------------------- MODULE BroadcastQueue ---------------------------
(***************************************************************************)
(* The persistent queue by which the master sends writes to its workers    *)
(* (cluster/broadcast_queue.rs): one list of append-only files per worker, *)
(* request handlers that append to the last file, and one consumer task    *)
(* that delivers from the first file, rebuilds the lists after a restart   *)
(* and deletes delivered files.  The lists live in memory behind a mutex;  *)
(* what a restart finds are the files.                                     *)
(*                                                                         *)
(* A file is the sequence of its lines and a flag that says that the last  *)
(* line lacks its newline.  A line is the sequence of the entries whose    *)
(* text it holds: anything but one entry does not parse.                   *)
(***************************************************************************)
EXTENDS Naturals, FiniteSets, SequencesExt

CONSTANTS
    Nodes,          \* workers
    Handlers,       \* request handlers of the master
    MaxMessages,    \* bound: broadcasts of each handler
    MaxPerFile,     \* max_per_file
    MaxCrashes,     \* bound: restarts of the master
    MaxFaults,      \* bound: appends that fail
    ServeEarly,     \* handlers may run before the consumer has rebuilt
    TornCrash,      \* a crash may come between the text of a line and its end
    Gone,           \* a file that does not exist (any more)
    Nobody          \* nobody appends

Messages == Handlers \X (1..MaxMessages)

ASSUME BroadcastQueueAssumption ==
    /\ IsFiniteSet(Nodes)
    /\ MaxMessages \in Nat /\ MaxCrashes \in Nat /\ MaxFaults \in Nat
    /\ MaxPerFile \in Nat \ {0}
    /\ ServeEarly \in BOOLEAN /\ TornCrash \in BOOLEAN
    /\ Nobody \notin Handlers
    /\ Gone \notin [lines : Seq(Seq(Messages)), open : BOOLEAN]

VARIABLES
    files,      \* files[n]: the files ever named for node n, in name order
    queue,      \* queue[n]: NodeQueueState.files, each a FileProgress
    pen,        \* the append in progress; it holds the mutex of the lists
    sent,       \* sent[h]: broadcasts handler h has begun
    phase,      \* what the consumer does: "scan", "read", "visit", "deliver", "count"
    listed,     \* files a directory listing returned that are still to be read
    found,      \* files that were read and have an entry
    round,      \* nodes still to visit in this round
    target,     \* the node of the entry in hand
    hand,       \* the entry being delivered
    crashes, faults,
    queued,     \* history: queued[n], messages in the order enqueue returned
    delivered   \* history: delivered[n], messages in the order they first arrived

consumerVars == <<phase, listed, found, round, target, hand>>
boundVars == <<crashes, faults>>
vars == <<files, queue, pen, sent, consumerVars, boundVars, queued, delivered>>

NoPen == [by |-> Nobody, node |-> CHOOSE n \in Nodes : TRUE, stage |-> "idle"]
NoMessage == <<>>

Init ==
    /\ files = [n \in Nodes |-> <<>>] /\ queue = [n \in Nodes |-> <<>>]
    /\ pen = NoPen /\ sent = [h \in Handlers |-> 0]
    /\ phase = "scan" /\ listed = {} /\ found = {}
    /\ round = {} /\ target = NoPen.node /\ hand = NoMessage
    /\ crashes = 0 /\ faults = 0
    /\ queued = [n \in Nodes |-> <<>>] /\ delivered = [n \in Nodes |-> <<>>]

Unlocked == pen = NoPen
Content(n, k) == IF files[n][k] = Gone THEN <<>> ELSE files[n][k].lines
LineCount(n, k) == Len(Content(n, k))

\* The numbers of S in order.
Ascending(S) == CHOOSE q \in SetToSeqs(S) : \A i, j \in DOMAIN q : i < j => q[i] < q[j]

\* read_file: lines that do not parse are skipped.
Entries(n, k) ==
    LET good == Ascending({i \in DOMAIN Content(n, k) : Len(Content(n, k)[i]) = 1})
    IN  [j \in DOMAIN good |-> Content(n, k)[good[j]][1]]

Progress(k, written) == [file |-> k, consumed |-> 0, written |-> written]

(***************************************************************************)
(* enqueue.  The mutex is held from the choice of the file to the end of   *)
(* the line; text and newline are two writes.                              *)
(***************************************************************************)
NeedNew(n) ==
    queue[n] = <<>> \/ Last(queue[n]).written >= MaxPerFile

Open(h, n) ==
    /\ Unlocked /\ sent[h] < MaxMessages
    /\ ServeEarly \/ phase \notin {"scan", "read"}
    /\ sent' = [sent EXCEPT ![h] = @ + 1]
    /\ pen' = [by |-> h, node |-> n, stage |-> "text"]
    /\ LET fresh == [lines |-> <<>>, open |-> FALSE]
           k == Last(queue[n]).file
       IN  IF NeedNew(n)
           THEN /\ files' = [files EXCEPT ![n] = Append(@, fresh)]
                /\ queue' = [queue EXCEPT ![n] = Append(@, Progress(Len(files[n]) + 1, 0))]
           ELSE /\ files' = [files EXCEPT ![n][k] = IF @ = Gone THEN fresh ELSE @]
                /\ UNCHANGED queue
    /\ UNCHANGED <<consumerVars, boundVars, queued, delivered>>

Current == Last(queue[pen.node]).file
Entry == <<pen.by, sent[pen.by]>>

\* The text goes to the end of the file, on a line that was left open too.
WithText(f) ==
    [lines |-> IF f.open THEN Append(Front(f.lines), Append(Last(f.lines), Entry))
                         ELSE Append(f.lines, <<Entry>>),
     open |-> TRUE]

\* A file that was unlinked in between keeps the line to itself.
WriteText ==
    /\ pen.stage = "text"
    /\ pen' = [pen EXCEPT !.stage = "newline"]
    /\ files' = [files EXCEPT ![pen.node][Current] = IF @ = Gone THEN Gone ELSE WithText(@)]
    /\ UNCHANGED <<queue, sent, consumerVars, boundVars, queued, delivered>>

WriteNewline ==
    /\ pen.stage = "newline"
    /\ pen' = NoPen
    /\ files' = [files EXCEPT ![pen.node][Current] =
                    IF @ = Gone THEN Gone ELSE [@ EXCEPT !.open = FALSE]]
    /\ queue' = [queue EXCEPT ![pen.node][Len(queue[pen.node])].written = @ + 1]
    /\ queued' = [queued EXCEPT ![pen.node] = Append(@, Entry)]
    /\ UNCHANGED <<sent, consumerVars, boundVars, delivered>>

\* The file cannot be written: the error is logged and the entry is gone.
AppendFails ==
    /\ pen.stage = "text" /\ faults < MaxFaults
    /\ faults' = faults + 1
    /\ pen' = NoPen
    /\ UNCHANGED <<files, queue, sent, consumerVars, crashes, queued, delivered>>

(***************************************************************************)
(* rebuild_state_from_files: list the directory, read each file, drop those*)
(* without an entry, and only then lock the lists and add the others.      *)
(***************************************************************************)
List ==
    /\ phase = "scan"
    /\ listed' = UNION {{n} \X {k \in DOMAIN files[n] : files[n][k] # Gone} : n \in Nodes}
    /\ phase' = "read"
    /\ UNCHANGED <<files, queue, pen, sent, found, round, target, hand, boundVars, queued, delivered>>

ReadOne(f) ==
    /\ phase = "read" /\ f \in listed
    /\ listed' = listed \ {f}
    /\ IF Entries(f[1], f[2]) = <<>>
       THEN files' = [files EXCEPT ![f[1]][f[2]] = Gone] /\ UNCHANGED found
       ELSE found' = found \cup {f} /\ UNCHANGED files
    /\ UNCHANGED <<queue, pen, sent, phase, round, target, hand, boundVars, queued, delivered>>

FoundFor(n) == {f[2] : f \in {g \in found : g[1] = n}}

\* Fault: the files of a node are added newest first.
RebuiltBackwards(n) ==
    LET names == Reverse(Ascending(FoundFor(n)))
    IN  [i \in DOMAIN names |-> Progress(names[i], LineCount(n, names[i]))]

\* The files of node n, sorted by name.
Rebuilt(n) ==
    LET names == Ascending(FoundFor(n))
    IN  [i \in DOMAIN names |-> Progress(names[i], LineCount(n, names[i]))]

Insert ==
    /\ phase = "read" /\ listed = {} /\ Unlocked
    /\ queue' = [n \in Nodes |-> queue[n] \o Rebuilt(n)]
    /\ found' = {}
    /\ phase' = "visit"
    /\ UNCHANGED <<files, pen, sent, listed, round, target, hand, boundVars, queued, delivered>>

(***************************************************************************)
(* The consumer loop.                                                      *)
(***************************************************************************)
Poll ==
    /\ phase = "visit" /\ round = {} /\ Unlocked
    /\ round' = {n \in Nodes : queue[n] # <<>>}
    /\ round' # {}
    /\ UNCHANGED <<files, queue, pen, sent, phase, listed, found, target, hand, boundVars,
                   queued, delivered>>

\* Fault: a file counts as delivered one entry too early.
DrainedEarly(n, p) == LineCount(n, p.file) = 0 \/ p.consumed + 1 >= LineCount(n, p.file)

Drained(n, p) == LineCount(n, p.file) = 0 \/ p.consumed >= LineCount(n, p.file)

\* How many leading files prepare_next drops.
DrainedPrefix(n) ==
    CHOOSE d \in 0..Len(queue[n]) :
        /\ \A i \in 1..d : Drained(n, queue[n][i])
        /\ d < Len(queue[n]) => ~Drained(n, queue[n][d + 1])

\* prepare_next: delete drained files at the front, then take the next entry
\* of the first file that is left.
Prepare(n) ==
    /\ phase = "visit" /\ n \in round /\ Unlocked
    /\ round' = round \ {n}
    /\ LET dropped == {queue[n][i].file : i \in 1..DrainedPrefix(n)}
           rest == SubSeq(queue[n], DrainedPrefix(n) + 1, Len(queue[n]))
           next == rest[1].consumed + 1
       IN  /\ files' = [files EXCEPT ![n] =
                           [k \in DOMAIN @ |-> IF k \in dropped THEN Gone ELSE @[k]]]
           /\ queue' = [queue EXCEPT ![n] = rest]
           /\ IF rest # <<>> /\ next \in DOMAIN Entries(n, rest[1].file)
              THEN /\ hand' = Entries(n, rest[1].file)[next]
                   /\ target' = n /\ phase' = "deliver"
              ELSE UNCHANGED <<hand, target, phase>>
    /\ UNCHANGED <<pen, sent, listed, found, boundVars, queued, delivered>>

Arrived ==
    delivered' = IF hand \in Range(delivered[target]) THEN delivered
                 ELSE [delivered EXCEPT ![target] = Append(@, hand)]

\* The worker answers with a status below 500.
Deliver ==
    /\ phase = "deliver"
    /\ Arrived
    /\ phase' = "count"
    /\ UNCHANGED <<files, queue, pen, sent, listed, found, round, target, hand, boundVars, queued>>

\* The worker cannot be reached, or its answer is lost: try again next round.
DeliverFails ==
    /\ phase = "deliver"
    /\ Arrived \/ UNCHANGED delivered
    /\ phase' = "visit" /\ hand' = NoMessage
    /\ UNCHANGED <<files, queue, pen, sent, listed, found, round, target, boundVars, queued>>

\* Fault: the progress of the file is not recorded.
CountNot ==
    /\ phase = "count" /\ Unlocked
    /\ phase' = "visit" /\ hand' = NoMessage
    /\ UNCHANGED <<files, queue, pen, sent, listed, found, round, target, boundVars, queued,
                   delivered>>

\* Back under the mutex, the first file of the node has one entry less to go.
Count ==
    /\ phase = "count" /\ Unlocked
    /\ queue' = IF queue[target] = <<>> THEN queue
                ELSE [queue EXCEPT ![target][1].consumed = @ + 1]
    /\ phase' = "visit" /\ hand' = NoMessage
    /\ UNCHANGED <<files, pen, sent, listed, found, round, target, boundVars, queued, delivered>>

\* The master dies and starts again.
Crash ==
    /\ crashes < MaxCrashes
    /\ TornCrash \/ pen.stage # "newline"
    /\ crashes' = crashes + 1
    /\ queue' = [n \in Nodes |-> <<>>]
    /\ pen' = NoPen
    /\ phase' = "scan" /\ listed' = {} /\ found' = {} /\ round' = {} /\ hand' = NoMessage
    /\ UNCHANGED <<files, sent, target, faults, queued, delivered>>

Enqueuing == (\E h \in Handlers, n \in Nodes : Open(h, n)) \/ WriteText \/ WriteNewline
Rebuilding == List \/ (\E f \in listed : ReadOne(f)) \/ Insert
Consuming == Rebuilding \/ Poll \/ (\E n \in round : Prepare(n)) \/ Count

Next ==
    \/ Enqueuing \/ AppendFails
    \/ Consuming \/ Deliver \/ DeliverFails
    \/ Crash

Spec == Init /\ [][Next]_vars

\* The consumer task is scheduled, an append that has begun ends, and a worker
\* that is tried again and again is reached again and again.
FairSpec ==
    /\ Spec
    /\ WF_vars(Consuming) /\ WF_vars(WriteText) /\ WF_vars(WriteNewline)
    /\ WF_vars(Deliver \/ DeliverFails)
    /\ \A n \in Nodes : SF_vars(Deliver /\ target = n)

(***************************************************************************)
(* Properties.                                                             *)
(***************************************************************************)

\* Types; an entry is in hand exactly while it is delivered and counted.
TypeOK ==
    /\ \A n \in Nodes : \A k \in DOMAIN files[n] :
         files[n][k] = Gone \/ files[n][k] \in [lines : Seq(Seq(Messages)), open : BOOLEAN]
    /\ \A n \in Nodes : \A i \in DOMAIN queue[n] : queue[n][i].file \in DOMAIN files[n]
    /\ pen = NoPen \/ pen \in [by : Handlers, node : Nodes, stage : {"text", "newline"}]
    /\ sent \in [Handlers -> 0..MaxMessages]
    /\ phase \in {"scan", "read", "visit", "deliver", "count"}
    /\ round \subseteq Nodes /\ target \in Nodes
    /\ (hand # NoMessage) = (phase \in {"deliver", "count"})
    /\ crashes \in 0..MaxCrashes /\ faults \in 0..MaxFaults

Stored(n) == UNION {Range(Entries(n, k)) : k \in DOMAIN files[n]}

\* "Undelivered broadcasts survive a master restart": what enqueue took has
\* arrived at the worker or is in a file from which it can be read.
NothingLost ==
    \A n \in Nodes : Range(queued[n]) \subseteq Range(delivered[n]) \cup Stored(n)

\* "Delivering the oldest undelivered entry in order": when a message arrives
\* for the first time, every message queued for the node before it has
\* arrived, across rolled files, redeliveries and restarts.
InOrder ==
    \A n \in Nodes : \A i, j \in DOMAIN queued[n], d \in DOMAIN delivered[n] :
        i < j /\ delivered[n][d] = queued[n][j]
        => \E c \in 1..(d - 1) : delivered[n][c] = queued[n][i]

\* "The safety valve that keeps any single file bounded".
FilesBounded ==
    \A n \in Nodes : \A k \in DOMAIN files[n] : LineCount(n, k) <= MaxPerFile

\* "Retried forever", "when a whole file is delivered it is deleted": the list
\* of every node is emptied again and again.
Drains == \A n \in Nodes : []<>(queue[n] = <<>>)
=============================================================================
