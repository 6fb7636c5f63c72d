------------------------------ MODULE Documents ------------------------------
(***************************************************************************)
(* Documents, their extraction into a graph, and the background tasks that *)
(* report on it (documents.rs, task/mod.rs, extract/llm_client.rs and the  *)
(* handlers of gremlin/mod.rs).  A document has a content file and an      *)
(* entry in an index, which is kept in memory and written to a file in     *)
(* place; an extraction asks a language model about it, imports what it    *)
(* answers with the id of the document as a property, and then puts the    *)
(* document down as one of that graph; a deletion may ask to clean that    *)
(* graph from what came from the document.  Handlers and tasks interleave  *)
(* at every lock; the process may die between any two steps.               *)
(*                                                                         *)
(* What the model answers is a set of names of vertices.  A vertex belongs *)
(* to the document that imported it last.                                  *)
(***************************************************************************)
EXTENDS Naturals

CONSTANTS
    Threads,
    Docs, Graphs, NoGraph, NoDoc,
    Present,      \* the document that is there at first
    Found,        \* names the language model may find in a document
    MaxRetries,   \* ExtractionConfig.max_retries
    MaxOps,       \* bound: requests
    MaxCrashes    \* bound: crashes

VARIABLES
    used,      \* ids that were given to documents
    content,   \* documents with a content file
    index,     \* DocumentManager.index, in memory: the documents and the graph of each
    saved,     \* index.json, and whether it parses
    source,    \* graph -> name of a vertex -> its _source_doc_id (NoDoc: no such vertex)
    thread,    \* what each handler or background extraction is doing
    task,      \* the extraction task of each thread
    ops, crashes,
    cleaned,   \* history: documents whose deletion with cleaning has ended
    blurred    \* history: documents deleted during an extraction, of two graphs,
               \* or under way when the process died

vars == <<used, content, index, saved, source, thread, task, ops, crashes, cleaned, blurred>>

Labels == {"read", "ask", "vertices", "edges"}
NoEntries == [d \in {} |-> NoGraph]
Listed(d) == d \in DOMAIN index
GraphOf(d) == index[d]
With(d, g) == [x \in DOMAIN index \cup {d} |-> IF x = d THEN g ELSE index[x]]
Without(d) == [x \in DOMAIN index \ {d} |-> index[x]]
Doing(op, step, d, g) == [op |-> op, step |-> step, doc |-> d, graph |-> g, names |-> {}, tries |-> 0]
Idle == Doing("none", "idle", NoDoc, NoGraph)
NoTask == [status |-> "none", steps |-> [l \in Labels |-> "pending"]]

Init ==
    /\ used = {Present} /\ content = {Present}
    /\ index = [d \in {Present} |-> NoGraph] /\ saved = [ok |-> TRUE, index |-> index]
    /\ source = [g \in Graphs |-> [n \in Found |-> NoDoc]]
    /\ thread = [t \in Threads |-> Idle] /\ task = [t \in Threads |-> NoTask]
    /\ ops = 0 /\ crashes = 0 /\ cleaned = {} /\ blurred = {}

At(t, step) == thread[t].step = step
Goto(t, step) == [thread EXCEPT ![t].step = step]
Return(t) == [thread EXCEPT ![t] = Idle]
Start(t, op, step, d, g) ==
    /\ At(t, "idle") /\ ops < MaxOps /\ ops' = ops + 1
    /\ thread' = [thread EXCEPT ![t] = Doing(op, step, d, g)]

Extracting(d) == \E t \in Threads : thread[t].op = "extract" /\ thread[t].doc = d
Deleting(d) == \E t \in Threads : thread[t].op \in {"delete", "clean"} /\ thread[t].doc = d

-----------------------------------------------------------------------------
(***************************************************************************)
(* A document: DocumentManager::add, update, delete.                       *)
(***************************************************************************)
\* create_document; the id is new.
Create(t, d) ==
    /\ Start(t, "create", "push", d, NoGraph)
    /\ d \notin used /\ used' = used \cup {d}
    /\ content' = content \cup {d}
    /\ UNCHANGED <<index, saved, source, task, crashes, cleaned, blurred>>

Push(t) ==
    /\ At(t, "push")
    /\ index' = With(thread[t].doc, NoGraph)
    /\ thread' = Goto(t, "save")
    /\ UNCHANGED <<used, content, saved, source, task, ops, crashes, cleaned, blurred>>

\* save_index: the index of this moment, under its lock.
Save(t) ==
    /\ At(t, "save")
    /\ saved' = [ok |-> TRUE, index |-> index]
    /\ thread' = CASE thread[t].op = "clean"   -> Goto(t, "collect")
                   [] thread[t].op = "extract" -> Goto(t, "finish")
                   [] OTHER                    -> Return(t)
    /\ UNCHANGED <<used, content, index, source, task, ops, crashes, cleaned, blurred>>

\* update_document; an unknown document is an error.
Assigned(d, g) == IF Listed(d) THEN With(d, g) ELSE index

UpdateDocument(t, d, g) ==
    /\ Listed(d) /\ Start(t, "update", "save", d, g)
    /\ index' = IF g = NoGraph THEN index ELSE Assigned(d, g)
    /\ blurred' = IF g \in {NoGraph, GraphOf(d)} THEN blurred ELSE blurred \cup {d}
    /\ UNCHANGED <<used, content, saved, source, task, crashes, cleaned>>

\* delete_document: which graph to clean is read first, then the file goes,
Delete(t, op, d) ==
    /\ IF Listed(d) THEN Start(t, op, "remove", d, GraphOf(d))
                    ELSE Start(t, "delete", "remove", d, NoGraph)
    /\ content' = content \ {d}
    /\ blurred' = IF Extracting(d) THEN blurred \cup {d} ELSE blurred
    /\ UNCHANGED <<used, index, saved, source, task, crashes, cleaned>>

\* Fault: the index is not written again.
UnlistUnsaved(t) ==
    LET d == thread[t].doc
    IN  /\ At(t, "remove")
        /\ index' = Without(d)
        /\ thread' = IF thread[t].op = "clean" THEN Goto(t, "collect") ELSE Return(t)
        /\ UNCHANGED <<used, content, saved, source, task, ops, crashes, cleaned, blurred>>

\* then the entry, which is saved if there was one.
Unlist(t) ==
    LET d == thread[t].doc
    IN  /\ At(t, "remove")
        /\ index' = Without(d)
        /\ thread' = IF Listed(d) THEN Goto(t, "save")
                     ELSE IF thread[t].op = "clean" THEN Goto(t, "collect") ELSE Return(t)
        /\ UNCHANGED <<used, content, saved, source, task, ops, crashes, cleaned, blurred>>

\* The vertices of the document in its graph are collected,
OfDocument(g, d) == IF g = NoGraph THEN {} ELSE {n \in Found : source[g][n] = d}

Collect(t) ==
    /\ At(t, "collect")
    /\ thread' = [thread EXCEPT ![t].step = "purge", ![t].names = OfDocument(thread[t].graph, thread[t].doc)]
    /\ UNCHANGED <<used, content, index, saved, source, task, ops, crashes, cleaned, blurred>>

\* and deleted one by one.
Purge(t, n) ==
    /\ At(t, "purge") /\ n \in thread[t].names
    /\ source' = [source EXCEPT ![thread[t].graph][n] = NoDoc]
    /\ thread' = [thread EXCEPT ![t].names = @ \ {n}]
    /\ UNCHANGED <<used, content, index, saved, task, ops, crashes, cleaned, blurred>>

Cleaned(t) ==
    /\ At(t, "purge") /\ thread[t].names = {}
    /\ cleaned' = cleaned \cup {thread[t].doc}
    /\ thread' = Return(t)
    /\ UNCHANGED <<used, content, index, saved, source, task, ops, crashes, blurred>>

-----------------------------------------------------------------------------
(***************************************************************************)
(* An extraction: spawn_extraction_task.                                   *)
(***************************************************************************)
Step(t, label, status) == [task[t].steps EXCEPT ![label] = status]
Settled(steps, status) == [l \in Labels |-> IF steps[l] = "running" THEN status ELSE steps[l]]

Extract(t, d, g) ==
    /\ Listed(d) /\ d \in content
    /\ Start(t, "extract", "ask", d, g)
    /\ task' = [task EXCEPT ![t] = [status |-> "running",
                                    steps |-> [NoTask.steps EXCEPT !["read"] = "completed", !["ask"] = "running"]]]
    /\ blurred' = IF Deleting(d) \/ GraphOf(d) \notin {NoGraph, g}
                     \/ \E u \in Threads : thread[u].op = "extract" /\ thread[u].doc = d /\ thread[u].graph # g
                  THEN blurred \cup {d} ELSE blurred
    /\ UNCHANGED <<used, content, index, saved, source, crashes, cleaned>>

\* The language model answers with names, and the steps named in the handler
\* from here on are not among those of the task.
Answered(t, names) ==
    /\ At(t, "ask")
    /\ thread' = [thread EXCEPT ![t].step = "import", ![t].names = names]
    /\ UNCHANGED <<used, content, index, saved, source, task, ops, crashes, cleaned, blurred>>

\* The call fails: it is tried again after a while,
Retry(t) ==
    /\ At(t, "ask") /\ thread[t].tries < MaxRetries
    /\ thread' = [thread EXCEPT ![t].tries = @ + 1]
    /\ UNCHANGED <<used, content, index, saved, source, task, ops, crashes, cleaned, blurred>>

\* Fault: the thread ends without a word to the task.
GiveUpSilently(t) ==
    /\ At(t, "ask")
    /\ thread' = Return(t)
    /\ UNCHANGED <<used, content, index, saved, source, task, ops, crashes, cleaned, blurred>>

\* and in the end, or when the answer does not parse, the task fails.
GiveUp(t) ==
    /\ At(t, "ask")
    /\ task' = [task EXCEPT ![t] = [status |-> "failed", steps |-> Settled(@.steps, "failed")]]
    /\ thread' = Return(t)
    /\ UNCHANGED <<used, content, index, saved, source, ops, crashes, cleaned, blurred>>

\* The answer does not parse, and the message for the task is cut in the middle
\* of a character: the thread panics before it has told the task anything.
Panic(t) ==
    /\ At(t, "ask")
    /\ thread' = [thread EXCEPT ![t] = Doing("none", "panicked", NoDoc, NoGraph)]
    /\ UNCHANGED <<used, content, index, saved, source, task, ops, crashes, cleaned, blurred>>

\* batch_import, vertex by vertex: one that is there is taken over.
Import(t, n) ==
    /\ At(t, "import") /\ n \in thread[t].names
    /\ source' = [source EXCEPT ![thread[t].graph][n] = thread[t].doc]
    /\ thread' = [thread EXCEPT ![t].names = @ \ {n}]
    /\ UNCHANGED <<used, content, index, saved, task, ops, crashes, cleaned, blurred>>

\* Fault: the document is not put down as one of this graph.
AssignNot(t) ==
    /\ At(t, "import") /\ thread[t].names = {}
    /\ thread' = Goto(t, "finish")
    /\ UNCHANGED <<used, content, index, saved, source, task, ops, crashes, cleaned, blurred>>

\* The document becomes one of this graph, if it is still there.
Assign(t) ==
    LET d == thread[t].doc
    IN  /\ At(t, "import") /\ thread[t].names = {}
        /\ index' = Assigned(d, thread[t].graph)
        /\ thread' = Goto(t, IF Listed(d) THEN "save" ELSE "finish")
        /\ UNCHANGED <<used, content, saved, source, task, ops, crashes, cleaned, blurred>>

Finish(t) ==
    /\ At(t, "finish")
    /\ task' = [task EXCEPT ![t] = [status |-> "completed", steps |-> Settled(@.steps, "completed")]]
    /\ thread' = Return(t)
    /\ UNCHANGED <<used, content, index, saved, source, ops, crashes, cleaned, blurred>>

-----------------------------------------------------------------------------
\* The process dies, perhaps while it writes index.json, and starts again.  An
\* index that does not parse is begun anew; tasks are in memory only.
Crash ==
    /\ crashes < MaxCrashes /\ crashes' = crashes + 1
    /\ \E torn \in {FALSE} \cup {\E t \in Threads : At(t, "save")} :
           saved' = [saved EXCEPT !.ok = @ /\ ~torn]
    /\ index' = IF saved'.ok THEN saved.index ELSE NoEntries
    /\ blurred' = blurred \cup {d \in Docs : Extracting(d) \/ Deleting(d) \/ saved' # [ok |-> TRUE, index |-> index]}
    /\ thread' = [t \in Threads |-> Idle] /\ task' = [t \in Threads |-> NoTask]
    /\ UNCHANGED <<used, content, source, ops, cleaned>>

Next ==
    \/ \E t \in Threads, d \in Docs :
           \/ Create(t, d)
           \/ \E g \in Graphs \cup {NoGraph} : UpdateDocument(t, d, g)
           \/ \E op \in {"delete", "clean"} : Delete(t, op, d)
           \/ \E g \in Graphs : Extract(t, d, g)
    \/ \E t \in Threads : \/ Push(t) \/ Save(t) \/ Unlist(t) \/ Collect(t) \/ Cleaned(t)
                          \/ Retry(t) \/ GiveUp(t) \/ Panic(t) \/ Assign(t) \/ Finish(t)
    \/ \E t \in Threads, n \in Found : Purge(t, n) \/ Import(t, n)
    \/ \E t \in Threads, names \in SUBSET Found : Answered(t, names)
    \/ Crash

\* Handlers and background tasks go on, and a call of the model has an end.
Going(t) ==
    \/ Push(t) \/ Save(t) \/ Unlist(t) \/ Collect(t) \/ Cleaned(t)
    \/ GiveUp(t) \/ Assign(t) \/ Finish(t)
    \/ \E n \in Found : Purge(t, n) \/ Import(t, n)

Fairness == \A t \in Threads : WF_vars(Going(t))
Spec == Init /\ [][Next]_vars
FairSpec == Spec /\ Fairness

-----------------------------------------------------------------------------
TypeOK ==
    /\ content \subseteq Docs
    /\ \A d \in DOMAIN index : d \in Docs /\ index[d] \in Graphs \cup {NoGraph}
    /\ \A t \in Threads : thread[t].tries <= MaxRetries /\ thread[t].names \subseteq Found

(***************************************************************************)
(* The file holds the index of the memory whenever no handler is between   *)
(* its change and its save, in whatever order the changes and the saves of *)
(* several handlers come, so that a restart at rest forgets no document    *)
(* (DocumentManager::save_index).                                          *)
(***************************************************************************)
SavedWhenQuiet ==
    saved.ok /\ (\A t \in Threads : ~At(t, "save")) => saved.index = index

(***************************************************************************)
(* After a deletion that cleans, no graph has a vertex of that document    *)
(* (delete_document), however imports and deletions of other documents     *)
(* interleave with it.  It is not said of a document that was deleted      *)
(* while an extraction of it was running, which goes on and imports its    *)
(* vertices afterwards; of one extracted into two graphs or reassigned, as *)
(* its entry names only the last; and of one whose entry, extraction or    *)
(* deletion a crash cut off.                                               *)
(***************************************************************************)
CleanedStays ==
    \A d \in cleaned \ blurred, g \in Graphs, n \in Found : source[g][n] # d

(***************************************************************************)
(* An extraction that runs comes to an end that its task shows: completed  *)
(* or failed, with no step left running, unless the process dies or the    *)
(* thread panicked (spawn_extraction_task, fail_task).  The task of a      *)
(* thread that panicked is running until the process ends.                 *)
(***************************************************************************)
Ended(t) == task[t].status # "running" /\ \A l \in Labels : task[t].steps[l] # "running"
TaskEnds(t) == task[t].status = "running" ~> Ended(t) \/ At(t, "panicked")
TasksEnd == \A t \in Threads : TaskEnds(t)

(***************************************************************************)
(* A clean deletion takes only vertices that belong to its document.  Not  *)
(* so: a vertex that an import of another document takes over after it was *)
(* collected is deleted all the same.                                      *)
(***************************************************************************)
PurgesOwn ==
    [][\A t \in Threads, n \in Found :
           Purge(t, n) => source[thread[t].graph][n] \in {thread[t].doc, NoDoc}]_vars

\* A completed task has all its steps completed.  Not so: see Answered.
AllStepsCompleted ==
    \A t \in Threads : task[t].status = "completed" => \A l \in Labels : task[t].steps[l] = "completed"
=============================================================================
