----------------------------- MODULE TokenIndex -----------------------------
(***************************************************************************)
(* The index of words and the search over it (graph/crud.rs, TokenMap of   *)
(* storage/memory_index.rs, step_search of graph/gremlin.rs).  The refs of *)
(* a word lie in records of their own, the segments.  A creation or an     *)
(* update adds one ref per word of what it wrote: it looks the first       *)
(* segment up, writes a copy with the ref added, and then puts the copy in *)
(* the index and frees what it copied.  Requests do so at the same time,   *)
(* the locks of graph/locked.rs do not keep them apart.  Refs are never    *)
(* removed: a search reads the records they lead to.                       *)
(*                                                                         *)
(* Every word occurs once in a record, and its refs count once each; the   *)
(* limit of a search and time travel are left out.  The buffering of       *)
(* graph/token_batch.rs has no caller that starts it.                      *)
(***************************************************************************)
EXTENDS Integers, SequencesExt, FiniteSetsExt

CONSTANTS
    Threads,
    Words,
    Payloads,    \* the sets of words a client may write
    Prefixed,    \* pairs <<word, a prefix of it>> of different words
    NumPlaces,   \* bound: places for records
    MaxIds,      \* bound: ids of vertices, and of edges
    MaxOps,      \* bound: operations
    MaxRefs      \* refs that fit in one segment (MAX_TOKEN_PAYLOAD)

Kinds == {"vertex", "edge"}
Places == 1..NumPlaces
Refs == [kind : Kinds, id : 1..MaxIds]
NoRef == [kind |-> "none", id |-> 0]
Other == [type |-> "payload", refs |-> <<>>]   \* the record of a vertex or an edge
Segment(refs) == [type |-> "token", refs |-> refs]

VARIABLES
    place,    \* what lies in each place, also after it is freed
    used,     \* places in use
    tokens,   \* word -> places of its segments
    entity,   \* ref -> its record: place (0: none), words, status
    thread,   \* what each request is doing
    ops,      \* operations so far
    added,    \* history: how often each ref was added to each word
    raced     \* history: a segment was freed while another request worked from it

vars == <<place, used, tokens, entity, thread, ops, added, raced>>

Absent == [ptr |-> 0, words |-> {}, status |-> "none"]
Idle == [step |-> "idle", ref |-> NoRef, todo |-> {}, word |-> "", ptr |-> 0, seg |-> 0]

Init ==
    /\ place = [p \in Places |-> Other]
    /\ used = {}
    /\ tokens = [w \in Words |-> <<>>]
    /\ entity = [r \in Refs |-> Absent]
    /\ thread = [t \in Threads |-> Idle]
    /\ ops = 0
    /\ added = [w \in Words |-> [r \in Refs |-> 0]]
    /\ raced = FALSE

Fresh == Min(Places \ used)
Start(t, r, ws) == thread' = [thread EXCEPT ![t] = [Idle EXCEPT !.step = "next", !.ref = r, !.todo = ws]]
Op(t) == thread[t].step = "idle" /\ ops < MaxOps /\ ops' = ops + 1

\* The lock of an entity keeps updates and deletions of it apart; a creation
\* holds none, but its id is not known before it answers.
Unlocked(r) == \A t \in Threads : thread[t].ref # r

(***************************************************************************)
(* Requests, up to the point where their record is in the index.           *)
(***************************************************************************)
Create(t, k, ws) ==
    LET i == 1 + Cardinality({r \in Refs : r.kind = k /\ entity[r] # Absent})
        r == [kind |-> k, id |-> i]
    IN  /\ Op(t) /\ i <= MaxIds /\ used # Places
        /\ place' = [place EXCEPT ![Fresh] = Other]
        /\ used' = used \cup {Fresh}
        /\ entity' = [entity EXCEPT ![r] = [ptr |-> Fresh, words |-> ws, status |-> "Normal"]]
        /\ Start(t, r, ws)
        /\ UNCHANGED <<tokens, added, raced>>

Update(t, r, ws) ==
    /\ Op(t) /\ Unlocked(r) /\ entity[r].ptr # 0 /\ used # Places
    /\ place' = [place EXCEPT ![Fresh] = Other]
    /\ used' = (used \cup {Fresh}) \ {entity[r].ptr}
    /\ entity' = [entity EXCEPT ![r] = [ptr |-> Fresh, words |-> ws, status |-> "Normal"]]
    /\ Start(t, r, ws)
    /\ UNCHANGED <<tokens, added, raced>>

SoftDelete(t, r) ==
    /\ Op(t) /\ Unlocked(r) /\ entity[r].ptr # 0
    /\ entity' = [entity EXCEPT ![r].status = "Deleted"]
    /\ UNCHANGED <<place, used, tokens, thread, added, raced>>

HardDelete(t, r) ==
    /\ Op(t) /\ Unlocked(r) /\ entity[r].ptr # 0
    /\ used' = used \ {entity[r].ptr}
    /\ entity' = [entity EXCEPT ![r].ptr = 0]
    /\ UNCHANGED <<place, tokens, thread, added, raced>>

(***************************************************************************)
(* add_token_immediate, one word after the other in any order.             *)
(***************************************************************************)
\* The first segment of the word is looked up under the lock of the index.
Look(t, w) ==
    /\ thread[t].step = "next" /\ w \in thread[t].todo
    /\ thread' = [thread EXCEPT ![t].step = "copy", ![t].word = w,
                                ![t].ptr = IF tokens[w] = <<>> THEN 0 ELSE Head(tokens[w])]
    /\ UNCHANGED <<place, used, tokens, entity, ops, added, raced>>

\* Fault: the new segment takes the place of the full one in the index.
ContinuedReplacing(refs, r, ptr) ==
    IF ptr = 0 \/ Len(refs) >= MaxRefs
    THEN [refs |-> <<r>>, replaces |-> ptr]
    ELSE [refs |-> Append(refs, r), replaces |-> ptr]

\* What to write: the copied refs and one more, or a segment of its own when
\* the copied one is full; then nothing is replaced.
Continued(refs, r, ptr) ==
    IF ptr = 0 \/ Len(refs) >= MaxRefs
    THEN [refs |-> <<r>>, replaces |-> 0]
    ELSE [refs |-> Append(refs, r), replaces |-> ptr]

Forget(t, w) == [thread[t] EXCEPT !.step = IF thread[t].todo = {w} THEN "idle" ELSE "next",
                                  !.todo = @ \ {w}, !.word = "", !.ptr = 0, !.seg = 0,
                                  !.ref = IF thread[t].todo = {w} THEN NoRef ELSE @]

\* No lock is held: the place may hold something else by now.  What is not a
\* segment is skipped without an error, and the ref is lost.
Copy(t) ==
    LET p == thread[t].ptr
        new == Continued(IF p = 0 THEN <<>> ELSE place[p].refs, thread[t].ref, p)
    IN  /\ thread[t].step = "copy"
        /\ IF p # 0 /\ place[p].type # "token"
           THEN /\ thread' = [thread EXCEPT ![t] = Forget(t, thread[t].word)]
                /\ UNCHANGED <<place, used>>
           ELSE /\ used # Places
                /\ place' = [place EXCEPT ![Fresh] = Segment(new.refs)]
                /\ used' = used \cup {Fresh}
                /\ thread' = [thread EXCEPT ![t].step = "swap", ![t].ptr = new.replaces, ![t].seg = Fresh]
        /\ UNCHANGED <<tokens, entity, ops, added, raced>>

\* Under the lock of the index: the old pointer goes, the new one comes last,
\* and the chunks of the old segment are freed.
Swap(t) ==
    LET w == thread[t].word
        p == thread[t].ptr
        s == thread[t].seg
        r == thread[t].ref
    IN  /\ thread[t].step = "swap"
        /\ tokens' = [tokens EXCEPT ![w] = Append(SelectSeq(@, LAMBDA q : q # p), s)]
        /\ used' = used \ {p}
        /\ added' = [added EXCEPT ![w][r] = @ + 1]
        /\ raced' = (raced \/ (p # 0 /\ \E u \in Threads \ {t} : thread[u].ptr = p))
        /\ thread' = [thread EXCEPT ![t] = Forget(t, w)]
        /\ UNCHANGED <<place, entity, ops>>

Next ==
    \E t \in Threads :
        \/ \E k \in Kinds, ws \in Payloads : Create(t, k, ws)
        \/ \E r \in Refs, ws \in Payloads : Update(t, r, ws)
        \/ \E r \in Refs : SoftDelete(t, r) \/ HardDelete(t, r)
        \/ \E w \in Words : Look(t, w)
        \/ Copy(t)
        \/ Swap(t)

Spec == Init /\ [][Next]_vars

(***************************************************************************)
(* step_search for the words q.                                            *)
(***************************************************************************)
\* "word" finds the word itself, "prefix" every word it begins.
Matching(w, match) == {w} \cup (IF match = "word" THEN {} ELSE {x \in Words : <<x, w>> \in Prefixed})

RefsOf(w) == FlattenSeq([i \in DOMAIN tokens[w] |-> place[tokens[w][i]].refs])
Count(r, w) == Cardinality({i \in DOMAIN RefsOf(w) : RefsOf(w)[i] = r})
Score(r, q, match) == MapThenSumSet(LAMBDA w : MapThenSumSet(LAMBDA x : Count(r, x), Matching(w, match)), q)

\* read_vertex_by_ptr, read_edge_by_ptr at the present time
Reads(r) == entity[r].ptr # 0 /\ entity[r].status = "Normal"

\* "exact" wants a ref for every word, of a vertex; edges need one in any mode.
Hit(r, q, mode, match) ==
    IF mode = "exact" /\ r.kind = "vertex" THEN \A w \in q : Score(r, {w}, match) > 0
    ELSE Score(r, q, match) > 0

Found(q, mode, match) ==
    {[ref |-> r, score |-> Score(r, q, match)] : r \in {x \in Refs : Reads(x) /\ Hit(x, q, mode, match)}}

-----------------------------------------------------------------------------
TypeOK ==
    /\ used \subseteq Places
    /\ \A p \in Places : place[p].type \in {"payload", "token"} /\ Len(place[p].refs) <= MaxRefs
    /\ \A w \in Words : Range(tokens[w]) \subseteq Places
    /\ \A r \in Refs : /\ entity[r].ptr \in 0..NumPlaces /\ entity[r].words \subseteq Words
                       /\ entity[r].status \in {"none", "Normal", "Deleted"}
    /\ \A t \in Threads : thread[t].step \in {"idle", "next", "copy", "swap"} /\ thread[t].todo \subseteq Words

(***************************************************************************)
(* A search finds, in either mode and by word or by prefix, every vertex   *)
(* and edge whose creation or last update has answered, that is not        *)
(* deleted and has the words now, and its score is the number of times     *)
(* those words were written for it (add_token_immediate, step_search).     *)
(* It says so of every run in which no two requests worked from one        *)
(* segment at once: then a record may be freed twice, and refs get lost.   *)
(***************************************************************************)
SearchFinds ==
    ~raced =>
        \A q \in SUBSET Words \ {{}}, match \in {"word", "prefix"} :
            \A r \in {x \in Refs : Reads(x) /\ Unlocked(x)} :
                LET Has(w) == Matching(w, match) \cap entity[r].words # {}
                    written == MapThenSumSet(LAMBDA w : MapThenSumSet(LAMBDA x : added[x][r], Matching(w, match)), q)
                    Given(mode) == {f.score : f \in {g \in Found(q, mode, match) : g.ref = r}}
                IN  /\ (\E w \in q : Has(w)) => Given("greedy") = {written}
                    /\ (\A w \in q : Has(w)) => Given("exact") = {written}
=============================================================================
