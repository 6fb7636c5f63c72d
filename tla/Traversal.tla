----------------------------- MODULE Traversal -----------------------------
(***************************************************************************)
(* The steps of a Gremlin pipeline that follow edges (graph/gremlin.rs):   *)
(* out, in, both, outE, inE, bothE, repeat, expand and traverse, over an   *)
(* adjacency index that creations, updates and deletions of edges and      *)
(* vertices change.  A step runs on what the index held when it began.     *)
(*                                                                         *)
(* Scores are integers: Unit stands for 1.0, and is a power of two large   *)
(* enough that no walk of MaxDepth edges loses a bit.                      *)
(***************************************************************************)
EXTENDS Integers, SequencesExt, FiniteSetsExt

CONSTANTS
    Vertices,      \* ids of vertices
    Strengths,     \* strengths of edges, in units
    Unit,          \* 1.0
    MaxOps,        \* bound: creations, updates and deletions
    MaxDepth,      \* bound: depth of a query
    Activations    \* parameters of traverse: [decay, activate, depth, min]

EdgeIds == 1..MaxOps
NoEdge == [source |-> 0, target |-> 0, strength |-> 0, status |-> "none"]

VARIABLES
    status,   \* status[v]: "Normal", "Deleted" (soft) or "none" (not in the index)
    edge,     \* edge[e]: the record of edge e
    order,    \* the edges in the adjacency index, in the order they were added
    ops       \* operations so far

vars == <<status, edge, order, ops>>

Init ==
    /\ status = [v \in Vertices |-> "Normal"]
    /\ edge = [e \in EdgeIds |-> NoEdge]
    /\ order = <<>> /\ ops = 0

\* out_edges and in_edges: each list is in the order of additions.
OutEdges(v) == SelectSeq(order, LAMBDA e : edge[e].source = v)
InEdges(v) == SelectSeq(order, LAMBDA e : edge[e].target = v)

(***************************************************************************)
(* Changes of the graph, each under the locks of graph/locked.rs.          *)
(***************************************************************************)
Op == ops < MaxOps /\ ops' = ops + 1

\* Ids are given out in order, and never again.
CreateEdge(s, t, k) ==
    LET e == Min({f \in EdgeIds : edge[f] = NoEdge})
    IN  /\ Op /\ status[s] # "none" /\ status[t] # "none"
        /\ edge' = [edge EXCEPT ![e] = [source |-> s, target |-> t, strength |-> k,
                                        status |-> "Normal"]]
        /\ order' = Append(order, e)
        /\ UNCHANGED status

\* The record moves, and its adjacency entry to the end of both lists; an edge
\* that was soft deleted is Normal again.
UpdateEdge(e, k) ==
    /\ Op /\ edge[e].status \in {"Normal", "Deleted"}
    /\ edge' = [edge EXCEPT ![e].strength = k, ![e].status = "Normal"]
    /\ order' = Append(Remove(order, e), e)
    /\ UNCHANGED status

\* Records of hard-deleted edges are kept with status "gone": their ids are spent.
Erase(E) == [e \in EdgeIds |-> IF e \in E THEN [edge[e] EXCEPT !.status = "gone"] ELSE edge[e]]
Hide(E) == [e \in EdgeIds |-> IF e \in E THEN [edge[e] EXCEPT !.status = "Deleted"] ELSE edge[e]]

SoftDeleteEdge(e) ==
    /\ Op /\ edge[e].status \in {"Normal", "Deleted"}
    /\ edge' = Hide({e}) /\ UNCHANGED <<status, order>>

HardDeleteEdge(e) ==
    /\ Op /\ edge[e].status \in {"Normal", "Deleted"}
    /\ edge' = Erase({e}) /\ order' = Remove(order, e) /\ UNCHANGED status

Incident(v) == OutEdges(v) \o InEdges(v)

SoftDeleteVertex(v) ==
    /\ Op /\ status[v] # "none"
    /\ edge' = Hide(Range(Incident(v)))
    /\ status' = [status EXCEPT ![v] = "Deleted"] /\ UNCHANGED order

\* The cascade deletes the edges it collected one by one.  An edge from a
\* vertex to itself was collected twice: the second time it is not found, and
\* the deletion ends there with an error.
HardDeleteVertex(v) ==
    LET ids == Incident(v)
        again == {i \in DOMAIN ids : \E j \in 1..(i - 1) : ids[j] = ids[i]}
        erased == {ids[i] : i \in {j \in DOMAIN ids : \A k \in again : j < k}}
    IN  /\ Op /\ status[v] # "none"
        /\ edge' = Erase(erased)
        /\ order' = SelectSeq(order, LAMBDA e : e \notin erased)
        /\ status' = IF again = {} THEN [status EXCEPT ![v] = "none"] ELSE status

Next ==
    \/ \E s, t \in Vertices, k \in Strengths : CreateEdge(s, t, k)
    \/ \E e \in EdgeIds : SoftDeleteEdge(e) \/ HardDeleteEdge(e)
    \/ \E e \in EdgeIds, k \in Strengths : UpdateEdge(e, k)
    \/ \E v \in Vertices : SoftDeleteVertex(v) \/ HardDeleteVertex(v)

Spec == Init /\ [][Next]_vars

(***************************************************************************)
(* Results of a step.                                                      *)
(***************************************************************************)
Vertex(v) == [type |-> "v", id |-> v]
Edge(e) == [type |-> "e", id |-> e]
VertexIds(items) == [i \in DOMAIN items |-> items[i].id]
Only(type, items) == SelectSeq(items, LAMBDA r : r.type = type)

\* read_vertex_by_ptr and read_edge_by_ptr at the present time
VertexReads(v) == status[v] = "Normal"
EdgeReads(e) == edge[e].status = "Normal"
ReadVertices(ids) == LET kept == SelectSeq(ids, VertexReads) IN [i \in DOMAIN kept |-> Vertex(kept[i])]
ReadEdges(ids) == LET kept == SelectSeq(ids, EdgeReads) IN [i \in DOMAIN kept |-> Edge(kept[i])]

\* sort_by_key and dedup_by_key on type and id
Ordered(items) ==
    SetToSortSeq(Range(items), LAMBDA r, s : \/ (r.type = "v" /\ s.type = "e")
                                            \/ (r.type = s.type /\ r.id < s.id))

(***************************************************************************)
(* out and in: the frontier is a stack; a vertex is visited when it is     *)
(* pushed, so it keeps the depth at which it was first met.                *)
(***************************************************************************)
Searches == [visited : SUBSET Vertices, found : Seq(Vertices),
             frontier : Seq([id : Vertices, depth : Nat])]

Search(start, depth, near) ==
    LET FoundFrom[s \in Searches] ==
            IF s.frontier = <<>> THEN s.found
            ELSE LET top == Last(s.frontier)
                     popped == [s EXCEPT !.frontier = Front(@)]
                     Meet(a, v) == IF v \in a.visited THEN a
                                   ELSE [visited |-> a.visited \cup {v}, found |-> Append(a.found, v),
                                         frontier |-> Append(a.frontier, [id |-> v, depth |-> top.depth + 1])]
                 IN  FoundFrom[IF top.depth >= depth THEN popped
                               ELSE FoldLeft(Meet, popped, near[top.id])]
    IN  FoundFrom[start]

\* Fault: the vertex a search starts from is not marked as visited.
SearchFromUnmarked(v, depth, near) ==
    Search([visited |-> {}, found |-> <<>>, frontier |-> <<[id |-> v, depth |-> 0]>>],
           depth, near)

SearchFrom(v, depth, near) ==
    Search([visited |-> {v}, found |-> <<>>, frontier |-> <<[id |-> v, depth |-> 0]>>],
           depth, near)

FromEach(items, depth, near) ==
    LET starts == Only("v", items)
    IN  FlattenSeq([i \in DOMAIN starts |-> SearchFrom(starts[i].id, depth, near)])

Targets == [v \in Vertices |-> LET es == OutEdges(v) IN [i \in DOMAIN es |-> edge[es[i]].target]]
Sources == [v \in Vertices |-> LET es == InEdges(v) IN [i \in DOMAIN es |-> edge[es[i]].source]]

Indexed(ids) == SelectSeq(ids, LAMBDA v : status[v] # "none")
Out(items, depth) == ReadVertices(Indexed(FromEach(items, depth, Targets)))
In(items, depth) == ReadVertices(Indexed(FromEach(items, depth, Sources)))
Both(items, depth) == Ordered(Out(items, depth) \o In(items, depth))

OfEach(items, edges) ==
    LET starts == Only("v", items) IN FlattenSeq([i \in DOMAIN starts |-> edges[starts[i].id]])
OutE(items) == ReadEdges(OfEach(items, [v \in Vertices |-> OutEdges(v)]))
InE(items) == ReadEdges(OfEach(items, [v \in Vertices |-> InEdges(v)]))
BothE(items) == Ordered(OutE(items) \o InE(items))

\* repeat(step, times): the step runs on each item by itself.
Repeat(items, step, times) ==
    FoldLeft(LAMBDA current, k : FlattenSeq([i \in DOMAIN current |-> step[current[i]]]),
             items, [k \in 1..times |-> k])

Expand(items, depth) ==
    Ordered(items \o Out(items, depth) \o In(items, depth) \o OutE(items) \o InE(items))

(***************************************************************************)
(* traverse: scores spread from the seeds along edges in both directions.  *)
(***************************************************************************)
\* An edge whose record cannot be read counts with full strength.
StrengthOf(e) == IF EdgeReads(e) THEN edge[e].strength ELSE Unit

Spread(score, e, q) == (score * q.decay * StrengthOf(e)) \div (Unit * Unit)

\* Seeds: a vertex, or the two ends of an edge.
Seeds(items) ==
    FlattenSeq([i \in DOMAIN items |->
        IF items[i].type = "v" THEN <<items[i].id>>
        ELSE <<edge[items[i].id].source, edge[items[i].id].target>>])

\* Fault: a better score for a vertex that was reached before is not spread again.
RelaxOnce(s, cur, e, to, q) ==
    LET new == Spread(cur.score, e, q)
    IN  IF new < q.activate THEN s
        ELSE IF new <= s.visited[to] THEN [s EXCEPT !.crossed = @ \cup {e}]
        ELSE [visited |-> [s.visited EXCEPT ![to] = new],
              crossed |-> s.crossed \cup {e},
              found |-> IF new >= q.min THEN Append(s.found, [id |-> to, score |-> new]) ELSE s.found,
              frontier |-> IF s.visited[to] > 0 THEN s.frontier
                           ELSE Append(s.frontier, [id |-> to, score |-> new, depth |-> cur.depth + 1])]

\* One edge from the current vertex to another.
Relax(s, cur, e, to, q) ==
    LET new == Spread(cur.score, e, q)
    IN  IF new < q.activate THEN s
        ELSE IF new <= s.visited[to] THEN [s EXCEPT !.crossed = @ \cup {e}]
        ELSE [visited |-> [s.visited EXCEPT ![to] = new],
              crossed |-> s.crossed \cup {e},
              found |-> IF new >= q.min THEN Append(s.found, [id |-> to, score |-> new]) ELSE s.found,
              frontier |-> Append(s.frontier, [id |-> to, score |-> new, depth |-> cur.depth + 1])]

Activated == [visited : [Vertices -> Nat], crossed : SUBSET EdgeIds,
              found : Seq([id : Vertices, score : Nat]),
              frontier : Seq([id : Vertices, score : Nat, depth : Nat])]

Activate(start, q) ==
    LET EndOf[s \in Activated] ==
            IF s.frontier = <<>> THEN s
            ELSE LET cur == Head(s.frontier)
                     s0 == [s EXCEPT !.frontier = Tail(@)]
                     s1 == FoldLeft(LAMBDA a, e : Relax(a, cur, e, edge[e].target, q), s0, OutEdges(cur.id))
                     s2 == FoldLeft(LAMBDA a, e : Relax(a, cur, e, edge[e].source, q), s1, InEdges(cur.id))
                 IN  EndOf[IF cur.depth >= q.depth THEN s0 ELSE s2]
    IN  EndOf[start]

\* sort_by score, highest first and stable, then dedup_by_key of neighbours
Ranked(found) ==
    LET scores == SetToSortSeq({found[i].score : i \in DOMAIN found}, >)
        sorted == FlattenSeq([i \in DOMAIN scores |-> SelectSeq(found, LAMBDA r : r.score = scores[i])])
        first == {i \in DOMAIN sorted : i = 1 \/ sorted[i - 1].id # sorted[i].id}
        at == SetToSortSeq(first, <)
    IN  [i \in DOMAIN at |-> sorted[at[i]]]

\* The answer: edges of the input first, then vertices, then edges crossed.
Traverse(items, q) ==
    LET seeds == Seeds(items)
        s == Activate([visited |-> [v \in Vertices |-> IF v \in Range(seeds) THEN Unit ELSE 0],
                       crossed |-> {},
                       found |-> [i \in DOMAIN seeds |-> [id |-> seeds[i], score |-> Unit]],
                       frontier |-> [i \in DOMAIN seeds |-> [id |-> seeds[i], score |-> Unit, depth |-> 0]]], q)
        Kept(e) == /\ s.visited[edge[e].source] >= q.min /\ s.visited[edge[e].target] >= q.min
                   /\ EdgeReads(e)
    IN  [input |-> Only("e", items),
         vertices |-> SelectSeq(Ranked(s.found), LAMBDA r : VertexReads(r.id)),
         edges |-> {[id |-> e, score |-> s.visited[edge[e].source] + s.visited[edge[e].target]] :
                        e \in {f \in s.crossed : Kept(f)}}]

-----------------------------------------------------------------------------
(***************************************************************************)
(* What the answers are, said without frontiers.                           *)
(***************************************************************************)
Pairs == {<<edge[e].source, edge[e].target>> : e \in Range(order)}

\* Vertices at the end of a walk of exactly n steps of R from v.
WalkEnds(v, n, R) ==
    LET Ends[k \in Nat] ==
            IF k = 0 THEN {v}
            ELSE LET before == Ends[k - 1] IN {p[2] : p \in {r \in R : r[1] \in before}}
    IN  Ends[n]
Within(v, n, R) == UNION {WalkEnds(v, k, R) : k \in 0..n} \ {v}

\* Where the walks of exactly k edges from the seeds end, and their scores.
WalkScores(seeds, n, q) ==
    LET Scores[k \in Nat] ==
            IF k = 0 THEN {<<v, Unit>> : v \in seeds}
            ELSE LET before == Scores[k - 1]
                     along(e, s, t) == {<<t, Spread(w[2], e, q)>> : w \in {x \in before : x[1] = s}}
                     all == UNION {along(e, edge[e].source, edge[e].target)
                                   \cup along(e, edge[e].target, edge[e].source) : e \in Range(order)}
                 IN  {w \in all : w[2] >= q.activate}
    IN  Scores[n]

(***************************************************************************)
(* Types.                                                                  *)
(***************************************************************************)
TypeOK ==
    /\ status \in [Vertices -> {"Normal", "Deleted", "none"}]
    /\ \A e \in EdgeIds :
        edge[e] # NoEdge => /\ edge[e].source \in Vertices /\ edge[e].target \in Vertices
                            /\ edge[e].strength \in Strengths
                            /\ edge[e].status \in {"Normal", "Deleted", "gone"}
    \* exactly the edges that have a record are in the index, once
    /\ Range(order) = {e \in EdgeIds : edge[e].status \in {"Normal", "Deleted"}}
    /\ IsInjective(order)
    /\ ops \in 0..MaxOps

(***************************************************************************)
(* expand answers a graph: a vertex that is readable at either end of an   *)
(* edge of the answer is in the answer too, nothing is in it twice, and    *)
(* the vertices it began with are in it (step_expand).                     *)
(***************************************************************************)
ExpandClosed ==
    \A v \in Vertices, d \in 1..MaxDepth : VertexReads(v) =>
        LET answer == Expand(<<Vertex(v)>>, d)
        IN  /\ IsInjective(answer) /\ Vertex(v) \in Range(answer)
            /\ \A e \in {r.id : r \in Range(Only("e", answer))} :
                   \A w \in {edge[e].source, edge[e].target} :
                       VertexReads(w) => Vertex(w) \in Range(answer)

(***************************************************************************)
(* out and in answer, for every vertex, exactly the readable vertices      *)
(* within the depth asked when that is at most two, only such vertices at  *)
(* any depth, and each once; both is the union of the two; and repeat(out, *)
(* n) ends exactly where a walk of n edges over readable vertices does     *)
(* (step_out, step_in, step_both, step_repeat).  The search keeps the      *)
(* first depth it met a vertex at, on a stack: that is what this is about. *)
(* And ExpandClosed holds.                                                 *)
(***************************************************************************)
NeighboursWithinDepth ==
    /\ ExpandClosed
    /\ \A v \in Vertices : VertexReads(v) =>
           LET Ids(items) == Range(VertexIds(items))
               back == {<<p[2], p[1]>> : p \in Pairs}
               Live(S) == {w \in S : VertexReads(w)}
               alive == {p \in Pairs : p[1] # p[2] /\ VertexReads(p[2])}
               outOnce == [item \in {Vertex(w) : w \in Vertices} |-> Out(<<item>>, 1)]
           IN  \A d \in 1..MaxDepth :
               LET out == Out(<<Vertex(v)>>, d)
                   in == In(<<Vertex(v)>>, d)
               IN  /\ Ids(out) \subseteq Live(Within(v, d, Pairs))
                   /\ Ids(in) \subseteq Live(Within(v, d, back))
                   /\ d <= 2 => /\ Live(Within(v, d, Pairs)) \subseteq Ids(out)
                                /\ Live(Within(v, d, back)) \subseteq Ids(in)
                   /\ IsInjective(VertexIds(out)) /\ IsInjective(VertexIds(in))
                   /\ Range(Both(<<Vertex(v)>>, d)) = Range(out) \cup Range(in)
                   /\ Ids(Repeat(<<Vertex(v)>>, outOnce, d)) = WalkEnds(v, d, alive)

(***************************************************************************)
(* traverse scores a vertex with the best walk that leads to it from a     *)
(* seed: a walk of at most the depth asked none of whose beginnings falls  *)
(* below the activation threshold.  The first entry of a vertex in the     *)
(* answer carries that score, readable vertices are in it exactly when it  *)
(* reaches min_score (seeds always are), and the edges are those such a    *)
(* walk crosses between two vertices of that score (step_traverse).        *)
(***************************************************************************)
ScoresAreBestWalks ==
    \A q \in Activations,
       item \in {Vertex(v) : v \in {w \in Vertices : VertexReads(w)}}
                \cup {Edge(e) : e \in {f \in EdgeIds : EdgeReads(f)}} :
        LET answer == Traverse(<<item>>, q)
            seeds == Range(Seeds(<<item>>))
            walks == [k \in 0..q.depth |-> WalkScores(seeds, k, q)]
            all == UNION Range(walks)
            inner == UNION {walks[k] : k \in 0..(q.depth - 1)}
            best == [v \in Vertices |-> Max({0} \cup {w[2] : w \in {x \in all : x[1] = v}})]
            First(v) == answer.vertices[Min({i \in DOMAIN answer.vertices : answer.vertices[i].id = v})]
            Crossed(e) == \E w \in inner : /\ w[1] \in {edge[e].source, edge[e].target}
                                           /\ Spread(w[2], e, q) >= q.activate
        IN  /\ {r.id : r \in Range(answer.vertices)} =
                   {v \in Vertices : VertexReads(v) /\ (v \in seeds \/ (best[v] > 0 /\ best[v] >= q.min))}
            /\ \A v \in {r.id : r \in Range(answer.vertices)} : First(v).score = best[v]
            /\ answer.edges =
                   {[id |-> e, score |-> best[edge[e].source] + best[edge[e].target]] :
                        e \in {f \in Range(order) : /\ EdgeReads(f) /\ Crossed(f)
                                                    /\ best[edge[f].source] >= q.min
                                                    /\ best[edge[f].target] >= q.min}}
=============================================================================
