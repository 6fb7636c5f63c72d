------------------------------ MODULE Queries ------------------------------
(***************************************************************************)
(* Gremlin pipelines that begin at V or E (graph/gremlin.rs): the plain    *)
(* steps, and what execute does instead when it sees the step after V or   *)
(* E: it takes ids from an index and skips the filter.                     *)
(***************************************************************************)
EXTENDS GraphIndex

Item(k, i, r) == [kind |-> k, id |-> i, name |-> r.name, label |-> r.label, value |-> r.value]

\* read_vertex_by_ptr, read_edge_by_ptr at the present time, of ids
ById(k, ids) ==
    LET seen == SelectSeq(ids, LAMBDA i : Readable(g, k, i))
    IN  [n \in DOMAIN seen |-> Item(k, seen[n], At(g, k, seen[n]))]

All(k) == ById(k, Ascending(Live(g, k)))

Has(items, v) == SelectSeq(items, LAMBDA r : r.value = v)
HasNot(items, v) == SelectSeq(items, LAMBDA r : r.value # v)
HasKey(items) == SelectSeq(items, LAMBDA r : r.value # None)
HasLabel(items, l) == SelectSeq(items, LAMBDA r : r.label = l)
Limit(items, n) == SubSeq(items, 1, IF n < Len(items) THEN n ELSE Len(items))

\* Ids whose record is at one of these places.
IdsAt(k, ptrs) == Ascending({i \in Live(g, k) : g.ids[k][i] \in Range(ptrs)})
IdOf(k, p) == CHOOSE i \in Live(g, k) : g.ids[k][i] = p
IdsOf(k, ptrs) ==
    LET known == SelectSeq(ptrs, LAMBDA p : \E i \in Live(g, k) : g.ids[k][i] = p)
    IN  [n \in DOMAIN known |-> IdOf(k, known[n])]

\* V().has(key, v): the ids of the property index, or the plain steps if none
PeekHas(k, v) ==
    LET ids == IdsAt(k, g.props[k][v]) IN IF ids # <<>> THEN ById(k, ids) ELSE Has(All(k), v)

PeekHasNot(k, v) ==
    LET ids == IdsAt(k, g.props[k][v])
    IN  IF ids # <<>> THEN ById(k, Ascending(Live(g, k) \ Range(ids))) ELSE HasNot(All(k), v)

PeekHasKey(k) ==
    LET vs == SetToSeq(Values)
        ids == IdsOf(k, FlattenSeq([n \in DOMAIN vs |-> g.props[k][vs[n]]]))
    IN  IF ids # <<>> THEN ById(k, ids) ELSE HasKey(All(k))

PeekHasLabel(k, l) ==
    LET ids == IdsOf(k, g.labels[k][l]) IN IF ids # <<>> THEN ById(k, ids) ELSE HasLabel(All(k), l)

\* top_pointers: from the highest rank, in order of insertion, of both kinds
ByRank(entries) ==
    LET rs == SetToSortSeq({entries[n].rank : n \in DOMAIN entries}, >)
    IN  FlattenSeq([n \in DOMAIN rs |-> SelectSeq(entries, LAMBDA e : e.rank = rs[n])])

\* Fault: the entries are taken as they were inserted.
TopPointersUnsorted(n, min) ==
    LET ps == Limit(SelectSeq(g.ranks, LAMBDA e : e.rank >= min), n)
    IN  [m \in DOMAIN ps |-> ps[m].ptr]

TopPointers(n, min) ==
    LET ps == Limit(SelectSeq(ByRank(g.ranks), LAMBDA e : e.rank >= min), n)
    IN  [m \in DOMAIN ps |-> ps[m].ptr]

\* What limit and rank read at these places, by the kind and id in the headers.
ReadAt(ptrs) ==
    LET seen == SelectSeq(ptrs, LAMBDA p : g.rec[p].status = "Normal" /\ g.rec[p].kind \in Kinds)
    IN  [n \in DOMAIN seen |-> Item(g.rec[seen[n]].kind, g.rec[seen[n]].id, g.rec[seen[n]])]

(***************************************************************************)
(* Looking ahead changes nothing but the way: for every value and label,   *)
(* the answer from the index is the one V or E and then the filter give,   *)
(* through creations, deletions, batches and places used again, at every   *)
(* moment in between, as long as no record was updated and for records     *)
(* that no operation has taken for others (execute, step_v, step_e).       *)
(***************************************************************************)
PeekAgrees ==
    LET Trusted(items) == SelectSeq(items, LAMBDA r : <<r.kind, r.id>> \notin misled)
        Same(a, b) == Len(Trusted(a)) = Len(Trusted(b)) /\ Range(Trusted(a)) = Range(Trusted(b))
    IN  ~updated =>
          \A k \in Kinds :
              /\ \A v \in Values : /\ Same(PeekHas(k, v), Has(All(k), v))
                                   /\ Same(PeekHasNot(k, v), HasNot(All(k), v))
              /\ Same(PeekHasKey(k), HasKey(All(k)))
              /\ \A l \in Labels : Same(PeekHasLabel(k, l), HasLabel(All(k), l))

(***************************************************************************)
(* What limit and rank answer of places at which nobody is at work, or     *)
(* ever was with another, are readable entities, none twice, in order of   *)
(* rank; and no readable entity that was left out has a higher rank than   *)
(* one that was let in (step_v, step_e, step_rank, top_pointers).          *)
(***************************************************************************)
TopIsTop ==
    LET there == {e \in Entities(g) : Readable(g, e[1], e[2]) /\ Calm(PtrOf(e))}
        RankOf(e) == g.rec[PtrOf(e)].rank
    IN  \A n \in 1..3 :
          LET calm == SelectSeq(TopPointers(n, 0), LAMBDA p : Calm(p) /\ g.rec[p].status = "Normal")
              in == {<<r.kind, r.id>> : r \in Range(ReadAt(calm))}
          IN  /\ in \subseteq there /\ Cardinality(in) = Len(calm)
              /\ \A a, b \in DOMAIN calm : a < b => g.rec[calm[a]].rank >= g.rec[calm[b]].rank
              /\ \A x \in there \ in : \A e \in in : RankOf(x) <= RankOf(e)
=============================================================================
