--------------------------- MODULE MCComponents ---------------------------
(* Small instances of the nine components that Components puts into one. *)
EXTENDS Components, TLC

CONSTANTS nA, nB, lA, lB, vA   \* names, labels, a value

MCDataA == [name |-> nA, label |-> lA, value |-> vA]
MCDataB == [name |-> nB, label |-> lB, value |-> None]
MCPayloads == {MCDataA, MCDataB}

\* Two vertices with an edge between them, which was read once.
MCRecord(k, i, r, d, s, t) ==
    [kind |-> k, id |-> i, status |-> "Normal", rank |-> r, atime |-> 1,
     name |-> d.name, label |-> d.label, value |-> d.value, source |-> s, target |-> t]
MCSaved == <<MCRecord("vertex", 1, 1, MCDataA, 0, 0), MCRecord("vertex", 2, 1, MCDataB, 0, 0),
             MCRecord("edge", 1, 2, MCDataA, 1, 2)>>

\* Creations, also of an edge from a vertex to itself, one operation of each
\* other kind, an import that meets what is there and one that does not look,
\* and a batch deletion.
MCRequest(op, k, i, arg) == [op |-> op, kind |-> k, id |-> i, arg |-> arg]
MCNew(k, s, t) ==
    MCRequest("create", k, 0, [data |-> MCDataB, source |-> s, target |-> t, key |-> None])
MCRelation(d) == [source |-> nA, target |-> nB, data |-> d]
MCImport(x) == MCRequest("import", "vertex", 0, x)
MCRequests ==
    {MCNew("vertex", 0, 0), MCNew("edge", 1, 1),
     MCRequest("get", "edge", 1, None), MCRequest("meta", "edge", 1, 3),
     MCRequest("update", "vertex", 1, [data |-> MCDataB, fields |-> {"name"}]),
     MCRequest("soft", "vertex", 1, None), MCRequest("hard", "vertex", 1, None),
     MCImport([entities |-> <<>>, relations |-> <<MCRelation(MCDataA)>>, update |-> TRUE]),
     MCImport([entities |-> <<MCDataA>>, relations |-> <<MCRelation(MCDataB)>>, update |-> FALSE]),
     MCRequest("remove", "vertex", 0,
               [vertices |-> <<nA>>, edges |-> <<[source |-> nA, target |-> nB]>>])}

MCActivations == {[decay |-> 64, activate |-> 0, depth |-> 3, min |-> 0],
                  [decay |-> 64, activate |-> 32, depth |-> 2, min |-> 64],
                  [decay |-> 32, activate |-> 8, depth |-> 3, min |-> 16]}

MCEnds == (21 :> {11}) @@ (22 :> {11})
MCStripe == (11 :> 1) @@ (21 :> 1) @@ (22 :> 1)
MCPrefixed == {<<"ab", "a">>}
=============================================================================
