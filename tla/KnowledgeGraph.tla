--------------------------- MODULE KnowledgeGraph ---------------------------
(***************************************************************************)
(* KnowledgeGraph (graph/knowledge_graph.py, graph/_store.py): a topology   *)
(* in SQLite, and a LodeDB index over its nodes and edges.  Every call is a *)
(* list of steps, each of which commits to one of the two stores; the       *)
(* process may stop between any two of them.                                *)
(***************************************************************************)
EXTENDS Naturals, Sequences, FiniteSets, SequencesExt

CONSTANTS
  None,
  Nodes,      \* node ids
  Edges,      \* edge ids, <<src, dst>>: the default id is made of the endpoints
  Texts,      \* labels that are not blank
  Facts,      \* texts of edges that are not blank
  Vectors,    \* caller-supplied embeddings
  Points,     \* nodes of the graphs that traversals are checked on
  MaxCalls,   \* bound: calls made
  MaxCrashes  \* bound: crashes

VARIABLES
  opts,      \* how the graph was opened
  nodes,     \* nodes: id -> label (None when blank), or "absent"
  edges,     \* edges: the ids there are
  vectors,   \* node_vectors: id -> retained embedding, or None
  nodeDocs,  \* the index's "n:" documents: what each is embedded by, or None
  edgeDocs,  \* and its "e:" documents
  call,      \* the steps left of the call in progress
  meaning,   \* history: what each node was last given to be found by
  fact,      \* history: and each edge
  clean,     \* history: no crash since the graph was created
  rebuilt,   \* history: a reindex was the last call to complete
  calls, crashes

store == <<nodes, edges, vectors>>
index == <<nodeDocs, edgeDocs>>
history == <<meaning, fact, clean, rebuilt, calls, crashes>>
vars == <<opts, store, index, call, history>>

-----------------------------------------------------------------------------
(* Steps: one SQLite transaction, or one commit of the index.               *)

Step(op, arg) == [op |-> op, arg |-> arg]

\* Pairs <<id, value>>, in the order they are applied.
Over(f, pairs) ==
  [i \in DOMAIN f |-> LET P == SelectSeq(pairs, LAMBDA p : p[1] = i)
                      IN IF P = <<>> THEN f[i] ELSE P[Len(P)][2]]

upsert_nodes(pairs)     == Step("upsert_nodes", pairs)
set_node_vectors(pairs) == Step("set_node_vectors", pairs)
remove_node_vector(n)   == Step("remove_node_vector", n)
store_remove_node(n)    == Step("store_remove_node", n)
upsert_edges(pairs)     == Step("upsert_edges", pairs)
store_remove_edge(e)    == Step("store_remove_edge", e)
index_nodes(pairs)      == Step("index_nodes", pairs)
unindex_node(n)         == Step("unindex_node", n)
index_edges(pairs)      == Step("index_edges", pairs)
unindex_edge(e)         == Step("unindex_edge", e)
finish_reindex          == Step("finish_reindex", None)

-----------------------------------------------------------------------------
(* Calls.  An item of a node is [id, label, embedding], of an edge [id,     *)
(* fact, embedding].                                                       *)

\* What an item is found by: its embedding, else its text unless the index has
\* no embedder, else nothing.
ByText(text) == IF opts.vector_only THEN None ELSE text
Meant(item, text) == IF item.embedding # None THEN item.embedding ELSE ByText(text)

\* Steps for the items that satisfy a test; a commit of nothing is no step.
Each(items, Test(_), S(_)) ==
  LET chosen == SelectSeq(items, Test) IN [i \in DOMAIN chosen |-> S(chosen[i])]
Batch(items, Test(_), Pair(_), S(_)) ==
  LET pairs == Each(items, Test, Pair) IN IF pairs = <<>> THEN <<>> ELSE <<S(pairs)>>
If(test, steps) == IF test THEN steps ELSE <<>>

HasVector(item) == item.embedding # None
NodeByText(item) == ~HasVector(item) /\ ByText(item.label) # None
NodeByNothing(item) == ~HasVector(item) /\ ByText(item.label) = None
EdgeByText(item) == ~HasVector(item) /\ ByText(item.fact) # None
EdgeByNothing(item) == ~HasVector(item) /\ ByText(item.fact) = None

\* A node index that leaves the document of a node with nothing to embed.
index_node_keeping(item) ==
  If(~NodeByNothing(item), <<index_nodes(<<<<item.id, Meant(item, item.label)>>>>)>>)
    \o If(opts.retain_vectors,
          <<IF HasVector(item) THEN set_node_vectors(<<<<item.id, item.embedding>>>>)
            ELSE remove_node_vector(item.id)>>)

\* _index_node: the document, then the retained vector.
index_node(item) ==
  <<IF NodeByNothing(item) THEN unindex_node(item.id)
    ELSE index_nodes(<<<<item.id, Meant(item, item.label)>>>>)>>
    \o If(opts.retain_vectors,
          <<IF HasVector(item) THEN set_node_vectors(<<<<item.id, item.embedding>>>>)
            ELSE remove_node_vector(item.id)>>)

index_edge(item) ==
  <<IF EdgeByNothing(item) THEN unindex_edge(item.id)
    ELSE index_edges(<<<<item.id, Meant(item, item.fact)>>>>)>>

add_node(item) == <<upsert_nodes(<<<<item.id, item>>>>)>> \o index_node(item)

add_edge(item) ==
  <<upsert_edges(<<<<item.id, item>>>>)>> \o If(opts.index_edges, index_edge(item))

\* add_nodes: the topology, the retained vectors, then the index by kind.
add_nodes(items) ==
  <<upsert_nodes([i \in DOMAIN items |-> <<items[i].id, items[i]>>])>>
    \o If(opts.retain_vectors,
          Each(items, LAMBDA m : ~HasVector(m), LAMBDA m : remove_node_vector(m.id))
            \o Batch(items, HasVector, LAMBDA m : <<m.id, m.embedding>>, set_node_vectors))
    \o Each(items, NodeByNothing, LAMBDA m : unindex_node(m.id))
    \o Batch(items, NodeByText, LAMBDA m : <<m.id, m.label>>, index_nodes)
    \o Batch(items, HasVector, LAMBDA m : <<m.id, m.embedding>>, index_nodes)

add_edges(items) ==
  <<upsert_edges([i \in DOMAIN items |-> <<items[i].id, items[i]>>])>>
    \o If(opts.index_edges,
          Each(items, EdgeByNothing, LAMBDA m : unindex_edge(m.id))
            \o Batch(items, EdgeByText, LAMBDA m : <<m.id, m.fact>>, index_edges)
            \o Batch(items, HasVector, LAMBDA m : <<m.id, m.embedding>>, index_edges))

\* ingest: the buffered calls, when the block ends without an exception.
ingest(nodeItems, edgeItems) == add_nodes(nodeItems) \o add_edges(edgeItems)

Incident(n) == {e \in edges : n \in {e[1], e[2]}}

remove_node(n) ==
  <<store_remove_node(n), unindex_node(n)>>
    \o If(opts.index_edges,
          LET incident == SetToSeq(Incident(n)) IN [i \in DOMAIN incident |-> unindex_edge(incident[i])])

remove_edge(e) == <<store_remove_edge(e)>> \o If(opts.index_edges, <<unindex_edge(e)>>)

Exists(n) == nodes[n] # "absent"

\* A reindex that leaves the documents of nodes that are gone.
reindex_keeping ==
  LET Kept(n) == IF opts.retain_vectors THEN vectors[n] ELSE None
      Label(n) == ByText(nodes[n])
      labelled == SetToSeq({n \in Nodes : Exists(n) /\ Kept(n) = None /\ Label(n) # None})
      retained == SetToSeq({n \in Nodes : Exists(n) /\ Kept(n) # None})
      loose == SetToSeq({e \in Edges : edgeDocs[e] # None /\ e \notin edges})
  IN If(labelled # <<>>, <<index_nodes([i \in DOMAIN labelled |-> <<labelled[i], Label(labelled[i])>>])>>)
       \o If(retained # <<>>, <<index_nodes([i \in DOMAIN retained |-> <<retained[i], Kept(retained[i])>>])>>)
       \o If(opts.index_edges, [i \in DOMAIN loose |-> unindex_edge(loose[i])])
       \o <<finish_reindex>>

\* reindex: orphans are removed, then every node is indexed again by its
\* retained vector, else by its label; then the orphans among the edges.
reindex ==
  LET orphans == SetToSeq({n \in Nodes : nodeDocs[n] # None /\ ~Exists(n)})
      Kept(n) == IF opts.retain_vectors THEN vectors[n] ELSE None
      Label(n) == ByText(nodes[n])
      labelled == SetToSeq({n \in Nodes : Exists(n) /\ Kept(n) = None /\ Label(n) # None})
      retained == SetToSeq({n \in Nodes : Exists(n) /\ Kept(n) # None})
      loose == SetToSeq({e \in Edges : edgeDocs[e] # None /\ e \notin edges})
  IN [i \in DOMAIN orphans |-> unindex_node(orphans[i])]
       \o If(labelled # <<>>, <<index_nodes([i \in DOMAIN labelled |-> <<labelled[i], Label(labelled[i])>>])>>)
       \o If(retained # <<>>, <<index_nodes([i \in DOMAIN retained |-> <<retained[i], Kept(retained[i])>>])>>)
       \o If(opts.index_edges, [i \in DOMAIN loose |-> unindex_edge(loose[i])])
       \o <<finish_reindex>>

-----------------------------------------------------------------------------
\* Edges are indexed unless the caller says otherwise; the index has no
\* embedder when the graph is opened vector-only.
Opened == [retain_vectors : BOOLEAN, vector_only : BOOLEAN, index_edges : BOOLEAN]

NodeItems == [id : Nodes, label : Texts \cup {None}, embedding : Vectors \cup {None}]
EdgeItems == [id : Edges, fact : Facts \cup {None}, embedding : Vectors \cup {None}]
Pairs(items) == {<<a, b>> : a, b \in items}

Init ==
  /\ opts \in Opened
  /\ nodes = [n \in Nodes |-> "absent"] /\ edges = {}
  /\ vectors = [n \in Nodes |-> None]
  /\ nodeDocs = [n \in Nodes |-> None] /\ edgeDocs = [e \in Edges |-> None]
  /\ call = <<>>
  /\ meaning = [n \in Nodes |-> None] /\ fact = [e \in Edges |-> None]
  /\ clean = TRUE /\ rebuilt = FALSE /\ calls = 0 /\ crashes = 0

\* A batch names an id once.
Calls ==
  {add_node(m) : m \in NodeItems} \cup {add_edge(m) : m \in EdgeItems}
    \cup {add_nodes(p) : p \in {q \in Pairs(NodeItems) : q[1].id # q[2].id}}
    \cup {add_edges(p) : p \in {q \in Pairs(EdgeItems) : q[1].id # q[2].id}}
    \cup {add_edges(<<x>>) : x \in EdgeItems}
    \cup {ingest(<<m>>, <<x>>) : m \in NodeItems, x \in EdgeItems}
    \cup {remove_node(n) : n \in Nodes} \cup {remove_edge(e) : e \in Edges} \cup {reindex}

Start ==
  /\ call = <<>> /\ calls < MaxCalls /\ calls' = calls + 1
  /\ call' \in Calls
  /\ rebuilt' = FALSE
  /\ UNCHANGED <<opts, store, index, meaning, fact, clean, crashes>>

Doing(op) == call # <<>> /\ Head(call).op = op
Arg == Head(call).arg
Done == call' = Tail(call) /\ UNCHANGED <<opts, clean, calls, crashes>>

UpsertNodes ==
  /\ Doing("upsert_nodes") /\ Done
  /\ nodes' = Over(nodes, [i \in DOMAIN Arg |-> <<Arg[i][1], Arg[i][2].label>>])
  /\ meaning' = Over(meaning, [i \in DOMAIN Arg |-> <<Arg[i][1], Meant(Arg[i][2], Arg[i][2].label)>>])
  /\ UNCHANGED <<edges, vectors, index, fact, rebuilt>>

SetNodeVectors ==
  /\ Doing("set_node_vectors") /\ Done
  /\ vectors' = Over(vectors, Arg)
  /\ UNCHANGED <<nodes, edges, index, meaning, fact, rebuilt>>

RemoveNodeVector ==
  /\ Doing("remove_node_vector") /\ Done
  /\ vectors' = [vectors EXCEPT ![Arg] = None]
  /\ UNCHANGED <<nodes, edges, index, meaning, fact, rebuilt>>

\* TopologyStore.remove_node: the incident edges and, by the cascade, the
\* retained vector go in the same transaction.
StoreRemoveNode ==
  /\ Doing("store_remove_node") /\ Done
  /\ nodes' = [nodes EXCEPT ![Arg] = "absent"]
  /\ vectors' = [vectors EXCEPT ![Arg] = None]
  /\ edges' = edges \ Incident(Arg)
  /\ meaning' = [meaning EXCEPT ![Arg] = None]
  /\ fact' = [e \in Edges |-> IF e \in Incident(Arg) THEN None ELSE fact[e]]
  /\ UNCHANGED <<index, rebuilt>>

UpsertEdges ==
  /\ Doing("upsert_edges") /\ Done
  /\ edges' = edges \cup {Arg[i][1] : i \in DOMAIN Arg}
  /\ fact' = Over(fact, [i \in DOMAIN Arg |-> <<Arg[i][1], Meant(Arg[i][2], Arg[i][2].fact)>>])
  /\ UNCHANGED <<nodes, vectors, index, meaning, rebuilt>>

StoreRemoveEdge ==
  /\ Doing("store_remove_edge") /\ Done
  /\ edges' = edges \ {Arg} /\ fact' = [fact EXCEPT ![Arg] = None]
  /\ UNCHANGED <<nodes, vectors, index, meaning, rebuilt>>

IndexWrites ==
  /\ \/ Doing("index_nodes") /\ nodeDocs' = Over(nodeDocs, Arg) /\ UNCHANGED edgeDocs
     \/ Doing("unindex_node") /\ nodeDocs' = [nodeDocs EXCEPT ![Arg] = None] /\ UNCHANGED edgeDocs
     \/ Doing("index_edges") /\ edgeDocs' = Over(edgeDocs, Arg) /\ UNCHANGED nodeDocs
     \/ Doing("unindex_edge") /\ edgeDocs' = [edgeDocs EXCEPT ![Arg] = None] /\ UNCHANGED nodeDocs
  /\ Done
  /\ UNCHANGED <<store, meaning, fact, rebuilt>>

FinishReindex ==
  /\ Doing("finish_reindex") /\ Done /\ rebuilt' = TRUE
  /\ UNCHANGED <<store, index, meaning, fact>>

\* The process stops; the graph is opened again as it was.
Crash ==
  /\ call # <<>> /\ crashes < MaxCrashes /\ crashes' = crashes + 1
  /\ call' = <<>> /\ clean' = FALSE
  /\ UNCHANGED <<opts, store, index, meaning, fact, rebuilt, calls>>

Next ==
  Start \/ UpsertNodes \/ SetNodeVectors \/ RemoveNodeVector \/ StoreRemoveNode \/ UpsertEdges
    \/ StoreRemoveEdge \/ IndexWrites \/ FinishReindex \/ Crash

Spec == Init /\ [][Next]_vars

-----------------------------------------------------------------------------
(* Traversal of a graph g, the sequence of its edges as the store lists them *)

edges_for(g, ids, direction) ==
  SelectSeq(g, LAMBDA e : \/ direction \in {"out", "both"} /\ e[1] \in ids
                          \/ direction \in {"in", "both"} /\ e[2] \in ids)

\* An endpoint met: visited unless it was, or the budget is spent.
meet(v, n, max_nodes) ==
  IF n \in v.visited THEN v
  ELSE IF Cardinality(v.visited) >= max_nodes THEN [v EXCEPT !.truncated = TRUE]
  ELSE [v EXCEPT !.visited = @ \cup {n}, !.next = @ \cup {n}]

\* A hop that walks on from what it visited only if the edge was taken forward.
hop_forward(g, v, direction, max_nodes) ==
  LET See(e, u) == meet([u EXCEPT !.seen = @ \cup {e}], e[2], max_nodes)
      w == FoldLeft(LAMBDA u, e : See(e, u), [v EXCEPT !.next = {}], edges_for(g, v.next, direction))
  IN IF v.next = {} \/ v.truncated THEN v ELSE w

\* One hop: the edges of the frontier, and both endpoints of each.
hop(g, v, direction, max_nodes) ==
  LET See(e, u) == meet(meet([u EXCEPT !.seen = @ \cup {e}], e[1], max_nodes), e[2], max_nodes)
      w == FoldLeft(LAMBDA u, e : See(e, u), [v EXCEPT !.next = {}], edges_for(g, v.next, direction))
  IN IF v.next = {} \/ v.truncated THEN v ELSE w

k_hop(g, seeds, k, direction, max_nodes) ==
  LET v[i \in 0 .. k] ==
        IF i = 0 THEN [visited |-> seeds, next |-> seeds, seen |-> {}, truncated |-> FALSE]
        ELSE hop(g, v[i - 1], direction, max_nodes)
  IN v[k]

\* The nodes at the end of a walk of at most k edges, each taken in the
\* direction asked for.
Walks(g, seeds, k, direction) ==
  LET Linked(a, b) == \/ direction \in {"out", "both"} /\ <<a, b>> \in ToSet(g)
                      \/ direction \in {"in", "both"} /\ <<b, a>> \in ToSet(g)
      Ends == seeds \cup UNION {{e[1], e[2]} : e \in ToSet(g)}
  IN {n \in Ends : \E len \in 0 .. k : \E w \in [0 .. len -> Ends] :
        w[0] \in seeds /\ w[len] = n /\ \A i \in 1 .. len : Linked(w[i - 1], w[i])}

-----------------------------------------------------------------------------
(* Searches                                                                *)

\* The documents of a kind that answer a query, k not a limit; an embedding
\* ranks by vector only, a text needs an embedder.
search_index(docs, x) == {d \in DOMAIN docs : docs[d] = x}

\* Hits whose node or edge is gone are dropped.
semantic_nodes(x) == {n \in search_index(nodeDocs, x) : Exists(n)}

semantic_edges(x) == {e \in search_index(edgeDocs, x) : opts.index_edges /\ e \in edges}

indexed_documents ==
  Cardinality({n \in Nodes : nodeDocs[n] # None}) + Cardinality({e \in Edges : edgeDocs[e] # None})

search_subgraph(x, hops) ==
  LET seeds == semantic_nodes(x)
      v == k_hop(SetToSeq(edges), seeds, hops, "both", Cardinality(Nodes))
  IN [nodes |-> seeds \cup {n \in v.visited : Exists(n)}, edges |-> v.seen]

-----------------------------------------------------------------------------
(* Properties                                                              *)

\* Type invariant: topology and index hold what calls gave them, and a retained
\* vector goes with its node (remove_node's cascade).
TypeOK ==
  /\ nodes \in [Nodes -> Texts \cup {None, "absent"}]
  /\ vectors \in [Nodes -> Vectors \cup {None}]
  /\ nodeDocs \in [Nodes -> Texts \cup Vectors \cup {None}]
  /\ edgeDocs \in [Edges -> Facts \cup Vectors \cup {None}]
  /\ \A n \in Nodes : vectors[n] # None => Exists(n) /\ opts.retain_vectors

\* While no call was cut short, and none is under way, every node and indexed
\* edge is found by exactly what it was last given, and the index holds nothing
\* else: single calls, batches, removals and rebuilds agree.  (A rebuild without
\* retained vectors falls back on a node's label.)  A subgraph search returns the
\* edges of what it finds, and their ends.
IndexFollows ==
  clean /\ call = <<>> =>
    /\ \A x \in Texts \cup Facts \cup Vectors :
         /\ \A n \in semantic_nodes(x) :
              x = meaning[n] \/ (~opts.retain_vectors /\ meaning[n] \in Vectors /\ x = nodes[n])
         /\ \A e \in edges : semantic_nodes(x) \cap ToSet(e) # {} =>
              /\ e \in search_subgraph(x, 1).edges
              /\ \A n \in ToSet(e) : Exists(n) => n \in search_subgraph(x, 1).nodes
         /\ opts.index_edges => semantic_edges(x) = {e \in Edges : fact[e] = x}
    /\ indexed_documents =
         Cardinality({n \in Nodes : meaning[n] # None})
           + IF opts.index_edges THEN Cardinality({e \in Edges : fact[e] # None}) ELSE 0

\* However calls were cut short, after a reindex no document is left of a node
\* or an edge that is gone, and every node with a label and no retained vector
\* is found by that label.
ReindexRestores ==
  rebuilt /\ call = <<>> =>
    \A n \in Nodes :
      /\ ~Exists(n) => nodeDocs[n] = None
      /\ Exists(n) /\ vectors[n] = None /\ ByText(nodes[n]) # None => nodeDocs[n] = nodes[n]
      /\ opts.index_edges => \A e \in Edges \ edges : edgeDocs[e] = None

\* k_hop returns exactly the nodes within k hops and the edges traversed to find
\* them; when a budget cuts it short it says so, and has spent the budget on
\* nodes that are within k hops.
KHopExact ==
  calls = 0 => \A g \in UNION {[1 .. m -> Points \X Points] : m \in 0 .. 3}, d \in {"out", "in", "both"},
     k \in 0 .. 3, max_nodes \in 1 .. Cardinality(Points) :
    LET v == k_hop(g, {0}, k, d, max_nodes)
        near == Walks(g, {0}, k, d)
    IN /\ v.truncated <=> Cardinality(near) > max_nodes
       /\ v.truncated => v.visited \subseteq near /\ Cardinality(v.visited) = max_nodes
       /\ ~v.truncated =>
            /\ v.visited = near
            /\ v.seen = IF k = 0 THEN {} ELSE ToSet(edges_for(g, Walks(g, {0}, k - 1, d), d))

\* After a reindex no node is found by a label it no longer has.
ReindexFaithful ==
  rebuilt /\ call = <<>> => \A n \in Nodes : nodeDocs[n] \in Texts => nodeDocs[n] = nodes[n]

=============================================================================
