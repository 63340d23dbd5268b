---------------------------- MODULE SecurityGraph ----------------------------
(***************************************************************************)
(* The security graph of the reference profile (security-graph.ts): the    *)
(* nodes and edges sec_graph_add and sec_graph_link record, and the two    *)
(* breadth-first searches on them, findPaths and findAttackChains, one     *)
(* iteration of their while loop per step.  A handler runs without an      *)
(* await, so the graph does not change under a search.  The HTML page and  *)
(* the export file are renderings of the graph that nothing reads back and *)
(* are left out, and so are labels, details and metadata.                  *)
(***************************************************************************)
EXTENDS Naturals, Sequences, FiniteSets, SequencesExt, FiniteSetsExt, ListOps

CONSTANTS Ids,        \* node ids
          Levels,     \* [node type -> its privilege level], PRIVILEGE_LEVEL
          Followed,   \* escalation and access relationships
          Links,      \* the edges that may be linked: [from, to, relationship]
          Queries,    \* the (source, target) pairs asked about
          Depths,     \* values of max_depth
          DefaultDepth, \* max_depth when it is not given (10 in the code)
          PathCap,    \* paths after which findPaths stops (20 in the code)
          ChainCap,   \* chains after which findAttackChains stops (50)
          MaxEdits    \* BOUND: add and link calls in one behaviour

ASSUME GraphAssumption ==
  /\ PathCap \in Nat \ {0} /\ ChainCap \in Nat \ {0} /\ MaxEdits \in Nat
  /\ Depths \subseteq Nat /\ DefaultDepth \in Nat /\ \A t \in DOMAIN Levels : Levels[t] \in Nat
  /\ \A e \in Links : e.from \in Ids /\ e.to \in Ids
  /\ Queries \subseteq Ids \X Ids

VARIABLES nodes,   \* sequence of [id, type]
          edges,   \* sequence of Links
          edits,   \* add and link calls so far
          search   \* the search in progress or its result
vars == <<nodes, edges, edits, search>>

findNode(id) == {k \in DOMAIN nodes : nodes[k].id = id}
levelOf(k) == Levels[nodes[k].type]

(* at: idle, running or done; kind: the search; pairs: the (source, target) *)
(* pairs still to search, the first being searched; queue: paths to extend, *)
(* as their edges; found: completed paths; depth and cap: the bounds;       *)
(* asked: the source and target the call names.                             *)
Idle == [at |-> "idle", kind |-> "none", pairs |-> <<>>, queue |-> <<>>, found |-> <<>>,
         depth |-> 0, cap |-> 0, asked |-> {}]

-----------------------------------------------------------------------------
(* sec_graph_add, sec_graph_link *)

upsertNode(node) ==
  IF findNode(node.id) # {} THEN [nodes EXCEPT ![Min(findNode(node.id))] = node]
  ELSE Append(nodes, node)

addEdge(edge) == IF edge \in Range(edges) THEN edges ELSE Append(edges, edge)

sec_graph_add(id, type) ==
  /\ search.at = "idle" /\ edits < MaxEdits
  /\ nodes' = upsertNode([id |-> id, type |-> type])
  /\ edits' = edits + 1 /\ UNCHANGED <<edges, search>>

(* The end points need not be nodes: "may be added later".                  *)
sec_graph_link(edge) ==
  /\ search.at = "idle" /\ edits < MaxEdits
  /\ edges' = addEdge(edge)
  /\ edits' = edits + 1 /\ UNCHANGED <<nodes, search>>

-----------------------------------------------------------------------------
(* The searches.  A path in the queue is [src, edges]; its last node:       *)

Source == Head(search.pairs)[1]
Target == Head(search.pairs)[2]
endOf(path) == IF path.edges = <<>> THEN path.src ELSE Last(path.edges).to
visited(path) == {path.src} \cup {e.to : e \in Range(path.edges)}

follows(edge) == search.kind = "chains" => edge.relationship \in Followed

(* The positions of the outgoing edges of the dequeued path.                *)
adjacency(path) == {k \in DOMAIN edges : edges[k].from = endOf(path)}

(* A path never visits a node twice; each path carries its own visited set. *)
extensions(path) == {k \in adjacency(path) : follows(edges[k]) /\ edges[k].to \notin visited(path)}

(* Those of the positions exts that reach the target; or any of them.       *)
AnyNode(exts) == exts
reaching(exts) == {k \in exts : edges[k].to = Target}

extended(path, edge) == [src |-> path.src, edges |-> Append(path.edges, edge)]
extendBy(path, kept) == LET next == filtered(edges, kept)
                        IN [n \in DOMAIN next |-> extended(path, next[n])]

ExtendOneLess(path) == Len(path.edges) + 1 < search.depth
mayExtend(path) == Len(path.edges) < search.depth

startQueue(pairs) == IF pairs = <<>> THEN <<>> ELSE <<[src |-> Head(pairs)[1], edges |-> <<>>]>>

Begin(kind, pairs, asked, depth, cap) ==
  /\ search.at = "idle"
  /\ search' = [at |-> "running", kind |-> kind, pairs |-> pairs, queue |-> startQueue(pairs),
                found |-> <<>>, depth |-> depth, cap |-> cap, asked |-> asked]
  /\ UNCHANGED <<nodes, edges, edits>>

(* sec_graph_query in mode "paths".                                         *)
sec_graph_query(pair, depth) == Begin("paths", <<pair>>, {pair}, depth, PathCap)

(* Every (low privilege, high impact) pair of nodes, in the order of nodes. *)
attackPairs ==
  LET low  == filtered(nodes, {k \in DOMAIN nodes : levelOf(k) <= 2})
      high == filtered(nodes, {k \in DOMAIN nodes : levelOf(k) >= 4})
  IN [n \in 1..(Len(low) * Len(high)) |-> <<low[1 + ((n - 1) \div Len(high))].id,
                                           high[1 + ((n - 1) % Len(high))].id>>]

findAttackChains(depth) ==
  LET all == attackPairs
  IN Begin("chains", filtered(all, {n \in DOMAIN all : all[n][1] # all[n][2]}), {}, depth, ChainCap)

(* With a source and a target sec_graph_find_chains is a path search,       *)
(* otherwise it looks for chains between all pairs.                         *)
sec_graph_find_chains(depth) ==
  /\ nodes # <<>>
  /\ \/ findAttackChains(depth)
     \/ \E pair \in Queries : Begin("targeted", <<pair>>, {pair}, depth, PathCap)

(* The summary of the turn's prompt and of /sec-graph, and the export with  *)
(* its chains, at the default depth.                                        *)
graphSummary == nodes # <<>> /\ findAttackChains(DefaultDepth)
sec_graph_export == findAttackChains(DefaultDepth)

(* The loop without its cap.                                               *)
NoCap ==
  LET path == Head(search.queue)
      exts == IF mayExtend(path) THEN extensions(path) ELSE {}
      hits == extendBy(path, reaching(exts))
      rest == extendBy(path, {k \in exts : edges[k].to # Target /\ mayExtend(extended(path, edges[k]))})
  IN /\ search.at = "running" /\ search.queue # <<>>
     /\ search' = [search EXCEPT !.queue = Tail(@) \o rest, !.found = @ \o hits]
     /\ UNCHANGED <<nodes, edges, edits>>

(* One iteration of the while loop: dequeue a path, complete the extensions *)
(* that reach the target and enqueue the others that may still grow.        *)
Dequeue ==
  LET path == Head(search.queue)
      exts == IF mayExtend(path) THEN extensions(path) ELSE {}
      hits == extendBy(path, reaching(exts))
      rest == extendBy(path, {k \in exts : edges[k].to # Target /\ mayExtend(extended(path, edges[k]))})
  IN /\ search.at = "running" /\ search.queue # <<>> /\ Len(search.found) < search.cap
     /\ search' = [search EXCEPT !.queue = Tail(@) \o rest, !.found = @ \o hits]
     /\ UNCHANGED <<nodes, edges, edits>>

(* A loop that only an empty queue ends.                                    *)
EndWhenEmpty ==
  /\ search.at = "running" /\ search.queue = <<>>
  /\ search' = LET rest == IF search.pairs = <<>> THEN <<>> ELSE Tail(search.pairs) IN
               [search EXCEPT !.pairs = rest, !.queue = startQueue(rest),
                              !.at = IF rest = <<>> THEN "done" ELSE "running"]
  /\ UNCHANGED <<nodes, edges, edits>>
(* The loop ends for a pair when its queue is empty or the cap is reached.  *)
NextPair ==
  /\ search.at = "running" /\ (search.queue = <<>> \/ Len(search.found) >= search.cap)
  /\ search' = LET rest == IF search.pairs = <<>> THEN <<>> ELSE Tail(search.pairs) IN
               [search EXCEPT !.pairs = rest, !.queue = startQueue(rest),
                              !.at = IF rest = <<>> THEN "done" ELSE "running"]
  /\ UNCHANGED <<nodes, edges, edits>>

Return ==
  /\ search.at = "done" /\ search' = Idle /\ UNCHANGED <<nodes, edges, edits>>

Init == nodes = <<>> /\ edges = <<>> /\ edits = 0 /\ search = Idle

Next ==
  \/ \E id \in Ids, t \in DOMAIN Levels : sec_graph_add(id, t)
  \/ \E e \in Links : sec_graph_link(e)
  \/ \E pair \in Queries, d \in Depths : sec_graph_query(pair, d)
  \/ \E d \in Depths : sec_graph_find_chains(d)
  \/ graphSummary \/ sec_graph_export
  \/ Dequeue \/ NextPair \/ Return

(* A search runs inside one synchronous handler: it is never left half way. *)
Spec == Init /\ [][Next]_vars /\ WF_vars(Dequeue \/ NextPair \/ Return)

-----------------------------------------------------------------------------
(* Properties *)

Follow(e) == search.kind = "chains" => e.relationship \in Followed

(* The node sequences a search for paths from a to b must return: simple,   *)
(* along recorded edges it may follow, at most depth long.                  *)
SimplePaths(a, b) ==
  LET hop(x, y) == \E e \in Range(edges) : e.from = x /\ e.to = y /\ Follow(e)
  IN {p \in UNION {[1..n -> Ids] : n \in 2..(search.depth + 1)} :
        /\ p[1] = a /\ p[Len(p)] = b /\ IsInjective(p)
        /\ \A k \in 1..(Len(p) - 1) : hop(p[k], p[k + 1])}

(* The pairs of nodes a search was asked about.                             *)
Asked == IF search.kind = "chains"
         THEN {<<nodes[i].id, nodes[j].id>> : i \in {k \in DOMAIN nodes : levelOf(k) <= 2},
                                              j \in {k \in DOMAIN nodes : levelOf(k) >= 4}}
         ELSE search.asked

Walk(path) == <<path.src>> \o [k \in DOMAIN path.edges |-> path.edges[k].to]

Walks == {Walk(search.found[k]) : k \in DOMAIN search.found}

(* Whatever a search has found so far is a simple path it was asked for: it *)
(* runs from the source to the target of a pair the search was asked about, *)
(* within max_depth, along edges of the graph.                              *)
FoundArePaths ==
  \A w \in Walks : /\ <<w[1], w[Len(w)]>> \in Asked
                   /\ w \in SimplePaths(w[1], w[Len(w)])

(* A search that ends below its cap has missed no path: the queue discipline *)
(* and the depth test lose none, for every pair it had to search.           *)
NonePassedOver ==
  search.at = "done" /\ Len(search.found) < search.cap =>
    \A pair \in Asked : SimplePaths(pair[1], pair[2]) \subseteq Walks

(* The cap is only tested between iterations: a search returns at most      *)
(* cap - 1 paths and those that complete one more dequeued path, one for    *)
(* each parallel edge to the target.                                        *)
CapOvershoot ==
  LET targets == IF search.kind = "chains" THEN Ids ELSE {pair[2] : pair \in search.asked}
      parallel == {Cardinality({e \in Range(edges) : e.from = x /\ e.to = y}) : x \in Ids, y \in targets}
  IN Len(search.found) <= search.cap + Max({1} \cup parallel) - 1

(* Every search ends, on cyclic graphs too.                                 *)
SearchEnds == search.at = "running" ~> search.at = "idle"

=============================================================================
