-------------------------- MODULE DependencyGraph ---------------------------
(***************************************************************************)
(* The queries of a DependencyGraph (core/edges.py), as the code computes  *)
(* them: searches with a stack, a depth-first search with colours, and     *)
(* the reduction of parallel edges.  The properties compare each with what *)
(* it is to return, on the graphs that EdgeGraph's behaviours produce.     *)
(***************************************************************************)
EXTENDS EdgeGraph

\* A graph is a set of edges.
Nodes(es) == {e.src : e \in es} \cup {e.dst : e \in es}

PrecedencePairs(es) == {PrecedencePair(e) : e \in {f \in es : Ordering(f)}}

\* The adjacency lists of a relation, in whatever order it was recorded.
After(pairs, n) == {m \in Node : <<n, m>> \in pairs}
Adjacencies(pairs) ==
  {adj \in [Node -> UNION {SetToSeqs(After(pairs, n)) : n \in Node}] :
     \A n \in Node : adj[n] \in SetToSeqs(After(pairs, n))}

\* A search has seen some nodes and has others on its stack.
Searches == [seen : SUBSET Node, stack : Seq(Node)]

SearchStep(adj, s) ==
  LET n == Last(s.stack)
  IN  IF n \in s.seen THEN [s EXCEPT !.stack = Front(@)]
      ELSE [seen |-> s.seen \cup {n}, stack |-> Front(s.stack) \o adj[n]]

Search(adj, seen, stack) ==
  LET search[s \in Searches] == IF s.stack = <<>> THEN s ELSE search[SearchStep(adj, s)]
  IN  search[[seen |-> seen, stack |-> stack]].seen

\* Mutant: the start counts as seen.
StackSearchSeenStart(adj, start) == Search(adj, {start}, adj[start])

\* _reachable_from.
StackSearch(adj, start) == Search(adj, {}, adj[start])

Reversed(pairs) == {<<x[2], x[1]>> : x \in pairs}
TransitiveBlockers(reverse, n) == StackSearch(reverse, n)

ReadySet(es) == Nodes(es) \ {x[2] : x \in PrecedencePairs(es)}

\* The lists without one pair.
Without(adj, x) ==
  LET i == CHOOSE j \in DOMAIN adj[x[1]] : adj[x[1]][j] = x[2]
  IN  [adj EXCEPT ![x[1]] = RemoveAt(@, i)]

\* Mutant: parallel edges of the two types imply one another.
TransitiveReductionByEdge(es, adj) ==
  {e \in es :
     Ordering(e) =>
       LET x == PrecedencePair(e)
           others == IF x \in PrecedencePairs(es \ {e}) THEN adj ELSE Without(adj, x)
       IN  x[2] \notin StackSearch(others, x[1])}

\* An ordering edge goes if its pair is implied by the other pairs.
TransitiveReduction(es, adj) ==
  {e \in es :
     Ordering(e) =>
       LET x == PrecedencePair(e) IN x[2] \notin StackSearch(Without(adj, x), x[1])}

\* Neighbours, whatever the type and direction of the edge.
Undirected(es) == UNION {{<<e.src, e.dst>>, <<e.dst, e.src>>} : e \in es}
RelatedCluster(adj, n) == Search(adj, {n}, adj[n])
-----------------------------------------------------------------------------
\* detect_cycles.  A node is white, gray while it is on the path, then black;
\* rest holds what the iterators of the nodes have still to yield, roots the
\* nodes to start from.
Dfs ==
  {s \in [colour : [Node -> {"white", "gray", "black"}], path : Seq(Node),
          rest : [Node -> Seq(Node)], roots : Seq(Node), cycles : SUBSET Seq(Node)] :
     \A n \in Node : s.colour[n] = "gray" => n \in Range(s.path)}

Enter(s, n) == [s EXCEPT !.colour[n] = "gray", !.path = Append(@, n)]

Leave(s) == [s EXCEPT !.colour[Last(s.path)] = "black", !.path = Front(@)]

\* A gray node closes a cycle: the path from there on.
Look(s, n) ==
  IF s.colour[n] = "white" THEN Enter(s, n)
  ELSE IF s.colour[n] = "gray"
    THEN LET i == CHOOSE j \in DOMAIN s.path : s.path[j] = n
         IN  [s EXCEPT !.cycles = @ \cup {SubSeq(s.path, i, Len(s.path))}]
  ELSE s

DfsStep(s) ==
  IF s.path = <<>>
    THEN LET n == Head(s.roots)
             t == [s EXCEPT !.roots = Tail(@)]
         IN  IF s.colour[n] = "white" THEN Enter(t, n) ELSE t
    ELSE LET n == Last(s.path)
         IN  IF s.rest[n] = <<>> THEN Leave(s)
             ELSE Look([s EXCEPT !.rest[n] = Tail(@)], Head(s.rest[n]))

DetectCycles(adj, roots) ==
  LET start == [colour |-> [n \in Node |-> "white"], path |-> <<>>,
                rest |-> adj, roots |-> roots, cycles |-> {}]
      dfs[s \in Dfs] == IF s.path = <<>> /\ s.roots = <<>> THEN s ELSE dfs[DfsStep(s)]
  IN  dfs[start].cycles
-----------------------------------------------------------------------------
\* The properties depend on the log alone.  Every log is also reached by calls
\* of a single process that all returned after an append (a call that died or
\* timed out left no more than one that was not made): they are evaluated there.
AtRest ==
  \E p \in Process :
    /\ pc[p] = "idle" /\ result[p].status \in {"none", "added", "cycle_flagged"}
    /\ \A q \in Process \ {p} : pc[q] = "idle" /\ result[q] = NoResult

\* The stack search of the write guard and the read guard returns the nodes
\* that can be reached and no others, the start only if it is on a cycle, on
\* stored graphs of any shape, forged cycles included.
SearchIsExact ==
  AtRest =>
  LET pairs == PrecedencePairs(EdgesIn(log)) IN
  \A adj \in Adjacencies(pairs) : \A n \in Node :
    StackSearch(adj, n) = ReachableFrom(pairs, n)

\* A circle: each node before the next, the last before the first, none twice.
IsCircle(es, c) ==
  /\ \A i \in DOMAIN c : ComesBefore(es, c[i], c[IF i = Len(c) THEN 1 ELSE i + 1])
  /\ \A i, j \in DOMAIN c : c[i] = c[j] => i = j

\* detect_cycles reports something exactly if nodes wait for one another in a
\* circle, also on graphs that resolve_graph did not build, and whatever it reports
\* is such a circle: it starts at the target of the back edge and ends at its source.
\* (Its docstring has it end at the target, where it started: no node is given
\* twice.)
CyclesAreFound(es, adj, roots) ==
  LET cycles == DetectCycles(adj, roots) IN
  /\ cycles = {} <=> NoCircularWait(es)
  /\ \A c \in cycles : IsCircle(es, c)

\* The reduced graph orders the same nodes, and none of its edges is implied by
\* the others, except for parallel edges of the two types, which stay together.
OrderIsKept(es, adj) ==
  LET kept == TransitiveReduction(es, adj) IN
  /\ {e \in es : ~Ordering(e)} \subseteq kept
  /\ \A n \in Node :
       ReachableFrom(PrecedencePairs(kept), n) = ReachableFrom(PrecedencePairs(es), n)
  /\ \A x \in PrecedencePairs(kept) :
       x[2] \notin ReachableFrom(PrecedencePairs(kept) \ {x}, x[1])

\* Both, in whatever order edges and nodes are met.
OrderIsReportedExactly ==
  AtRest =>
  LET stored == EdgesIn(log)
      resolved == Resolved(log).edges
  IN  /\ \A adj \in Adjacencies(PrecedencePairs(stored)) :
           \A roots \in SetToSeqs(Nodes(stored)) : CyclesAreFound(stored, adj, roots)
      /\ \A adj \in Adjacencies(PrecedencePairs(resolved)) : OrderIsKept(resolved, adj)

\* What cannot start now waits for something that can: every node outside the
\* ready set has a transitive blocker in it, and a ready node has no blocker.
SomethingReadyUnblocks ==
  AtRest =>
  LET es == Resolved(log).edges IN
  \A reverse \in Adjacencies(Reversed(PrecedencePairs(es))) : \A n \in Nodes(es) :
    LET blockers == TransitiveBlockers(reverse, n) IN
    IF n \in ReadySet(es) THEN blockers = {}
    ELSE blockers \cap ReadySet(es) # {}

\* Two nodes are in one cluster exactly if every set that separates them cuts
\* an edge.
ClustersAreComponents ==
  AtRest =>
  LET es == Resolved(log).edges IN
  \A adj \in Adjacencies(Undirected(es)) : \A n, m \in Node :
    m \in RelatedCluster(adj, n) <=>
      \A S \in SUBSET Node :
        n \in S /\ m \notin S => \E e \in es : (e.src \in S) # (e.dst \in S)

\* What is found by following edges is exactly what they lead to: in the search
\* of the guards, among the blockers of a node, and in its cluster.
TraversalsAreExact ==
  SearchIsExact /\ SomethingReadyUnblocks /\ ClustersAreComponents
=============================================================================
