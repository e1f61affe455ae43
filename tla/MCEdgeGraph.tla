---------------------------- MODULE MCEdgeGraph -----------------------------
(***************************************************************************)
(* EdgeGraph and the queries on its graphs for TLC: every ordering edge    *)
(* between three nodes, and one type that orders nothing.                  *)
(***************************************************************************)
EXTENDS DependencyGraph, TLC

E(u, t, v) == [src |-> u, type |-> t, dst |-> v]

MCEdges == {e \in AllEdges : Ordering(e) \/ e.type = "serves"}

\* Empty, or with a self edge, or a cycle of two over both ordering types.
MCInitialLogs ==
  {<<>>} \cup {<<ForgedEdge(E(n, "feeds-into", n))>> : n \in Node}
  \cup {<<ForgedEdge(E(n, "feeds-into", m)), ForgedEdge(E(n, "blocked-by", m))>> :
          n, m \in Node}

Symmetry == Permutations(Process) \cup Permutations(Node)
=============================================================================
