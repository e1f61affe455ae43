------------------------------ MODULE MCHandoff -----------------------------
(***************************************************************************)
(* Handoff for TLC: two handoffs meant for the same place.                 *)
(***************************************************************************)
EXTENDS Handoff, TLC

CONSTANTS here, there

MCPlaceOf == [r \in Row |-> here]

Symmetry == Permutations(Process) \cup Permutations(Row)
=============================================================================
