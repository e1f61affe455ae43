---------------------------- MODULE MCDoneLadder ----------------------------
(***************************************************************************)
(* DoneLadder for TLC.  Requests carry just what their rung asks for, one  *)
(* kind of evidence too little, or a ceiling that is too low.              *)
(***************************************************************************)
EXTENDS DoneLadder, TLC

Ask(n, k, c, evidence, human) ==
  [node |-> n, target |-> k, ceiling |-> c, evidence |-> evidence, human |-> human]

MCRequests ==
  UNION { { Ask(n, 1, 4, {"merge"}, FALSE), Ask(n, 1, 4, {"ci"}, TRUE),
            Ask(n, 2, 4, {"deploy", "ci"}, FALSE), Ask(n, 2, 4, {"deploy"}, TRUE),
            Ask(n, 2, 1, Proof, TRUE),
            Ask(n, 3, 4, {}, TRUE), Ask(n, 3, 4, Proof, FALSE) } : n \in Node }

MCEmptyLog == {<<>>}

Symmetry == Permutations(Process) \cup Permutations(Node)
=============================================================================
