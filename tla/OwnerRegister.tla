--------------------------- MODULE OwnerRegister ----------------------------
(***************************************************************************)
(* What project ownership promises: one owner at a time, seen by every     *)
(* reader at every moment.  A free project may be claimed, an owner may be *)
(* stood down by a call that says so, and an owner is replaced in a single *)
(* step, only by somebody with grounds against that very owner: it was     *)
(* notified, or its session has ended.                                     *)
(***************************************************************************)
CONSTANTS Node, NoNode

VARIABLES owner,     \* the owner every reader sees, or NoNode
          grounds,   \* <<n, m>>: a claim by n under way may displace m
          leaving    \* nodes a stand-down call is under way for

vars == <<owner, grounds, leaving>>

Init == owner \in Node \cup {NoNode} /\ grounds = {} /\ leaving = {}

CallsComeAndGo ==
  /\ grounds' \subseteq Node \X Node
  /\ leaving' \subseteq Node
  /\ UNCHANGED owner

Claim ==
  /\ owner = NoNode
  /\ owner' \in Node
  /\ UNCHANGED <<grounds, leaving>>

TakeOver ==
  /\ owner # NoNode
  /\ owner' \in Node
  /\ <<owner', owner>> \in grounds
  /\ UNCHANGED <<grounds, leaving>>

StandDown ==
  /\ owner \in leaving
  /\ owner' = NoNode
  /\ UNCHANGED <<grounds, leaving>>

Next == CallsComeAndGo \/ Claim \/ TakeOver \/ StandDown

Spec == Init /\ [][Next]_vars
=============================================================================
