----------------------------- MODULE MCOwnership ----------------------------
(***************************************************************************)
(* Ownership for TLC: three sessions, of which the first owns the project, *)
(* or would have been its owner before there were ownership events.        *)
(***************************************************************************)
EXTENDS OwnerFold, TLC

R(n, e) == Registered(n, e)
Pair == CHOOSE x \in Node \X Node : x[1] # x[2]
First == Pair[1]
Second == Pair[2]

MCInitialLogs ==
  {<<R(First, TRUE), Declared(First, 0, NoNode, "unowned"), R(Second, TRUE)>>,
   <<R(Second, FALSE), R(First, TRUE)>>}

\* Claims by those who are known to be pm, on one ground: any other session was
\* notified, or the first one has ended.
MCClaims ==
  {c \in AllClaims :
     /\ c.session = "pm" /\ c.attested # c.node
     /\ \/ c.ended = {} /\ c.attested # NoNode
        \/ c.ended = {First} /\ c.attested = NoNode /\ c.node # First}
=============================================================================
