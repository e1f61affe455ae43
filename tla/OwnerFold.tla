----------------------------- MODULE OwnerFold ------------------------------
(***************************************************************************)
(* fold_owner as the loop that it is, one event after the other, against   *)
(* FoldOwner, which says what its answer means: on every log that          *)
(* Ownership writes, and on those logs with a line added by hand.          *)
(***************************************************************************)
EXTENDS Ownership

Unowned ==
  [owner |-> NoNode, declaring |-> 0, anchor |-> 0, stoodDown |-> FALSE,
   anchorNode |-> NoNode, hasEvents |-> FALSE]

OwnedBy(n, i) ==
  [owner |-> n, declaring |-> i, anchor |-> i, stoodDown |-> FALSE,
   anchorNode |-> n, hasEvents |-> TRUE]

AnchoredAt(state, n, i) ==
  [state EXCEPT !.anchor = i, !.stoodDown = TRUE, !.anchorNode = n, !.hasEvents = TRUE]

\* Mutant: a stand-down of the owner's counts, whichever claim it names.
FoldEventByNode(state, l, i) ==
  IF l[i].type = "ownership_declared" THEN OwnedBy(l[i].node, i)
  ELSE IF l[i].type # "ownership_stood_down" \/ Orphaned(l, i) THEN state
  ELSE AnchoredAt(IF l[i].node = state.owner
                    THEN [state EXCEPT !.owner = NoNode, !.declaring = 0] ELSE state,
                  l[i].node, i)

\* One turn of the loop.
FoldEvent(state, l, i) ==
  IF l[i].type = "ownership_declared" THEN OwnedBy(l[i].node, i)
  ELSE IF l[i].type # "ownership_stood_down" \/ Orphaned(l, i) THEN state
  ELSE AnchoredAt(IF l[i].node = state.owner /\ l[i].from = state.declaring
                    THEN [state EXCEPT !.owner = NoNode, !.declaring = 0] ELSE state,
                  l[i].node, i)

OwnerByLoop(l) ==
  LET after[i \in 0 .. Len(l)] == IF i = 0 THEN Unowned ELSE FoldEvent(after[i - 1], l, i)
  IN  after[Len(l)]

\* Lines nobody decided on: a claim by whomever, a stand-down of whomever from
\* whatever event, and again any line that is there already.
ForgedLines(l) ==
  {l[i] : i \in DOMAIN l}
    \cup {Declared(n, 0, NoNode, "unowned") : n \in Node}
    \cup {StoodDown(n, i, by, n, 0) : n \in Node, i \in DOMAIN l, by \in {"on_behalf", "claimant"}}
-----------------------------------------------------------------------------
\* fold_owner's docstring: "a forged or legacy sequence still has one answer".
\* What the loop arrives at, event after event, is the newest claim unless a later
\* stand-down that counts names just that claim, with the newest event that counts
\* as its anchor: torn takeovers, forged lines and doubled ones included.  (Any log
\* there is, is also there once all that were writing it have died.)
LoopFindsTheOwner ==
  (\A p \in Process : pc[p] = "idle") =>
  \A l \in {log} \cup {Append(log, e) : e \in ForgedLines(log)} :
    OwnerByLoop(l) = FoldOwner(l)
=============================================================================
