-------------------------- MODULE HandoffRegister ---------------------------
(***************************************************************************)
(* What handoffs promise.  Each is emitted once, then launched by one call *)
(* at most, and by none once it is cancelled.  The call that launched it   *)
(* is told so, unless it dies, and no other call is; and what any call is  *)
(* told of a handoff has happened to it.                                   *)
(***************************************************************************)
CONSTANTS Process, Row, NoRow

VARIABLES
  past,       \* what has happened to each handoff
  launching,  \* the handoff that a call has launched and not yet told of, or NoRow
  answer      \* what each process was told last, and of which handoff

vars == <<past, launching, answer>>

NoAnswer == [row |-> NoRow, status |-> "none"]

Init ==
  /\ past = [r \in Row |-> {}]
  /\ launching = [p \in Process |-> NoRow]
  /\ answer = [p \in Process |-> NoAnswer]

Happens(r, what) == past' = [past EXCEPT ![r] = @ \cup {what}]

Emit(r) ==
  /\ past[r] = {}
  /\ Happens(r, "emitted")
  /\ UNCHANGED <<launching, answer>>

Launch(p, r) ==
  /\ past[r] = {"emitted"}
  /\ launching[p] = NoRow
  /\ Happens(r, "launched")
  /\ launching' = [launching EXCEPT ![p] = r]
  /\ UNCHANGED answer

Cancel(r) ==
  /\ "emitted" \in past[r]
  /\ "cancelled" \notin past[r]
  /\ Happens(r, "cancelled")
  /\ UNCHANGED <<launching, answer>>

Ask(p) ==
  /\ launching[p] = NoRow
  /\ answer' = [answer EXCEPT ![p] = NoAnswer]
  /\ UNCHANGED <<past, launching>>

\* What may be said of a handoff, by what has happened to it.
Happened(r) ==
  (IF "emitted" \in past[r] THEN {"emitted"} ELSE {"rejected"})
    \cup (IF "launched" \in past[r] THEN {"already_launched"} ELSE {})
    \cup (IF "cancelled" \in past[r] THEN {"cancelled", "not_launchable"} ELSE {})

\* What says nothing of any.
Excuses == {"not_found", "ambiguous", "error", "timeout"}

\* A call that launched a handoff is told so, or dies.
Tellable(p, r) ==
  {"crashed"} \cup
    CASE launching[p] # NoRow -> IF r = launching[p] THEN {"launched"} ELSE {}
      [] launching[p] = NoRow /\ r \in Row -> Excuses \cup Happened(r)
      [] OTHER -> Excuses

Tell(p, r, status) ==
  /\ status \in Tellable(p, r)
  /\ answer' = [answer EXCEPT ![p] = [row |-> r, status |-> status]]
  /\ launching' = [launching EXCEPT ![p] = NoRow]
  /\ UNCHANGED past

Next ==
  \/ \E r \in Row : Emit(r) \/ Cancel(r)
  \/ \E p \in Process :
       \/ Ask(p)
       \/ \E r \in Row : Launch(p, r)
       \/ \E r \in Row \cup {NoRow} : \E status \in Tellable(p, r) : Tell(p, r, status)

Spec == Init /\ [][Next]_vars
=============================================================================
