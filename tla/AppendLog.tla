----------------------------- MODULE AppendLog ------------------------------
(***************************************************************************)
(* The event log for callers of append, which write one event at a time.   *)
(* The decision under the lock and the write of the one line show readers  *)
(* a single change, so the call is a single step: dedupe on the            *)
(* idempotency key, then the precondition, then the new line.              *)
(***************************************************************************)
EXTENDS Naturals, Sequences

VARIABLE log    \* what read_all returns: the parseable lines, in order

\* The idempotency keys recorded in a log.
Keys(l) == {l[i].key : i \in DOMAIN l}

\* append returns None: the event is recorded already.
Recorded(e) == e.key \in Keys(log) /\ UNCHANGED log

\* append raises PreconditionUnmet.
Refused(e, ok) == e.key \notin Keys(log) /\ ~ok /\ UNCHANGED log

\* append returns the event it wrote.
Record(e, ok) == e.key \notin Keys(log) /\ ok /\ log' = Append(log, e)

\* No key is recorded twice: a retried or raced call never counts double.
KeysUnique == \A i, j \in DOMAIN log : log[i].key = log[j].key => i = j
=============================================================================
