----------------------------- MODULE AtomicLog ------------------------------
(***************************************************************************)
(* FleetLog as a specification of its own: the abstract log that EventLog  *)
(* implements.  A request is a validated batch with the caller's           *)
(* precondition, evaluated by Admits on the log it is written to.          *)
(***************************************************************************)
EXTENDS FleetLog

CONSTANTS Event,          \* validated events, records with a field key
          Request,        \* batches callers submit: sequences of events
          Admits(_, _)    \* Admits(b, l): b's precondition accepts the log l

Next ==
  \E p \in Process :
    \/ \E b \in Request : DistinctKeys(b) /\ Begin(p, b, Admits(b, log))
    \/ Put(p) \/ PutAndDie(p) \/ Release(p)

Spec == LogInit /\ [][Next]_logVars

TypeOK ==
  /\ log \in Seq(Event)
  /\ writer \in Process \cup {NoProcess}
  /\ batch \in Seq(Event)
  /\ todo \subseteq DOMAIN batch
=============================================================================
