------------------------------ MODULE FleetLog ------------------------------
(***************************************************************************)
(* What core/events.py promises to its callers: one append-only event log  *)
(* per project, written by any number of short-lived CLI processes.  A     *)
(* call of append or append_batch is decided at one instant against the    *)
(* whole log (dedupe on the idempotency key, then the precondition) and    *)
(* its new entries follow one by one, in order, with nobody else's between *)
(* them.  A crash may cut a batch short.  read_all takes no lock, so a     *)
(* reader may see the log between two entries of one batch.                *)
(*                                                                         *)
(* Ownership EXTENDS this module with its own batches and preconditions;   *)
(* module EventLog shows that the lock protocol on the real file           *)
(* implements it.  Callers of append alone need no more than AppendLog.    *)
(***************************************************************************)
EXTENDS AppendLog

CONSTANTS Process,    \* the processes that call append / append_batch
          NoProcess   \* nobody holds the log lock

ASSUME NoProcessAssumption == NoProcess \notin Process

VARIABLES writer,     \* the process whose batch is being written
          batch,      \* the batch being written
          todo        \* indices of batch that are still to be written

logVars == <<log, writer, batch, todo>>

\* The entries of a batch that a log does not record yet.
Fresh(b, l) == {i \in DOMAIN b : b[i].key \notin Keys(l)}

\* append_batch rejects a batch that repeats a key before it takes the lock.
DistinctKeys(b) == \A i, j \in DOMAIN b : b[i].key = b[j].key => i = j

LogInit ==
  /\ log = <<>>
  /\ writer = NoProcess
  /\ batch = <<>>
  /\ todo = {}

LockFree == writer = NoProcess

\* Every entry is already recorded: a no-op, the precondition is not run.
Deduped(b) == LockFree /\ Fresh(b, log) = {}

\* PreconditionUnmet: something is new, but the caller's check says no.
Unmet(b, ok) == LockFree /\ Fresh(b, log) # {} /\ ~ok

\* The decision to write: dedupe and precondition hold of the log as it is.
Begin(p, b, ok) ==
  /\ LockFree
  /\ Fresh(b, log) # {}
  /\ ok
  /\ writer' = p
  /\ batch' = b
  /\ todo' = Fresh(b, log)
  /\ UNCHANGED log

\* i is the next entry of the batch to write.
IsNext(i) == i \in todo /\ \A j \in todo : i <= j

\* The next line of the batch reaches the file.
Put(p) ==
  /\ writer = p
  /\ \E i \in todo :
       /\ IsNext(i)
       /\ log' = Append(log, batch[i])
       /\ todo' = todo \ {i}
  /\ UNCHANGED <<writer, batch>>

\* The lock is given up: after the last line, or early by a crash.
Release(p) ==
  /\ writer = p
  /\ writer' = NoProcess
  /\ batch' = <<>>
  /\ todo' = {}
  /\ UNCHANGED log

End(p) == todo = {} /\ Release(p)

\* The writer dies after the bytes of a line, before anything else.
PutAndDie(p) ==
  /\ writer = p
  /\ \E i \in todo : IsNext(i) /\ log' = Append(log, batch[i])
  /\ writer' = NoProcess
  /\ batch' = <<>>
  /\ todo' = {}
=============================================================================
