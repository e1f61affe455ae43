------------------------------ MODULE EventLog ------------------------------
(***************************************************************************)
(* The lock protocol of core/events.py on the real file: processes open    *)
(* the .lock anchor, retry until the kernel grants the lock or their       *)
(* deadline passes, read the whole log, decide, write their lines and      *)
(* close the anchor.  A process may die between any two of these steps,    *)
(* also in the middle of a line; the kernel then drops its lock.           *)
(*                                                                         *)
(* The file is what its readers make of it: the parseable lines (events)   *)
(* and the state of its last byte (tail).  A torn line that was terminated *)
(* later is skipped by every reader for ever and leaves nothing behind.    *)
(***************************************************************************)
EXTENDS Naturals, Sequences

CONSTANTS Process, NoProcess, Event, Request, Admits(_, _)

ASSUME RequestAssumption == Request \subseteq Seq(Event)
ASSUME LockAssumption == NoProcess \notin Process

VARIABLES
  events,     \* parseable lines of events.jsonl, in file order
  tail,       \* "clean": ends with a newline (or is empty); "torn": a partial
              \* line; "open": a whole JSON line that lacks its newline
  lock,       \* whose descriptor holds the OS lock on the anchor
  pc,         \* where each process is in append / append_batch
  request,    \* the batch it was called with
  existing,   \* what it read under the lock
  unwritten,  \* indices of its batch still to be written
  outcome     \* how its last call ended

vars == <<events, tail, lock, pc, request, existing, unwritten, outcome>>

Keys(l) == {l[i].key : i \in DOMAIN l}
DistinctKeys(b) == \A i, j \in DOMAIN b : b[i].key = b[j].key => i = j

InCriticalSection == {"locked", "deciding", "writing"}
Outcomes == {"none", "written", "deduped", "unmet", "timeout", "rejected"}

Init ==
  /\ events = <<>>
  /\ tail = "clean"
  /\ lock = NoProcess
  /\ pc = [p \in Process |-> "idle"]
  /\ request = [p \in Process |-> <<>>]
  /\ existing = [p \in Process |-> <<>>]
  /\ unwritten = [p \in Process |-> {}]
  /\ outcome = [p \in Process |-> "none"]

\* The call returns (or raises) and its anchor descriptor is closed.
Return(p, result) ==
  /\ pc' = [pc EXCEPT ![p] = "idle"]
  /\ outcome' = [outcome EXCEPT ![p] = result]
  /\ lock' = IF lock = p THEN NoProcess ELSE lock
  /\ UNCHANGED <<request, existing>>

\* append(event) is a batch of one; a batch that repeats a key is a ValueError.
Call(p, b) ==
  /\ pc[p] = "idle"
  /\ request' = [request EXCEPT ![p] = b]
  /\ pc' = [pc EXCEPT ![p] = IF DistinctKeys(b) THEN "waiting" ELSE "idle"]
  /\ outcome' = [outcome EXCEPT ![p] = IF DistinctKeys(b) THEN "none" ELSE "rejected"]
  /\ UNCHANGED <<events, tail, lock, existing, unwritten>>

\* Mutant: the anchor is opened but not locked.
AcquireUnlocked(p) ==
  /\ pc[p] = "waiting"
  /\ lock' = p
  /\ pc' = [pc EXCEPT ![p] = "locked"]
  /\ UNCHANGED <<events, tail, request, existing, unwritten, outcome>>

\* acquire_lock: the kernel grants the exclusive lock only while nobody has it.
Acquire(p) ==
  /\ pc[p] = "waiting"
  /\ lock = NoProcess
  /\ lock' = p
  /\ pc' = [pc EXCEPT ![p] = "locked"]
  /\ UNCHANGED <<events, tail, request, existing, unwritten, outcome>>

\* Mutant: acquire_lock retries without a deadline.
TimeoutNever(p) == FALSE /\ UNCHANGED vars

\* LockTimeoutError: still contended at the deadline.
Timeout(p) ==
  /\ pc[p] = "waiting"
  /\ lock # NoProcess
  /\ Return(p, "timeout")
  /\ UNCHANGED <<events, tail, unwritten>>

\* existing = read_all(log_path), under the lock.
ReadExisting(p) ==
  /\ pc[p] = "locked"
  /\ existing' = [existing EXCEPT ![p] = events]
  /\ pc' = [pc EXCEPT ![p] = "deciding"]
  /\ UNCHANGED <<events, tail, lock, request, unwritten, outcome>>

\* Mutants: no dedupe; list indices that start at zero.
ToWriteAll(p) == DOMAIN request[p]
ToWriteFromZero(p) ==
  {i - 1 : i \in {j \in DOMAIN request[p] : request[p][j].key \notin Keys(existing[p])}}

\* to_write: the entries whose idempotency key is not recorded yet.
ToWrite(p) ==
  {i \in DOMAIN request[p] : request[p][i].key \notin Keys(existing[p])}

\* Mutant: the precondition is not run.
AdmittedAlways(p) == TRUE

\* precondition(existing): evaluated on what was read under the lock.
Admitted(p) == Admits(request[p], existing[p])

\* The dedupe comes first, and only then the precondition.
Decide(p) ==
  /\ pc[p] = "deciding"
  /\ \/ /\ ToWrite(p) = {}
        /\ Return(p, "deduped")
        /\ UNCHANGED unwritten
     \/ /\ ToWrite(p) # {}
        /\ ~Admitted(p)
        /\ Return(p, "unmet")
        /\ UNCHANGED unwritten
     \/ /\ ToWrite(p) # {}
        /\ Admitted(p)
        /\ unwritten' = [unwritten EXCEPT ![p] = ToWrite(p)]
        /\ pc' = [pc EXCEPT ![p] = "writing"]
        /\ UNCHANGED <<lock, request, existing, outcome>>
  /\ UNCHANGED <<events, tail>>
-----------------------------------------------------------------------------
\* Mutant: the new line is appended as it is.
NoLeadingNewline(t) == FALSE

\* _append_lines writes a newline first iff the file does not end with one.
NeedsLeadingNewline(t) == t # "clean"

\* What readers find once text is written after a tail t: without the newline
\* it is glued to an unterminated line, and the result no longer parses.
Glued(t) == t # "clean" /\ ~NeedsLeadingNewline(t)
Kept(t) == IF Glued(t) /\ t = "open" THEN SubSeq(events, 1, Len(events) - 1)
                                     ELSE events
WithLine(t, e) == IF Glued(t) THEN Kept(t) ELSE Append(events, e)

\* The next line is written whole.
WriteLine(p) ==
  /\ pc[p] = "writing"
  /\ \E i \in unwritten[p] :
       /\ \A j \in unwritten[p] : i <= j
       /\ events' = WithLine(tail, request[p][i])
       /\ unwritten' = [unwritten EXCEPT ![p] = @ \ {i}]
  /\ tail' = "clean"
  /\ UNCHANGED <<lock, pc, request, existing, outcome>>

\* All lines are written and fsynced; the lock is released.
Finish(p) ==
  /\ pc[p] = "writing"
  /\ unwritten[p] = {}
  /\ Return(p, "written")
  /\ UNCHANGED <<events, tail, unwritten>>

\* The process dies; the kernel closes its anchor and so drops its lock.
Die(p) ==
  /\ pc' = [pc EXCEPT ![p] = "idle"]
  /\ outcome' = [outcome EXCEPT ![p] = "none"]
  /\ lock' = IF lock = p THEN NoProcess ELSE lock
  /\ unwritten' = [unwritten EXCEPT ![p] = {}]
  /\ UNCHANGED <<request, existing>>

\* It dies between two writes.
Crash(p) ==
  /\ pc[p] # "idle"
  /\ Die(p)
  /\ UNCHANGED <<events, tail>>

\* It dies inside the write of a line: only the leading newline got out, or a
\* part of the line, or all of it but the newline.
CrashInWrite(p) ==
  /\ pc[p] = "writing"
  /\ \E i \in unwritten[p] :
       /\ \A j \in unwritten[p] : i <= j
       /\ \/ tail' = "clean" /\ NeedsLeadingNewline(tail) /\ UNCHANGED events
          \/ tail' = "torn" /\ events' = Kept(tail)
          \/ /\ tail' = IF Glued(tail) THEN "torn" ELSE "open"
             /\ events' = WithLine(tail, request[p][i])
  /\ Die(p)
-----------------------------------------------------------------------------
Next ==
  \E p \in Process :
    \/ \E b \in Request : Call(p, b)
    \/ Acquire(p) \/ Timeout(p) \/ ReadExisting(p) \/ Decide(p)
    \/ WriteLine(p) \/ Finish(p) \/ Crash(p) \/ CrashInWrite(p)

\* A live process keeps taking its steps: acquire_lock's loop ends at its
\* deadline, and nothing else in append waits.
Fairness ==
  \A p \in Process :
    WF_vars(Acquire(p) \/ Timeout(p) \/ ReadExisting(p) \/ Decide(p)
            \/ WriteLine(p) \/ Finish(p))

Spec == Init /\ [][Next]_vars
FairSpec == Spec /\ Fairness
-----------------------------------------------------------------------------
TypeOK ==
  /\ events \in Seq(Event)
  /\ tail \in {"clean", "torn", "open"}
  /\ lock \in Process \cup {NoProcess}
  /\ pc \in [Process -> {"idle", "waiting"} \cup InCriticalSection]
  /\ request \in [Process -> Seq(Event)]
  /\ existing \in [Process -> Seq(Event)]
  /\ unwritten \in [Process -> SUBSET Nat]
  /\ \A p \in Process : unwritten[p] \subseteq DOMAIN request[p]
  /\ outcome \in [Process -> Outcomes]

\* The lock holder is exactly the one process inside the critical section: two
\* processes never are, and a dead or finished one never keeps the lock, so
\* there is no stale lock to reclaim (core/events.py, "Lock protocol").
HolderIsInside ==
  \A p \in Process : lock = p <=> pc[p] \in InCriticalSection

\* An idempotency key is recorded at most once, however calls race, retry after
\* a timeout or die half-way (the dedupe of append and append_batch).
KeysUnique ==
  \A i, j \in DOMAIN events : events[i].key = events[j].key => i = j

\* Once a call has returned "written" or "deduped" its whole batch is recorded
\* and stays so, whatever later writers tear (_append_lines' leading newline).
AcknowledgedIsDurable ==
  \A p \in Process :
    outcome[p] \in {"written", "deduped"}
      => \A i \in DOMAIN request[p] : request[p][i].key \in Keys(events)

\* What was readable stays readable, in its place: later writes only add to it.
HistoryIsImmutable ==
  [][ /\ Len(events) <= Len(events')
      /\ events = SubSeq(events', 1, Len(events)) ]_vars

\* Every call ends, with the batch recorded or with an error, unless its own
\* process dies; a process that dies holding the lock blocks nobody.
EveryCallReturns == \A p \in Process : pc[p] # "idle" ~> pc[p] = "idle"

\* The protocol implements the atomic log: a batch is decided on the very log
\* it is appended to, and nothing comes between its entries.
Writing == lock # NoProcess /\ pc[lock] = "writing"
Writer      == IF Writing THEN lock ELSE NoProcess
BatchOnDisk == IF Writing THEN request[lock] ELSE <<>>
TodoOnDisk  == IF Writing THEN unwritten[lock] ELSE {}

Abstract == INSTANCE AtomicLog WITH
  log <- events, writer <- Writer, batch <- BatchOnDisk, todo <- TodoOnDisk

ImplementsAtomicLog == Abstract!Spec
=============================================================================
