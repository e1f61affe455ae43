--------------------------- MODULE EventLogProofs ---------------------------
(***************************************************************************)
(* Theorems of EventLog, for any processes, events, batches and            *)
(* preconditions.  The invariants of the runs are not inductive: a writer  *)
(* relies on what it read under the lock being still current, so Inv adds  *)
(* what each process knows in each part of the critical section.           *)
(***************************************************************************)
EXTENDS EventLog, TLAPS

\* What a process inside the lock knows: its batch repeats no key; what it read
\* is the log as it is; the entries still to be written are not recorded yet,
\* and all others of its batch are.
Known(p) ==
  /\ pc[p] # "idle" => DistinctKeys(request[p]) /\ request[p] \in Request
  /\ pc[p] # "writing" => unwritten[p] = {}
  /\ pc[p] = "deciding" => existing[p] = events
  /\ pc[p] = "writing" => \A i \in DOMAIN request[p] :
       i \in unwritten[p] <=> request[p][i].key \notin Keys(events)

Inv ==
  /\ TypeOK
  /\ HolderIsInside
  /\ KeysUnique
  /\ AcknowledgedIsDurable
  /\ \A p \in Process : Known(p)

\* Once a line is appended its key is recorded, and nothing else changes.
LEMMA AppendedKeys ==
  ASSUME NEW l \in Seq(Event), NEW e \in Event
  PROVE  /\ Append(l, e) \in Seq(Event)
         /\ Keys(Append(l, e)) = Keys(l) \cup {e.key}
<1>1. /\ Append(l, e) \in Seq(Event)
      /\ Len(Append(l, e)) = Len(l) + 1
      /\ DOMAIN Append(l, e) = 1 .. Len(l) + 1
      /\ DOMAIN l = 1 .. Len(l)
      /\ \A i \in 1 .. Len(l) : Append(l, e)[i] = l[i]
      /\ Append(l, e)[Len(l) + 1] = e
  OBVIOUS
<1>2. Len(l) \in Nat
  OBVIOUS
<1>3. Keys(l) \cup {e.key} \subseteq Keys(Append(l, e))
  BY <1>1, <1>2 DEF Keys
<1>4. Keys(Append(l, e)) \subseteq Keys(l) \cup {e.key}
  BY <1>1, <1>2 DEF Keys
<1> QED BY <1>1, <1>3, <1>4

\* A new key keeps the keys unique.
LEMMA AppendedUnique ==
  ASSUME NEW l \in Seq(Event), NEW e \in Event, e.key \notin Keys(l),
         \A i, j \in DOMAIN l : l[i].key = l[j].key => i = j
  PROVE  \A i, j \in DOMAIN Append(l, e) :
           Append(l, e)[i].key = Append(l, e)[j].key => i = j
<1>1. /\ Len(l) \in Nat
      /\ DOMAIN Append(l, e) = 1 .. Len(l) + 1
      /\ DOMAIN l = 1 .. Len(l)
      /\ \A i \in 1 .. Len(l) : Append(l, e)[i] = l[i]
      /\ Append(l, e)[Len(l) + 1] = e
  OBVIOUS
<1>2. \A i \in 1 .. Len(l) : l[i].key # e.key
  BY <1>1 DEF Keys
<1> QED BY <1>1, <1>2

\* The initial state satisfies the invariant.
LEMMA InitInv == Init => Inv
<1> SUFFICES ASSUME Init PROVE Inv
  OBVIOUS
<1>1. TypeOK
  <2>1. events \in Seq(Event) /\ <<>> \in Seq(Event)
    BY DEF Init
  <2>2. \A p \in Process : unwritten[p] = {} /\ request[p] = <<>>
    BY DEF Init
  <2>3. unwritten \in [Process -> SUBSET Nat]
    BY DEF Init
  <2> QED BY <2>1, <2>2, <2>3 DEF Init, TypeOK, InCriticalSection, Outcomes
<1>2. HolderIsInside
  BY LockAssumption DEF Init, HolderIsInside, InCriticalSection
<1>3. KeysUnique
  BY DEF Init, KeysUnique
<1>4. AcknowledgedIsDurable /\ \A p \in Process : Known(p)
  BY DEF Init, AcknowledgedIsDurable, Known
<1> QED BY <1>1, <1>2, <1>3, <1>4 DEF Inv

\* The frame of an action that leaves the log alone: what must still hold of
\* the one process it is about.
LEMMA StepOfOne ==
  ASSUME Inv, UNCHANGED events, NEW p \in Process,
         request' \in [Process -> Seq(Event)], existing' \in [Process -> Seq(Event)],
         pc' \in [Process -> {"idle", "waiting"} \cup InCriticalSection],
         outcome' \in [Process -> Outcomes],
         unwritten' \in [Process -> SUBSET Nat],
         unwritten'[p] \subseteq DOMAIN request'[p],
         tail' \in {"clean", "torn", "open"},
         \A q \in Process \ {p} :
           /\ pc'[q] = pc[q] /\ request'[q] = request[q] /\ existing'[q] = existing[q]
           /\ unwritten'[q] = unwritten[q] /\ outcome'[q] = outcome[q],
         \/ pc'[p] \in InCriticalSection /\ lock' = p /\ lock \in {p, NoProcess}
         \/ pc'[p] \notin InCriticalSection /\ lock' = IF lock = p THEN NoProcess ELSE lock,
         Known(p)',
         outcome'[p] \in {"written", "deduped"}
           => \A i \in DOMAIN request'[p] : request'[p][i].key \in Keys(events)
  PROVE  Inv'
<1> USE DEF Inv
<1>1. TypeOK'
  BY LockAssumption DEF TypeOK
<1>2. HolderIsInside'
  BY LockAssumption DEF HolderIsInside, TypeOK, InCriticalSection
<1>3. KeysUnique'
  BY DEF KeysUnique
<1>4. AcknowledgedIsDurable'
  BY DEF AcknowledgedIsDurable
<1>5. ASSUME NEW q \in Process PROVE Known(q)'
  <2>1. CASE q = p
    BY <2>1
  <2>2. CASE q # p
    <3>1. /\ pc'[q] = pc[q] /\ request'[q] = request[q] /\ existing'[q] = existing[q]
          /\ unwritten'[q] = unwritten[q] /\ events' = events
      BY <2>2
    <3>2. Known(q)
      OBVIOUS
    <3> QED BY <3>1, <3>2 DEF Known, DistinctKeys, Keys
  <2> QED BY <2>1, <2>2
<1> QED BY <1>1, <1>2, <1>3, <1>4, <1>5
-----------------------------------------------------------------------------
(***************************************************************************)
(* Every action preserves the invariant: first those that leave the log    *)
(* alone, each an instance of StepOfOne.                                   *)
(***************************************************************************)
LEMMA CallInv ==
  ASSUME Inv, NEW p \in Process, NEW b \in Request, Call(p, b)
  PROVE  Inv'
<1>1. b \in Seq(Event)
  BY RequestAssumption
<1>2. lock # p /\ unwritten[p] = {}
  BY DEF Inv, Call, HolderIsInside, InCriticalSection, Known
<1>3. Known(p)'
  BY <1>2 DEF Inv, Call, Known, TypeOK
<1> QED
  BY <1>1, <1>2, <1>3, StepOfOne DEF Inv, Call, TypeOK, InCriticalSection, Outcomes

LEMMA AcquireInv ==
  ASSUME Inv, NEW p \in Process, Acquire(p)
  PROVE  Inv'
<1>1. Known(p)'
  BY DEF Inv, Acquire, Known, TypeOK, DistinctKeys
<1> QED
  BY <1>1, StepOfOne DEF Inv, Acquire, TypeOK, InCriticalSection, AcknowledgedIsDurable

LEMMA TimeoutInv ==
  ASSUME Inv, NEW p \in Process, Timeout(p)
  PROVE  Inv'
<1>1. Known(p)'
  BY DEF Inv, Timeout, Return, Known, TypeOK
<1> QED
  BY <1>1, StepOfOne DEF Inv, Timeout, Return, TypeOK, InCriticalSection, Outcomes

LEMMA ReadExistingInv ==
  ASSUME Inv, NEW p \in Process, ReadExisting(p)
  PROVE  Inv'
<1>1. lock = p
  BY DEF Inv, ReadExisting, HolderIsInside, InCriticalSection
<1>2. Known(p)'
  BY DEF Inv, ReadExisting, Known, TypeOK, DistinctKeys
<1> QED
  BY <1>1, <1>2, StepOfOne
  DEF Inv, ReadExisting, TypeOK, InCriticalSection, AcknowledgedIsDurable

LEMMA CrashInv ==
  ASSUME Inv, NEW p \in Process, Crash(p)
  PROVE  Inv'
<1>1. Known(p)'
  BY DEF Inv, Crash, Die, Known, TypeOK
<1> QED
  BY <1>1, StepOfOne DEF Inv, Crash, Die, TypeOK, InCriticalSection, Outcomes

LEMMA FinishInv ==
  ASSUME Inv, NEW p \in Process, Finish(p)
  PROVE  Inv'
<1>1. Known(p)'
  BY DEF Inv, Finish, Return, Known, TypeOK
<1>2. \A i \in DOMAIN request'[p] : request'[p][i].key \in Keys(events)
  BY DEF Inv, Finish, Return, Known
<1> QED
  BY <1>1, <1>2, StepOfOne DEF Inv, Finish, Return, TypeOK, InCriticalSection, Outcomes

LEMMA DecideInv ==
  ASSUME Inv, NEW p \in Process, Decide(p)
  PROVE  Inv'
<1>1. pc[p] = "deciding" /\ lock = p /\ existing[p] = events /\ UNCHANGED <<events, tail>>
  BY DEF Inv, Decide, HolderIsInside, InCriticalSection, Known
<1>2. ToWrite(p) = {i \in DOMAIN request[p] : request[p][i].key \notin Keys(events)}
  BY <1>1 DEF ToWrite
<1>3. ToWrite(p) \in SUBSET Nat /\ ToWrite(p) \subseteq DOMAIN request[p]
  BY <1>2 DEF Inv, TypeOK
<1>4. CASE ToWrite(p) = {} /\ Return(p, "deduped") /\ UNCHANGED unwritten
  <2>1. Known(p)'
    BY <1>1, <1>4 DEF Inv, Return, Known, TypeOK
  <2>2. \A i \in DOMAIN request'[p] : request'[p][i].key \in Keys(events)
    BY <1>2, <1>4 DEF Return
  <2> QED
    BY <1>1, <1>4, <2>1, <2>2, StepOfOne
    DEF Inv, Return, TypeOK, InCriticalSection, Outcomes
<1>5. CASE Return(p, "unmet") /\ UNCHANGED unwritten
  <2>1. Known(p)'
    BY <1>1, <1>5 DEF Inv, Return, Known, TypeOK
  <2> QED
    BY <1>1, <1>5, <2>1, StepOfOne DEF Inv, Return, TypeOK, InCriticalSection, Outcomes
<1>6. CASE /\ unwritten' = [unwritten EXCEPT ![p] = ToWrite(p)]
           /\ pc' = [pc EXCEPT ![p] = "writing"]
           /\ UNCHANGED <<lock, request, existing, outcome>>
  <2>1. unwritten'[p] = ToWrite(p) /\ pc'[p] = "writing" /\ request'[p] = request[p]
    BY <1>6 DEF Inv, TypeOK
  <2>2. DistinctKeys(request[p]) /\ request[p] \in Request
    BY <1>1 DEF Inv, Known
  <2>3. Known(p)'
    BY <1>1, <1>2, <2>1, <2>2 DEF Known, DistinctKeys, Keys
  <2> QED
    BY <1>1, <1>3, <1>6, <2>3, StepOfOne
    DEF Inv, TypeOK, InCriticalSection, AcknowledgedIsDurable
<1> QED BY <1>4, <1>5, <1>6 DEF Decide
-----------------------------------------------------------------------------
\* The writer is alone inside the lock.
LEMMA WriterIsAlone ==
  ASSUME Inv, NEW p \in Process, pc[p] = "writing"
  PROVE  /\ lock = p
         /\ \A q \in Process \ {p} : pc[q] \notin InCriticalSection
  BY DEF Inv, HolderIsInside, InCriticalSection

\* A newline is put first where one is missing, so no line is ever glued.
LEMMA NeverGlued ==
  ASSUME NEW t, NEW e
  PROVE  ~Glued(t) /\ Kept(t) = events /\ WithLine(t, e) = Append(events, e)
  BY DEF Glued, Kept, WithLine, NeedsLeadingNewline

\* The line a writer adds is new to the log.
LEMMA NewLine ==
  ASSUME Inv, NEW p \in Process, pc[p] = "writing", NEW i \in unwritten[p],
         events' = Append(events, request[p][i])
  PROVE  /\ i \in DOMAIN request[p]
         /\ events' \in Seq(Event)
         /\ Keys(events') = Keys(events) \cup {request[p][i].key}
         /\ KeysUnique'
<1>1. i \in DOMAIN request[p] /\ request[p] \in Seq(Event) /\ events \in Seq(Event)
  BY DEF Inv, TypeOK
<1>2. request[p][i] \in Event
  BY <1>1
<1>3. request[p][i].key \notin Keys(events)
  BY <1>1 DEF Inv, Known
<1>4. events' \in Seq(Event) /\ Keys(events') = Keys(events) \cup {request[p][i].key}
  BY <1>1, <1>2, AppendedKeys
<1>5. KeysUnique'
  BY <1>1, <1>2, <1>3, AppendedUnique DEF Inv, KeysUnique
<1> QED BY <1>1, <1>4, <1>5

\* The frame of a step of the writer p, which may add keys to the log.
LEMMA StepOfWriter ==
  ASSUME Inv, NEW p \in Process, pc[p] = "writing",
         events' \in Seq(Event), Keys(events) \subseteq Keys(events'), KeysUnique',
         UNCHANGED <<request, existing>>,
         pc' \in [Process -> {"idle", "waiting"} \cup InCriticalSection],
         outcome' \in [Process -> Outcomes],
         unwritten' \in [Process -> SUBSET Nat], unwritten'[p] \subseteq unwritten[p],
         tail' \in {"clean", "torn", "open"},
         \A q \in Process \ {p} :
           pc'[q] = pc[q] /\ unwritten'[q] = unwritten[q] /\ outcome'[q] = outcome[q],
         \/ pc'[p] = "writing" /\ lock' = lock
         \/ pc'[p] = "idle" /\ lock' = IF lock = p THEN NoProcess ELSE lock,
         outcome'[p] \in {"none", outcome[p]},
         Known(p)'
  PROVE  Inv'
<1>1. lock = p /\ \A q \in Process \ {p} : pc[q] \notin InCriticalSection
  BY WriterIsAlone
<1>2. TypeOK'
  BY <1>1, LockAssumption DEF Inv, TypeOK
<1>3. HolderIsInside'
  BY <1>1, LockAssumption DEF HolderIsInside, InCriticalSection
<1>4. AcknowledgedIsDurable'
  <2> SUFFICES ASSUME NEW q \in Process, outcome'[q] \in {"written", "deduped"},
                      NEW i \in DOMAIN request[q]
               PROVE  request[q][i].key \in Keys(events')
    BY DEF AcknowledgedIsDurable, Keys
  <2>1. outcome[q] \in {"written", "deduped"}
    OBVIOUS
  <2> QED BY <2>1 DEF Inv, AcknowledgedIsDurable
<1>5. ASSUME NEW q \in Process PROVE Known(q)'
  <2>1. CASE q = p
    BY <2>1
  <2>2. CASE q # p
    <3>1. /\ pc'[q] = pc[q] /\ pc[q] \notin InCriticalSection
          /\ unwritten'[q] = unwritten[q] /\ request'[q] = request[q]
      BY <1>1, <2>2
    <3>2. Known(q)
      BY DEF Inv
    <3> QED BY <3>1, <3>2 DEF Known, DistinctKeys, InCriticalSection
  <2> QED BY <2>1, <2>2
<1> QED BY <1>2, <1>3, <1>4, <1>5 DEF Inv

LEMMA WriteLineInv ==
  ASSUME Inv, NEW p \in Process, WriteLine(p)
  PROVE  Inv'
<1>1. PICK i \in unwritten[p] :
        /\ events' = Append(events, request[p][i])
        /\ unwritten' = [unwritten EXCEPT ![p] = @ \ {i}]
  BY NeverGlued DEF WriteLine
<1>2. pc[p] = "writing" /\ tail' = "clean" /\ UNCHANGED <<lock, pc, request, existing, outcome>>
  BY DEF WriteLine
<1>3. /\ i \in DOMAIN request[p]
      /\ events' \in Seq(Event)
      /\ Keys(events') = Keys(events) \cup {request[p][i].key}
      /\ KeysUnique'
  BY <1>1, <1>2, NewLine
<1>4. unwritten'[p] = unwritten[p] \ {i}
  BY <1>1 DEF Inv, TypeOK
<1>5. DistinctKeys(request[p]) /\ request[p] \in Request
  BY <1>2 DEF Inv, Known
<1>6. ASSUME NEW j \in DOMAIN request[p]
      PROVE  j \in unwritten'[p] <=> request[p][j].key \notin Keys(events')
  <2>1. j \in unwritten[p] <=> request[p][j].key \notin Keys(events)
    BY <1>2 DEF Inv, Known
  <2>2. request[p][j].key = request[p][i].key => j = i
    BY <1>3, <1>5 DEF DistinctKeys
  <2> QED BY <1>3, <1>4, <2>1, <2>2
<1>7. Known(p)'
  <2>1. DistinctKeys(request'[p]) /\ request'[p] \in Request
    BY <1>2, <1>5
  <2> QED BY <1>2, <1>6, <2>1 DEF Known, DistinctKeys, Keys
<1> QED
  BY <1>1, <1>2, <1>3, <1>4, <1>7, StepOfWriter DEF Inv, TypeOK

LEMMA CrashInWriteInv ==
  ASSUME Inv, NEW p \in Process, CrashInWrite(p)
  PROVE  Inv'
<1>1. pc[p] = "writing" /\ Die(p)
  BY DEF CrashInWrite
<1>2. /\ events' \in Seq(Event) /\ Keys(events) \subseteq Keys(events') /\ KeysUnique'
      /\ tail' \in {"clean", "torn", "open"}
  <2>1. \/ UNCHANGED events /\ tail' \in {"clean", "torn"}
        \/ /\ tail' = "open"
           /\ \E i \in unwritten[p] : events' = Append(events, request[p][i])
    BY NeverGlued DEF CrashInWrite
  <2>2. CASE UNCHANGED events /\ tail' \in {"clean", "torn"}
    BY <2>2 DEF Inv, TypeOK, KeysUnique, Keys
  <2>3. CASE tail' = "open" /\ \E i \in unwritten[p] : events' = Append(events, request[p][i])
    BY <1>1, <2>3, NewLine
  <2> QED BY <2>1, <2>2, <2>3
<1>3. Known(p)'
  BY <1>1 DEF Inv, Die, Known, TypeOK
<1> QED
  BY <1>1, <1>2, <1>3, StepOfWriter DEF Inv, Die, TypeOK, Outcomes, InCriticalSection
-----------------------------------------------------------------------------
\* Inv holds of every step, of whatever process, and of stuttering.
LEMMA NextInv == Inv /\ [Next]_vars => Inv'
<1> SUFFICES ASSUME Inv, [Next]_vars PROVE Inv'
  OBVIOUS
<1>1. CASE UNCHANGED vars
  BY <1>1 DEF Inv, vars, TypeOK, HolderIsInside, KeysUnique, AcknowledgedIsDurable,
              Known, DistinctKeys, Keys
<1>2. ASSUME NEW p \in Process, NEW b \in Request, Call(p, b) PROVE Inv'
  BY <1>2, CallInv
<1>3. ASSUME NEW p \in Process,
             \/ Acquire(p) \/ Timeout(p) \/ ReadExisting(p) \/ Decide(p)
             \/ WriteLine(p) \/ Finish(p) \/ Crash(p) \/ CrashInWrite(p)
      PROVE  Inv'
  BY <1>3, AcquireInv, TimeoutInv, ReadExistingInv, DecideInv, WriteLineInv,
     FinishInv, CrashInv, CrashInWriteInv
<1> QED BY <1>1, <1>2, <1>3 DEF Next

THEOREM SpecInv == Spec => []Inv
  BY InitInv, NextInv, PTL DEF Spec

\* The variables keep their types (the lock is held by a process or by none, the
\* log is a sequence of events), for any number of processes.
THEOREM TypeCorrect == Spec => []TypeOK
  BY SpecInv, PTL DEF Inv

\* Mutual exclusion without a stale lock: the holder of the OS lock is the one
\* process inside the critical section (core/events.py, "Lock protocol").
THEOREM MutualExclusion == Spec => []HolderIsInside
  BY SpecInv, PTL DEF Inv

\* No idempotency key is ever recorded twice (the dedupe of append_batch).
THEOREM RecordedOnce == Spec => []KeysUnique
  BY SpecInv, PTL DEF Inv

\* What append_batch acknowledged is in the log, for good.
THEOREM AcknowledgedStays == Spec => []AcknowledgedIsDurable
  BY SpecInv, PTL DEF Inv
-----------------------------------------------------------------------------
(***************************************************************************)
(* EventLog implements AtomicLog: the decision to write is the abstract    *)
(* Begin, each line a Put, the end and a crash between lines a Release, a  *)
(* crash in a line a Release or a PutAndDie; the rest is stuttering.       *)
(***************************************************************************)
LEMMA InitImplements == Init => Abstract!LogInit
  BY DEF Init, Abstract!LogInit, Writer, BatchOnDisk, TodoOnDisk, Writing

\* Nobody is writing before or after, and the log is left alone.
LEMMA Stutters ==
  ASSUME ~Writing, ~Writing', UNCHANGED events
  PROVE  UNCHANGED Abstract!logVars
  BY DEF Abstract!logVars, Writer, BatchOnDisk, TodoOnDisk

\* A step of a process outside its write leaves a writer alone.
LEMMA OthersStutter ==
  ASSUME Inv, NEW p \in Process, pc[p] # "writing", pc'[p] # "writing",
         UNCHANGED events,
         \/ lock' = lock
         \/ lock = NoProcess /\ lock' = p
         \/ lock = p /\ lock' = NoProcess,
         \A q \in Process \ {p} :
           pc'[q] = pc[q] /\ request'[q] = request[q] /\ unwritten'[q] = unwritten[q]
  PROVE  UNCHANGED Abstract!logVars
<1>1. lock \in Process \cup {NoProcess}
  BY DEF Inv, TypeOK
<1>2. CASE Writing
  <2>1. lock \in Process \ {p} /\ lock' = lock
    BY <1>1, <1>2, LockAssumption DEF Writing
  <2>2. Writing'
    BY <1>2, <2>1 DEF Writing
  <2> QED BY <1>2, <2>1, <2>2 DEF Abstract!logVars, Writer, BatchOnDisk, TodoOnDisk
<1>3. CASE ~Writing
  <2>1. ~Writing'
    BY <1>1, <1>3, LockAssumption DEF Writing
  <2> QED BY <1>3, <2>1, Stutters
<1> QED BY <1>2, <1>3

\* What the abstract log sees of a process that is writing.
LEMMA WriterIsAbstractWriter ==
  ASSUME Inv, NEW p \in Process, pc[p] = "writing"
  PROVE  Writer = p /\ BatchOnDisk = request[p] /\ TodoOnDisk = unwritten[p]
<1>1. lock = p
  BY WriterIsAlone
<1> QED BY <1>1, LockAssumption DEF Writer, BatchOnDisk, TodoOnDisk, Writing

\* A process that gives up the lock is the abstract writer no more.
LEMMA GiveUpIsRelease ==
  ASSUME Inv, NEW p \in Process, pc[p] = "writing", lock' = NoProcess, UNCHANGED events
  PROVE  Abstract!Release(p)
<1>1. ~Writing'
  BY DEF Writing
<1> QED
  BY <1>1, WriterIsAbstractWriter
  DEF Abstract!Release, Writer, BatchOnDisk, TodoOnDisk

LEMMA DecideImplements ==
  ASSUME Inv, NEW p \in Process, Decide(p)
  PROVE  Abstract!Next \/ UNCHANGED Abstract!logVars
<1>1. /\ pc[p] = "deciding" /\ lock = p /\ existing[p] = events /\ UNCHANGED events
      /\ request[p] \in Request /\ DistinctKeys(request[p])
  BY DEF Inv, Decide, HolderIsInside, InCriticalSection, Known
<1>2. CASE UNCHANGED unwritten /\ (Return(p, "deduped") \/ Return(p, "unmet"))
  <2>1. /\ pc'[p] # "writing" /\ lock' = NoProcess
        /\ \A q \in Process \ {p} :
             pc'[q] = pc[q] /\ request'[q] = request[q] /\ unwritten'[q] = unwritten[q]
    BY <1>1, <1>2 DEF Inv, TypeOK, Return
  <2> QED BY <1>1, <2>1, OthersStutter, LockAssumption
<1>3. CASE /\ ToWrite(p) # {}
           /\ Admitted(p)
           /\ unwritten' = [unwritten EXCEPT ![p] = ToWrite(p)]
           /\ pc' = [pc EXCEPT ![p] = "writing"]
           /\ UNCHANGED <<lock, request, existing, outcome>>
  <2>1. ~Writing
    BY <1>1 DEF Writing
  <2>2. Writing' /\ lock' = p /\ request' = request /\ unwritten'[p] = ToWrite(p)
    BY <1>1, <1>3, LockAssumption DEF Inv, TypeOK, Writing
  <2>3. ToWrite(p) = Abstract!Fresh(request[p], events)
    BY <1>1 DEF ToWrite, Abstract!Fresh, Abstract!Keys, Keys
  <2>4. Admits(request[p], events)
    BY <1>1, <1>3 DEF Admitted
  <2>5. Abstract!DistinctKeys(request[p])
    BY <1>1 DEF DistinctKeys, Abstract!DistinctKeys
  <2>6. /\ Writer = NoProcess
        /\ Writer' = p /\ BatchOnDisk' = request[p] /\ TodoOnDisk' = ToWrite(p)
    BY <2>1, <2>2 DEF Writer, BatchOnDisk, TodoOnDisk
  <2>7. Abstract!Begin(p, request[p], Admits(request[p], events))
    BY <1>1, <1>3, <2>3, <2>4, <2>6 DEF Abstract!Begin, Abstract!LockFree
  <2> QED BY <1>1, <2>5, <2>7 DEF Abstract!Next
<1> QED BY <1>2, <1>3 DEF Decide

LEMMA WriteLineImplements ==
  ASSUME Inv, Inv', NEW p \in Process, WriteLine(p)
  PROVE  Abstract!Put(p)
<1>1. PICK i \in unwritten[p] :
        /\ \A j \in unwritten[p] : i <= j
        /\ events' = Append(events, request[p][i])
        /\ unwritten' = [unwritten EXCEPT ![p] = @ \ {i}]
  BY NeverGlued DEF WriteLine
<1>2. pc[p] = "writing" /\ pc'[p] = "writing" /\ request' = request
  BY DEF WriteLine
<1>3. Writer = p /\ BatchOnDisk = request[p] /\ TodoOnDisk = unwritten[p]
  BY <1>2, WriterIsAbstractWriter
<1>4. lock' = p
  BY <1>2, WriterIsAlone DEF WriteLine
<1>5. Writer' = p /\ BatchOnDisk' = request[p] /\ TodoOnDisk' = unwritten[p] \ {i}
  BY <1>1, <1>2, <1>4, LockAssumption
  DEF Inv, TypeOK, Writer, BatchOnDisk, TodoOnDisk, Writing
<1> QED BY <1>1, <1>3, <1>5 DEF Abstract!Put, Abstract!IsNext

LEMMA CrashInWriteImplements ==
  ASSUME Inv, NEW p \in Process, CrashInWrite(p)
  PROVE  Abstract!Release(p) \/ Abstract!PutAndDie(p)
<1>1. pc[p] = "writing" /\ lock' = NoProcess
  BY WriterIsAlone DEF CrashInWrite, Die
<1>2. CASE UNCHANGED events
  BY <1>1, <1>2, GiveUpIsRelease
<1>3. CASE \E i \in unwritten[p] : /\ \A j \in unwritten[p] : i <= j
                                  /\ events' = Append(events, request[p][i])
  <2>1. ~Writing'
    BY <1>1 DEF Writing
  <2>2. Writer' = NoProcess /\ BatchOnDisk' = <<>> /\ TodoOnDisk' = {}
    BY <2>1 DEF Writer, BatchOnDisk, TodoOnDisk
  <2> QED
    BY <1>1, <1>3, <2>2, WriterIsAbstractWriter DEF Abstract!PutAndDie, Abstract!IsNext
<1> QED BY <1>2, <1>3, NeverGlued DEF CrashInWrite

LEMMA StepImplements ==
  ASSUME Inv, Inv', [Next]_vars
  PROVE  Abstract!Next \/ UNCHANGED Abstract!logVars
<1>1. CASE UNCHANGED vars
  BY <1>1 DEF vars, Abstract!logVars, Writer, BatchOnDisk, TodoOnDisk, Writing
<1>2. ASSUME NEW p \in Process, NEW b \in Request, Call(p, b)
      PROVE  UNCHANGED Abstract!logVars
  <2>1. lock # p /\ lock \in Process \cup {NoProcess}
    BY <1>2 DEF Inv, TypeOK, Call, HolderIsInside, InCriticalSection
  <2>2. pc[p] # "writing" /\ pc'[p] # "writing" /\ UNCHANGED events /\ lock' = lock
    BY <1>2 DEF Inv, TypeOK, Call
  <2>3. \A q \in Process \ {p} :
          pc'[q] = pc[q] /\ request'[q] = request[q] /\ unwritten'[q] = unwritten[q]
    BY <1>2 DEF Inv, TypeOK, Call
  <2> QED BY <2>1, <2>2, <2>3, OthersStutter
<1>3. ASSUME NEW p \in Process, Acquire(p) \/ ReadExisting(p) \/ Timeout(p)
      PROVE  UNCHANGED Abstract!logVars
  <2>1. \A q \in Process \ {p} :
          pc'[q] = pc[q] /\ request'[q] = request[q] /\ unwritten'[q] = unwritten[q]
    BY <1>3 DEF Inv, TypeOK, Acquire, ReadExisting, Timeout, Return
  <2>2. pc[p] # "writing" /\ pc'[p] # "writing" /\ UNCHANGED events
    BY <1>3 DEF Inv, TypeOK, Acquire, ReadExisting, Timeout, Return
  <2>3. pc[p] = "waiting" => lock # p
    BY DEF Inv, HolderIsInside, InCriticalSection
  <2>4. pc[p] = "locked" => lock = p
    BY DEF Inv, HolderIsInside, InCriticalSection
  <2>5. CASE Acquire(p)
    <3>1. lock = NoProcess /\ lock' = p
      BY <2>5 DEF Acquire
    <3> QED BY <2>1, <2>2, <3>1, OthersStutter
  <2>6. CASE ReadExisting(p)
    <3>1. lock = p /\ lock' = lock
      BY <2>4, <2>6 DEF ReadExisting
    <3> QED BY <2>1, <2>2, <3>1, OthersStutter
  <2>7. CASE Timeout(p)
    <3>1. lock # p /\ lock' = lock
      BY <2>3, <2>7 DEF Timeout, Return
    <3> QED BY <2>1, <2>2, <3>1, OthersStutter
  <2> QED BY <1>3, <2>5, <2>6, <2>7
<1>4. ASSUME NEW p \in Process, Finish(p)
      PROVE  Abstract!Release(p)
  <2>1. pc[p] = "writing" /\ lock' = NoProcess /\ UNCHANGED events
    BY <1>4, WriterIsAlone DEF Finish, Return
  <2> QED BY <2>1, GiveUpIsRelease
<1>5. ASSUME NEW p \in Process, Crash(p)
      PROVE  Abstract!Release(p) \/ UNCHANGED Abstract!logVars
  <2>1. CASE pc[p] = "writing"
    <3>1. lock' = NoProcess /\ UNCHANGED events
      BY <1>5, <2>1, WriterIsAlone DEF Crash, Die
    <3> QED BY <2>1, <3>1, GiveUpIsRelease
  <2>2. CASE pc[p] # "writing"
    <3>1. \A q \in Process \ {p} :
            pc'[q] = pc[q] /\ request'[q] = request[q] /\ unwritten'[q] = unwritten[q]
      BY <1>5 DEF Inv, TypeOK, Crash, Die
    <3>2. pc'[p] # "writing" /\ UNCHANGED events
      BY <1>5 DEF Inv, TypeOK, Crash, Die
    <3>3. \/ lock' = lock
          \/ lock = p /\ lock' = NoProcess
      BY <1>5 DEF Crash, Die
    <3> QED BY <2>2, <3>1, <3>2, <3>3, OthersStutter
  <2> QED BY <2>1, <2>2
<1>6. ASSUME NEW p \in Process, Decide(p)
      PROVE  Abstract!Next \/ UNCHANGED Abstract!logVars
  BY <1>6, DecideImplements
<1>7. ASSUME NEW p \in Process, WriteLine(p)
      PROVE  Abstract!Put(p)
  BY <1>7, WriteLineImplements
<1>8. ASSUME NEW p \in Process, CrashInWrite(p)
      PROVE  Abstract!Release(p) \/ Abstract!PutAndDie(p)
  BY <1>8, CrashInWriteImplements
<1>9. ASSUME NEW p \in Process,
             Abstract!Put(p) \/ Abstract!Release(p) \/ Abstract!PutAndDie(p)
      PROVE  Abstract!Next
  BY <1>9 DEF Abstract!Next
<1> QED
  BY <1>1, <1>2, <1>3, <1>4, <1>5, <1>6, <1>7, <1>8, <1>9 DEF Next

\* The lock protocol on the file implements the atomic log that ownership is
\* modelled on: each batch is decided on the very log it is appended to, and
\* its lines follow each other, for any processes, batches and preconditions.
THEOREM Implements == Spec => ImplementsAtomicLog
<1>1. Inv /\ Inv' /\ [Next]_vars => [Abstract!Next]_(Abstract!logVars)
  BY StepImplements
<1> QED BY <1>1, InitImplements, SpecInv, PTL DEF Spec, ImplementsAtomicLog, Abstract!Spec

\* Whatever was readable stays readable, in its place (_append_lines).
THEOREM HistoryStays == Spec => HistoryIsImmutable
<1> DEFINE Grows == Len(events) <= Len(events') /\ events = SubSeq(events', 1, Len(events))
<1>1. ASSUME Inv, [Next]_vars PROVE Grows \/ UNCHANGED vars
  <2>1. events \in Seq(Event)
    BY <1>1 DEF Inv, TypeOK
  <2>2. \/ UNCHANGED events
        \/ \E p \in Process : \E i \in unwritten[p] : events' = Append(events, request[p][i])
    BY <1>1, NeverGlued
    DEF Next, vars, Call, Acquire, Timeout, ReadExisting, Decide, WriteLine, Finish,
        Crash, CrashInWrite
  <2>3. CASE UNCHANGED events
    BY <2>1, <2>3
  <2>4. ASSUME NEW e, events' = Append(events, e) PROVE Grows
    BY <2>1, <2>4
  <2> QED BY <2>2, <2>3, <2>4
<1>2. Inv /\ [Next]_vars => [Grows]_vars
  BY <1>1
<1> QED BY <1>2, SpecInv, PTL DEF Spec, HistoryIsImmutable, Grows
=============================================================================
