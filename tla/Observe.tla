------------------------------ MODULE Observe -------------------------------
(***************************************************************************)
(* The observation facade (scripts/fleet/observe.py).  Every call runs its *)
(* write in a daemon thread that it waits for no longer than a deadline.   *)
(* Whatever goes wrong is journaled, and the call returns.  The thread it  *)
(* gave up on runs on until the process exits.                             *)
(*                                                                         *)
(* A process is one invocation of the command line.  Its threads append to *)
(* the event log and project the fragment (register_session, emit and      *)
(* self_register with a handoff id).                                       *)
(***************************************************************************)
EXTENDS AppendLog, BoundedJournal

CONSTANTS
  Session,     \* node ids of sessions
  Row,         \* handoffs: their handoff_id and node_id
  NoRow,
  InitialLogs, \* logs to start from: rows emitted, launched or cancelled
  MaxCalls     \* bound: calls in a behaviour

ASSUME RowAssumption == NoRow \notin Row /\ Row \cap Session = {}

Workspaces == {"disabled", "unidentified", "ready"}

VARIABLES
  workspace,  \* what resolve_fleet_config and read_project_identity find
  projected,  \* nodes with a fragment file
  pc,         \* the main thread of each process
  job,        \* what it was called for
  threads,    \* its daemon threads, in the order of their start
  result,     \* how its last call ended
  calls

workVars == <<log, projected, threads>>
vars == <<workVars, workspace, pc, job, result, calls, journalVars>>

Event(type, node) == [type |-> type, node |-> node, key |-> <<type, node>>]

ASSUME LogsAssumption ==
  InitialLogs \subseteq Seq({Event(t, n) : t \in {"registered", "emitted", "launched", "cancelled"},
                                            n \in Session \cup Row})

InLog(type, node) == <<type, node>> \in Keys(log)

NoJob == [verb |-> "none", row |-> NoRow]
NoResult == [ok |-> FALSE, status |-> "none"]

Init ==
  /\ log \in InitialLogs
  /\ projected = {log[i].node : i \in DOMAIN log}
  /\ workspace \in Workspaces
  /\ pc = [p \in Process |-> "idle"]
  /\ job = [p \in Process |-> NoJob]
  /\ threads = [p \in Process |-> <<>>]
  /\ result = [p \in Process |-> NoResult]
  /\ calls = 0
  /\ JournalInit
-----------------------------------------------------------------------------
Go(p, at) == pc' = [pc EXCEPT ![p] = at]

\* The call's answer; prompt is the id embedded in the prompt it delivers.  The
\* process exits, and its daemon threads with it.
Answer(p, ok, status, node, prompt) ==
  /\ result' = [result EXCEPT ![p] =
       [ok |-> ok, status |-> status, node |-> node, prompt |-> prompt,
        attempt |-> [call |-> job[p].call, do |-> job[p].do]]]
  /\ Go(p, "idle")
  /\ job' = [job EXCEPT ![p] = NoJob]
  /\ threads' = [threads EXCEPT ![p] = <<>>]

Last(p) == threads[p][Len(threads[p])]

Success(p) ==
  LET e == Last(p).event
  IN  Answer(p, TRUE, e.type, e.node,
             IF e.type = "emitted" THEN e.node ELSE NoRow)

Failure(p, status) == Answer(p, FALSE, status, NoRow, NoRow)

\* observe dispatch and relay (register), handoff-emit, launch and
\* session-start; emit mints a fresh id.
Call(p) ==
  /\ pc[p] = "idle" /\ calls < MaxCalls
  /\ calls' = calls + 1
  /\ \E verb \in {"register", "emit", "launch", "session-start"},
        s \in Session, r \in Row \cup {NoRow} :
       /\ (r = NoRow) <=> (verb = "register")
       /\ verb = "emit" =>
            /\ ~InLog("emitted", r)
            /\ \A q \in Process : job[q].row # r
       /\ job' = [job EXCEPT ![p] =
            [verb |-> verb, call |-> calls + 1, session |-> s, row |-> r,
             do |-> IF verb = "session-start" THEN "launch" ELSE verb]]
  /\ Go(p, "resolving")
  /\ result' = [result EXCEPT ![p] = NoResult]
  /\ UNCHANGED <<workVars, workspace, journalVars>>

\* _write_journal is called with what went wrong.
Journal(p) ==
  /\ JournalBegin(p, [call |-> job[p].call, do |-> job[p].do])
  /\ Go(p, "journaling")

\* A session start whose launch did not succeed goes on to register.
Fallback(p) ==
  /\ job' = [job EXCEPT ![p].do = "register"]
  /\ Go(p, "resolving")
  /\ UNCHANGED <<threads, result>>

Launching(p) == job[p].verb = "session-start" /\ job[p].do = "launch"

\* _resolve_context: a disabled workspace is an answer without any I/O.
Disabled(p) ==
  /\ pc[p] = "resolving" /\ workspace = "disabled"
  /\ IF Launching(p) THEN Fallback(p) ELSE Failure(p, "disabled")
  /\ UNCHANGED <<log, projected, workspace, calls, journalVars>>

\* The identity is missing, or (_check_deadline) the budget is spent before the
\* write has begun.
FailEarly(p) ==
  /\ pc[p] = "resolving" /\ workspace # "disabled"
  /\ Journal(p)
  /\ UNCHANGED <<workVars, workspace, job, result, calls>>

EventType(do) ==
  CASE do = "register" -> "registered"
    [] do = "emit"     -> "emitted"
    [] do = "launch"   -> "launched"

\* _run_bounded starts the daemon thread, which builds its event.
StartThread(p) ==
  /\ pc[p] = "resolving" /\ workspace = "ready"
  /\ LET node == IF job[p].do = "register" THEN job[p].session ELSE job[p].row
         e == Event(EventType(job[p].do), node)
     IN  threads' = [threads EXCEPT ![p] =
           Append(@, [at |-> "appending", event |-> e])]
  /\ Go(p, "joining")
  /\ UNCHANGED <<log, projected, workspace, job, result, calls, journalVars>>
-----------------------------------------------------------------------------
\* The daemon threads.
ThreadGo(p, i, at) == threads' = [threads EXCEPT ![p][i].at = at]

UntouchedByThreads == <<workspace, pc, job, result, calls, journalVars>>

\* self_register finds no row to launch.
NotLaunchable(e) ==
  /\ e.type = "launched"
  /\ ~InLog("emitted", e.node) \/ InLog("cancelled", e.node)

\* append.  What is recorded already is answered from its fragment, unless
\* that is missing.
ThreadAppend(p, i) ==
  /\ threads[p][i].at = "appending"
  /\ LET e == threads[p][i].event IN
     \/ NotLaunchable(e) /\ ThreadGo(p, i, "raised") /\ UNCHANGED log
     \/ ~NotLaunchable(e) /\ Record(e, TRUE) /\ ThreadGo(p, i, "projecting")
     \/ /\ ~NotLaunchable(e) /\ Recorded(e)
        /\ ThreadGo(p, i, IF e.node \in projected THEN "done" ELSE "projecting")
  /\ UNCHANGED <<projected, UntouchedByThreads>>

\* project_event, or the rebuild in its place.
ThreadProject(p, i) ==
  /\ threads[p][i].at = "projecting"
  /\ projected' = projected \cup {threads[p][i].event.node}
  /\ ThreadGo(p, i, "done")
  /\ UNCHANGED <<log, UntouchedByThreads>>

\* Whatever the call raises: a lock timeout, a rejection, an unresolved session
\* identity before the append; an OSError before or after it.
ThreadRaise(p, i) ==
  /\ threads[p][i].at \in {"appending", "projecting"}
  /\ ThreadGo(p, i, "raised")
  /\ UNCHANGED <<log, projected, UntouchedByThreads>>
-----------------------------------------------------------------------------
\* The thread returned in time, or raised in time.
Join(p) ==
  /\ pc[p] = "joining"
  /\ \/ /\ Last(p).at = "done"
        /\ Success(p)
        /\ UNCHANGED journalVars
     \/ /\ Last(p).at = "raised"
        /\ Journal(p)
        /\ UNCHANGED <<threads, job, result>>
  /\ UNCHANGED <<log, projected, workspace, calls>>

\* Mutant: the join has no timeout.
JoinTimeoutNever(p) == FALSE /\ UNCHANGED vars

\* Mutant: the outcome is not looked at once the time is up.
JoinTimeoutSucceeds(p) ==
  /\ pc[p] = "joining"
  /\ Success(p)
  /\ UNCHANGED <<log, projected, workspace, calls, journalVars>>

\* _TimedOut: the thread is still at work, and is left alone.
JoinTimeout(p) ==
  /\ pc[p] = "joining"
  /\ Last(p).at \in {"appending", "projecting"}
  /\ Journal(p)
  /\ UNCHANGED <<workVars, workspace, job, result, calls>>

\* The end of _write_journal, which may leave a line on stderr instead.
AfterJournal(p, status) ==
  IF Launching(p) THEN Fallback(p)
  ELSE Failure(p, status)

WriteJournal(p) ==
  /\ \/ JournalRead(p) /\ UNCHANGED <<pc, threads, job, result>>
     \/ JournalReplace(p) /\ AfterJournal(p, "failed")
     \/ JournalFail(p) /\ AfterJournal(p, "stderr")
  /\ UNCHANGED <<log, projected, workspace, calls>>

\* The harness kills the process (a hook's own timeout).
Crash(p) ==
  /\ pc[p] # "idle"
  /\ Go(p, "idle")
  /\ job' = [job EXCEPT ![p] = NoJob]
  /\ threads' = [threads EXCEPT ![p] = <<>>]
  /\ JournalEnd(p)
  /\ UNCHANGED <<log, projected, workspace, result, calls>>
  /\ UNCHANGED <<journal, written>>

Main(p) ==
  \/ Disabled(p) \/ FailEarly(p) \/ StartThread(p)
  \/ Join(p) \/ JoinTimeout(p) \/ WriteJournal(p)

Daemon(p) ==
  \E i \in DOMAIN threads[p] :
    ThreadAppend(p, i) \/ ThreadProject(p, i) \/ ThreadRaise(p, i)

Next == \E p \in Process : Call(p) \/ Main(p) \/ Daemon(p) \/ Crash(p)

Spec == Init /\ [][Next]_vars

\* The main thread runs; nothing is assumed of the daemon threads, which may
\* hang in the lock or on a file for ever.
FairSpec == Spec /\ \A p \in Process : WF_vars(Main(p))
-----------------------------------------------------------------------------
TypeOK ==
  /\ \A p \in Process :
       /\ pc[p] \in {"idle", "resolving", "joining", "journaling"}
       /\ (entry[p] # "idle") <=> (pc[p] = "journaling")
       /\ pc[p] = "joining" => threads[p] # <<>>
       /\ Len(threads[p]) <= 2
  /\ \A p \in Process : (holder = p) <=> (entry[p] = "replacing")
  /\ Len(journal) <= MaxLines

\* A success was recorded and projected, and a prompt carries the id of a handoff
\* only if its row is in the log, whatever the other threads of the process or
\* other processes did meanwhile, and if the call was given up while its thread
\* was still writing.
SuccessIsBacked ==
  \A p \in Process :
    /\ result[p].ok => /\ InLog(result[p].status, result[p].node)
                       /\ result[p].node \in projected
    /\ (result[p].status # "none" /\ result[p].prompt # NoRow)
         => InLog("emitted", result[p].prompt)

\* A call that failed has its line in the journal, unless newer lines have
\* pushed it out or it went to stderr: no failure is swallowed.
FailureIsOnRecord ==
  \A p \in Process :
    result[p].status = "failed" =>
      LET OfCall(l) == [call |-> l.call, do |-> l.do] = result[p].attempt IN
      \E i \in DOMAIN written :
        /\ OfCall(written[i])
        /\ \/ i + MaxLines <= Len(written)
           \/ \E j \in DOMAIN journal : OfCall(journal[j])

\* Every call returns, although its threads may hang and others hold the lock
\* of the journal.
EveryCallReturns ==
  \A p \in Process : []<>(pc[p] = "idle")
=============================================================================
