------------------------------ MODULE Handoff -------------------------------
(***************************************************************************)
(* Handoff rows (scripts/fleet/handoff.py): emit, self_register by id      *)
(* (exact) or by place (fuzzy), and cancel, run by concurrent processes on *)
(* one event log and one directory of fragment files.  The log is written  *)
(* under its lock; the fragments are a cache of it, written without one:   *)
(* after the append, by project_event, or from a replay of the whole log,  *)
(* by rebuild.  Processes may die, and fragment files may be damaged or    *)
(* deleted by others, at any moment.                                       *)
(*                                                                         *)
(* A row is one emitted handoff: its handoff_id and its node_id.           *)
(***************************************************************************)
EXTENDS AppendLog

CONSTANTS
  Process,
  Row,         \* handoffs
  NoRow,       \* no handoff yet: what a fuzzy match starts from
  Place,       \* normalised (cwd, branch) pairs
  PlaceOf,     \* where each handoff is to be launched
  MaxCalls,    \* bound: calls in a behaviour
  MaxMishaps   \* bound: crashed processes, damaged or deleted fragment files

ASSUME PlaceAssumption == PlaceOf \in [Row -> Place]
ASSUME NoRowAssumption == NoRow \notin Row

VARIABLES
  frag,      \* each row's fragment file: its lifecycle, "absent" or "corrupt"
  pc,        \* where each process is
  job,       \* what it was called for, and what it found out
  seen,      \* rebuild: how much of the log it replays
  left,      \* rebuild: rows whose fragment it has still to write
  result,    \* how its last call ended
  calls, mishaps

procVars == <<pc, job, seen, left, result>>
vars == <<log, frag, procVars, calls, mishaps>>

Lifecycle == {"awaiting-launch", "active", "cancelled"}

Event(t, r) == [type |-> t, row |-> r, key |-> <<t, r>>]
Emitted(r)   == Event("emitted", r)
Launched(r)  == Event("launched", r)
Cancelled(r) == Event("cancelled", r)

LifecycleOf(t) ==
  CASE t = "emitted"   -> "awaiting-launch"
    [] t = "launched"  -> "active"
    [] t = "cancelled" -> "cancelled"

InLog(e, l) == \E i \in DOMAIN l : l[i] = e

\* _log_open_handoff_node_ids: emitted, and neither launched nor cancelled.
LogOpen(l) ==
  {r \in Row : /\ InLog(Emitted(r), l)
               /\ ~InLog(Launched(r), l) /\ ~InLog(Cancelled(r), l)}

\* What a replay of a log makes of a row: the last event decides.
Positions(l, r) == {i \in DOMAIN l : l[i].row = r}
Replayed(l, r) ==
  LET i == CHOOSE i \in Positions(l, r) : \A j \in Positions(l, r) : j <= i
  IN  LifecycleOf(l[i].type)

Awaiting == {r \in Row : frag[r] = "awaiting-launch"}

NoJob == [kind |-> "none"]
NoResult == [kind |-> "none"]

Init ==
  /\ log = <<>>
  /\ frag = [r \in Row |-> "absent"]
  /\ pc = [p \in Process |-> "idle"]
  /\ job = [p \in Process |-> NoJob]
  /\ seen = [p \in Process |-> 0]
  /\ left = [p \in Process |-> {}]
  /\ result = [p \in Process |-> NoResult]
  /\ calls = 0 /\ mishaps = 0
-----------------------------------------------------------------------------
\* already, shown and unhurt are bookkeeping for the properties: the rows open
\* when the call began, those whose fragment said so, and whether no fragment
\* was damaged since.
Job(kind, r, place) ==
  [kind |-> kind, row |-> r, place |-> place, rebuilt |-> FALSE, then |-> "idle",
   awaiting |-> {}, open |-> {}, already |-> LogOpen(log),
   shown |-> Awaiting, unhurt |-> TRUE]

Call(p, j, first) ==
  /\ pc[p] = "idle"
  /\ calls < MaxCalls
  /\ calls' = calls + 1
  /\ job' = [job EXCEPT ![p] = j]
  /\ pc' = [pc EXCEPT ![p] = first]
  /\ result' = [result EXCEPT ![p] = NoResult]
  /\ UNCHANGED <<log, frag, seen, left, mishaps>>

\* An id leaves emit with the prompt it returns; unknown ids are tried as well.
Emitting(r) == \E q \in Process : job[q].kind = "emit" /\ job[q].row = r

\* emit mints a fresh handoff_id.
CallEmit(p) ==
  \E r \in Row :
    /\ ~InLog(Emitted(r), log)
    /\ ~Emitting(r)
    /\ Call(p, Job("emit", r, PlaceOf[r]), "appending")

\* self_register with the handoff_id of the prompt, or with a cwd and branch.
CallExact(p) ==
  \E r \in Row : ~Emitting(r) /\ Call(p, Job("exact", r, PlaceOf[r]), "finding")
CallFuzzy(p) ==
  \E place \in Place : Call(p, Job("fuzzy", NoRow, place), "scanning")

\* cancel takes the node_id of an emitted handoff.
CallCancel(p) ==
  \E r \in Row : /\ InLog(Emitted(r), log) /\ ~Emitting(r)
                 /\ Call(p, Job("cancel", r, PlaceOf[r]), "appending")

Go(p, at) == pc' = [pc EXCEPT ![p] = at] /\ UNCHANGED <<seen, left, result>>

Return(p, status) ==
  /\ pc' = [pc EXCEPT ![p] = "idle"]
  /\ job' = [job EXCEPT ![p] = NoJob]
  /\ result' = [result EXCEPT ![p] =
       [kind |-> job[p].kind, row |-> job[p].row, status |-> status,
        unhurt |-> job[p].unhurt]]
  /\ seen' = [seen EXCEPT ![p] = 0]
  /\ left' = [left EXCEPT ![p] = {}]

\* Call rebuild, and go on from there when it is through.
Rebuild(p, j, then) ==
  /\ job' = [job EXCEPT ![p] = [j EXCEPT !.rebuilt = TRUE, !.then = then]]
  /\ Go(p, "rebuilding")

world == <<log, frag, calls, mishaps>>
-----------------------------------------------------------------------------
\* _find_by_handoff_id; an id nobody emitted is a ValueError.
Find(p) ==
  /\ pc[p] = "finding"
  /\ IF InLog(Emitted(job[p].row), log)
       THEN Go(p, "reading") /\ UNCHANGED job
       ELSE Return(p, "rejected")
  /\ UNCHANGED world

\* The candidates of a fuzzy match: none, too many to choose from, or one.
Candidates(p, awaiting, open) ==
  {r \in awaiting \cap open : PlaceOf[r] = job[p].place}

\* Mutant: of several candidates, any is taken.
MatchAny(p, awaiting, open) ==
  \/ /\ Candidates(p, awaiting, open) = {}
     /\ Return(p, "not_found")
  \/ \E r \in Candidates(p, awaiting, open) :
       /\ job' = [job EXCEPT ![p] = [@ EXCEPT !.row = r, !.rebuilt = FALSE]]
       /\ Go(p, "reading")

Match(p, awaiting, open) ==
  \/ /\ Candidates(p, awaiting, open) = {}
     /\ Return(p, "not_found")
  \/ /\ \E r, s \in Candidates(p, awaiting, open) : r # s
     /\ Return(p, "ambiguous")
  \/ \E r \in Row :
       /\ Candidates(p, awaiting, open) = {r}
       /\ job' = [job EXCEPT ![p] = [@ EXCEPT !.row = r, !.rebuilt = FALSE]]
       /\ Go(p, "reading")

\* _open_awaiting_launch_rows reads the directory (in one step here).
Scan(p) ==
  /\ pc[p] = "scanning"
  /\ IF \E r \in Row : frag[r] = "corrupt"
       THEN Rebuild(p, job[p], "rescanning")
       ELSE /\ job' = [job EXCEPT ![p].awaiting = Awaiting]
            /\ Go(p, "listing")
  /\ UNCHANGED world

\* After a rebuild for a corrupt file: files still corrupt are skipped.
Rescan(p) ==
  /\ pc[p] = "rescanning"
  /\ job' = [job EXCEPT ![p].awaiting = Awaiting]
  /\ Go(p, "listing")
  /\ UNCHANGED world

\* The rows that are open according to the log, read after the directory.
List(p) ==
  /\ pc[p] = "listing"
  /\ IF job[p].rebuilt
       THEN Match(p, job[p].awaiting, LogOpen(log))
       ELSE /\ job' = [job EXCEPT ![p].open = LogOpen(log)]
            /\ Go(p, "comparing")
  /\ UNCHANGED world

\* Open rows the directory did not show: if one has no file at all, rebuild.
\* A corrupt one, if it is read first, raises FragmentCorrupt.
Compare(p) ==
  /\ pc[p] = "comparing"
  /\ LET missing == job[p].open \ job[p].awaiting
     IN  \/ /\ \E r \in missing : frag[r] = "corrupt"
            /\ Return(p, "error")
         \/ /\ \E r \in missing : frag[r] = "absent"
            /\ Rebuild(p, job[p], "refilling")
         \/ /\ \A r \in missing : frag[r] \in Lifecycle
            /\ Match(p, job[p].awaiting, job[p].open)
  /\ UNCHANGED world

\* After that rebuild: the directory again, against the same open rows.
Refill(p) ==
  /\ pc[p] = "refilling"
  /\ Match(p, Awaiting, job[p].open)
  /\ UNCHANGED world

\* Mutant: a missing or corrupt fragment is not recovered from the log.
ReadNoRecovery(p) ==
  /\ pc[p] = "reading"
  /\ LET f == frag[job[p].row]
     IN  \/ f \in {"absent", "corrupt"} /\ Return(p, "not_found")
         \/ f = "active" /\ Return(p, "already_launched")
         \/ f = "cancelled" /\ Return(p, "not_launchable")
         \/ f = "awaiting-launch" /\ Go(p, "appending") /\ UNCHANGED job
  /\ UNCHANGED world

\* self_register reads the fragment of the row it found.
ReadFragment(p) ==
  /\ pc[p] = "reading"
  /\ LET f == frag[job[p].row]
         recoverable == \/ f = "corrupt" /\ ~job[p].rebuilt
                        \/ f = "absent" /\ ~job[p].rebuilt /\ job[p].kind = "exact"
     IN  \/ recoverable /\ Rebuild(p, job[p], "reading")
         \/ f = "corrupt" /\ ~recoverable /\ Return(p, "error")
         \/ f = "absent" /\ ~recoverable /\ Return(p, "not_found")
         \/ f = "active" /\ Return(p, "already_launched")
         \/ f = "cancelled" /\ Return(p, "not_launchable")
         \/ f = "awaiting-launch" /\ Go(p, "appending") /\ UNCHANGED job
  /\ UNCHANGED world
-----------------------------------------------------------------------------
EventOf(j) ==
  CASE j.kind = "emit"   -> Emitted(j.row)
    [] j.kind = "cancel" -> Cancelled(j.row)
    [] OTHER             -> Launched(j.row)

\* Mutant: nothing is checked again under the lock.
LaunchAlways(j) == TRUE

\* _not_terminated, the precondition of a launch; the others have none.
NotTerminated(j) ==
  j.kind \in {"exact", "fuzzy"} => ~InLog(Cancelled(j.row), log)

\* Mutant: a launch that another call has recorded is taken for its own.
AppendTakesAny(p) ==
  /\ pc[p] = "appending"
  /\ LET j == job[p]
         e == EventOf(j)
     IN  \/ /\ Record(e, NotTerminated(j)) \/ Recorded(e)
            /\ Go(p, "projecting") /\ UNCHANGED job
         \/ /\ Refused(e, NotTerminated(j))
            /\ Return(p, "not_launchable")
  /\ UNCHANGED <<frag, calls, mishaps>>

AppendEvent(p) ==
  /\ pc[p] = "appending"
  /\ LET j == job[p]
         e == EventOf(j)
     IN  \/ /\ Record(e, NotTerminated(j))
            /\ Go(p, "projecting") /\ UNCHANGED job
         \/ /\ Refused(e, NotTerminated(j))
            /\ Return(p, "not_launchable")
         \/ /\ Recorded(e)
            /\ CASE j.kind = "emit"   -> Go(p, "projecting") /\ UNCHANGED job
                 [] j.kind = "cancel" -> Go(p, "returning") /\ UNCHANGED job
                 [] OTHER             -> Return(p, "already_launched")
  /\ UNCHANGED <<frag, calls, mishaps>>

\* Mutant: a lock timeout is taken for a dedupe, and the event projected.
TimeoutProjects(p) ==
  /\ pc[p] = "appending"
  /\ Go(p, "projecting")
  /\ UNCHANGED <<world, job>>

\* LockTimeoutError, after the bounded retries: nothing was written.
Timeout(p) ==
  /\ pc[p] = "appending"
  /\ Return(p, "timeout")
  /\ UNCHANGED world

Done(p) ==
  Return(p, CASE job[p].kind = "emit"   -> "emitted"
              [] job[p].kind = "cancel" -> "cancelled"
              [] OTHER                  -> "launched")

\* cancel of a cancelled row: its fragment, or else the event projected again.
ReturnExisting(p) ==
  /\ pc[p] = "returning"
  /\ IF frag[job[p].row] \in Lifecycle
       THEN Done(p)
       ELSE Go(p, "projecting") /\ UNCHANGED job
  /\ UNCHANGED world

\* project_event: the event's lifecycle replaces that of the file, whatever it
\* was; a corrupt file makes it a rebuild.
Project(p) ==
  /\ pc[p] = "projecting"
  /\ LET r == job[p].row
     IN  IF frag[r] = "corrupt"
           THEN Rebuild(p, job[p], "done") /\ UNCHANGED frag
           ELSE /\ frag' = [frag EXCEPT ![r] = LifecycleOf(EventOf(job[p]).type)]
                /\ Done(p)
  /\ UNCHANGED <<log, calls, mishaps>>

\* rebuild replays the log as it is now ...
RebuildRead(p) ==
  /\ pc[p] = "rebuilding"
  /\ seen' = [seen EXCEPT ![p] = Len(log)]
  /\ left' = [left EXCEPT ![p] = {r \in Row : Positions(log, r) # {}}]
  /\ pc' = [pc EXCEPT ![p] = "restoring"]
  /\ UNCHANGED <<world, job, result>>

\* ... and writes one fragment after the other, in order of first appearance.
RebuildWrite(p) ==
  /\ pc[p] = "restoring"
  /\ LET l == SubSeq(log, 1, seen[p])
     IN  \E r \in left[p] :
           /\ \E i \in Positions(l, r) : \A s \in left[p] : \A j \in Positions(l, s) : i <= j
           /\ frag' = [frag EXCEPT ![r] = Replayed(l, r)]
           /\ left' = [left EXCEPT ![p] = @ \ {r}]
  /\ UNCHANGED <<log, pc, job, seen, result, calls, mishaps>>

RebuildDone(p) ==
  /\ pc[p] = "restoring"
  /\ left[p] = {}
  /\ IF job[p].then = "done" THEN Done(p) ELSE Go(p, job[p].then) /\ UNCHANGED job
  /\ UNCHANGED world

Crash(p) ==
  /\ pc[p] # "idle"
  /\ mishaps < MaxMishaps
  /\ mishaps' = mishaps + 1
  /\ Return(p, "crashed")
  /\ UNCHANGED <<log, frag, calls>>

\* A fragment file is lost or becomes unreadable.
Damage(r) ==
  /\ mishaps < MaxMishaps
  /\ mishaps' = mishaps + 1
  /\ frag[r] \in Lifecycle
  /\ \E f \in {"absent", "corrupt"} : frag' = [frag EXCEPT ![r] = f]
  /\ job' = [p \in Process |-> IF pc[p] = "idle" THEN job[p]
                                 ELSE [job[p] EXCEPT !.unhurt = FALSE]]
  /\ UNCHANGED <<log, pc, seen, left, result, calls>>

Step(p) ==
  \/ Find(p) \/ Scan(p) \/ Rescan(p) \/ List(p) \/ Compare(p) \/ Refill(p)
  \/ ReadFragment(p) \/ AppendEvent(p) \/ Timeout(p) \/ ReturnExisting(p)
  \/ Project(p) \/ RebuildRead(p) \/ RebuildWrite(p) \/ RebuildDone(p)

Next ==
  \/ \E p \in Process :
       \/ CallEmit(p) \/ CallExact(p) \/ CallFuzzy(p) \/ CallCancel(p)
       \/ Step(p) \/ Crash(p)
  \/ \E r \in Row : Damage(r)

Spec == Init /\ [][Next]_vars
-----------------------------------------------------------------------------
TypeOK ==
  /\ \A i \in DOMAIN log : \E r \in Row : log[i] \in {Emitted(r), Launched(r), Cancelled(r)}
  /\ frag \in [Row -> Lifecycle \cup {"absent", "corrupt"}]
  /\ \A p \in Process :
       /\ pc[p] = "idle" <=> job[p] = NoJob
       /\ pc[p] \in {"reading", "appending", "projecting", "returning"} => job[p].row \in Row
       /\ seen[p] <= Len(log)
       /\ left[p] # {} => pc[p] = "restoring"
       /\ \A r \in left[p] : \E i \in 1 .. seen[p] : log[i].row = r

\* A launch is recorded only for an emitted row, and cancel is terminal: never
\* after a cancellation, even if cancel and self_register race (self_register's
\* docstring, "Cancel is terminal").
NoLaunchAfterCancel ==
  \A i \in DOMAIN log : log[i].type = "launched" =>
    /\ \E j \in 1 .. i : log[j] = Emitted(log[i].row)
    /\ ~ \E j \in 1 .. i : log[j] = Cancelled(log[i].row)

\* The cache never runs ahead of the log: what a fragment says happened, did.
FragmentsNeverLead ==
  \A r \in Row : frag[r] \in Lifecycle =>
    \E i \in DOMAIN log : log[i].row = r /\ LifecycleOf(log[i].type) = frag[r]

\* What self_register reports is a fact of the log, whatever stale fragments it
\* went by: launched rows are launched, closed ones cancelled.
ResultsAreTruthful ==
  \A p \in Process : result[p] # NoResult =>
    /\ result[p].status \in {"launched", "already_launched"}
         => InLog(Launched(result[p].row), log)
    /\ result[p].status \in {"not_launchable", "cancelled"}
         => InLog(Cancelled(result[p].row), log)

\* What the log says has happened to a handoff, and the launch that a call has
\* recorded and not yet reported.
Past(r) == {t \in {"emitted", "launched", "cancelled"} : InLog(Event(t, r), log)}

Launching(p) ==
  IF /\ job[p].kind \in {"exact", "fuzzy"}
     /\ \/ pc[p] = "projecting"
        \/ pc[p] \in {"rebuilding", "restoring"} /\ job[p].then = "done"
    THEN job[p].row ELSE NoRow

Told(p) ==
  IF result[p] = NoResult THEN [row |-> NoRow, status |-> "none"]
  ELSE [row |-> result[p].row, status |-> result[p].status]

Register == INSTANCE HandoffRegister WITH
  past <- [r \in Row |-> Past(r)],
  launching <- [p \in Process |-> Launching(p)],
  answer <- [p \in Process |-> Told(p)]

\* Every launched handoff was launched by one call, which alone is told so, and
\* never once it is cancelled; what any call is told of a handoff is a fact of the
\* log, whatever stale fragments it went by and whoever raced it; and the log says
\* of a handoff only what may happen to one, in that order.
ImplementsHandoffRegister == Register!Spec

\* An emitted handoff is found by its id, also while its fragment is not there
\* yet, or is lost or corrupt; only a file damaged during the call hides it.
ExactNeverMisses ==
  \A p \in Process : result[p] # NoResult =>
    ~(result[p].kind = "exact" /\ result[p].unhurt
      /\ result[p].status \in {"not_found", "error"})

\* The launch of a row found by its place, on undamaged fragments.
LaunchesByPlace(p) ==
  /\ job[p].kind = "fuzzy" /\ job[p].unhurt
  /\ pc[p] = "appending" /\ pc'[p] = "projecting"

\* The other rows of that place, of those the log has open until then.
Rivals(p, rows) ==
  {r \in rows \cap LogOpen(log) : r # job[p].row /\ PlaceOf[r] = job[p].place}

\* A launch by place is no guess: no other row of that place was open, from
\* before the call until the launch is recorded.
FuzzyNeverGuesses ==
  [][\A p \in Process : LaunchesByPlace(p) => Rivals(p, job[p].already) = {}]_vars

\* What does hold: nor any whose fragment showed it when the call began, even if
\* rebuilds of other processes overwrite the fragments while they are compared.
FuzzyRefusesShownRivals ==
  [][\A p \in Process :
       LaunchesByPlace(p) => Rivals(p, job[p].already \cap job[p].shown) = {}]_vars

=============================================================================
