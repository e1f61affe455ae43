----------------------------- MODULE DoneLadder -----------------------------
(***************************************************************************)
(* The done ladder (core/done.py) and the cached level of each node        *)
(* (core/projection.py): fleet done advance, run by concurrent processes.  *)
(* A level is reached one rung at a time, on evidence; the log is the      *)
(* truth, and each advance folds its own event onto the node's fragment    *)
(* afterwards, without a lock.                                             *)
(*                                                                         *)
(* Rungs are their positions: 0 = D0-code, 1 = D1-merged, 2 = D2-test,     *)
(* 3 = D3-uat, 4 = D4-prod.                                                *)
(***************************************************************************)
EXTENDS AppendLog, SequencesExt

CONSTANTS
  Process,
  Node,
  InitialLogs,   \* logs to start from
  Requests,      \* what fleet done advance is called with
  absent,        \* no fragment file
  corrupt,       \* an unreadable one
  MaxCalls,      \* bound: calls in a behaviour
  MaxMishaps     \* bound: crashed processes, damaged or deleted fragment files

Rung == 0 .. 4

Proof == {"merge", "deploy", "ci"}    \* evidence: commit or pr, deploy_id, ci_run

AllRequests ==
  [node : Node, target : Rung, ceiling : Rung,
   evidence : SUBSET Proof, human : BOOLEAN]

ASSUME FileAssumption == absent \notin Rung /\ corrupt \notin Rung
ASSUME RequestsAssumption == Requests \subseteq AllRequests

VARIABLES
  frag,      \* each node's fragment file: its done_level, or absent or corrupt
  pc,        \* where each process is
  job,       \* the request it works on
  loaded,    \* project_event: the level it read from the fragment
  seen,      \* rebuild: how much of the log it replays
  left,      \* rebuild: nodes whose fragment it has still to write
  result,    \* how its last call ended
  calls, mishaps

vars == <<log, frag, pc, job, loaded, seen, left, result, calls, mishaps>>

Key(n, k) == <<"done", n, k>>

Advanced(r) ==
  [key |-> Key(r.node, r.target), node |-> r.node, level |-> r.target,
   evidence |-> r.evidence, human |-> r.human]

ASSUME LogsAssumption == InitialLogs \subseteq Seq({Advanced(r) : r \in AllRequests})

\* fold_done_level: only a step to the next rung counts.
FoldDoneLevel(current, e) == IF e.level = current + 1 THEN e.level ELSE current

\* _current_level, and the done_level of rebuild: the fold over a node's events.
CurrentLevel(l, n) ==
  FoldLeft(LAMBDA k, e : IF e.node = n THEN FoldDoneLevel(k, e) ELSE k, 0, l)

\* Mutant: either kind of evidence will do for D2-test.
GateEither(k, evidence, human) ==
  /\ k = 1 => "merge" \in evidence
  /\ k = 2 => evidence \cap {"deploy", "ci"} # {}
  /\ k \in {3, 4} => human

\* What a rung asks for: merge evidence, both deploy and test evidence, or a
\* human approver.
Gate(k, evidence, human) ==
  /\ k = 1 => "merge" \in evidence
  /\ k = 2 => {"deploy", "ci"} \subseteq evidence
  /\ k \in {3, 4} => human

NoJob == [node |-> "none"]
NoResult == [status |-> "none"]

Init ==
  /\ log \in InitialLogs
  /\ frag = [n \in Node |-> absent]
  /\ pc = [p \in Process |-> "idle"]
  /\ job = [p \in Process |-> NoJob]
  /\ loaded = [p \in Process |-> 0]
  /\ seen = [p \in Process |-> 0]
  /\ left = [p \in Process |-> {}]
  /\ result = [p \in Process |-> NoResult]
  /\ calls = 0 /\ mishaps = 0
-----------------------------------------------------------------------------
Go(p, at) == pc' = [pc EXCEPT ![p] = at]

Return(p, status) ==
  /\ Go(p, "idle")
  /\ result' = [result EXCEPT ![p] =
       [node |-> job[p].node, target |-> job[p].target, status |-> status]]
  /\ job' = [job EXCEPT ![p] = NoJob]
  /\ loaded' = [loaded EXCEPT ![p] = 0]
  /\ seen' = [seen EXCEPT ![p] = 0]
  /\ left' = [left EXCEPT ![p] = {}]

stay == <<job, loaded, seen, left, result>>
world == <<log, frag, calls, mishaps>>

\* advance: the checks on its arguments alone; a failing one ends the call.
CallAdvance(p) ==
  /\ pc[p] = "idle"
  /\ calls < MaxCalls
  /\ \E r \in Requests :
       /\ r.target <= r.ceiling
       /\ Gate(r.target, r.evidence, r.human)
       /\ job' = [job EXCEPT ![p] = r]
  /\ calls' = calls + 1
  /\ Go(p, "checking")
  /\ result' = [result EXCEPT ![p] = NoResult]
  /\ UNCHANGED <<log, frag, loaded, seen, left, mishaps>>

\* Mutant: any higher rung may be asked for.
AnyRungUp(r) == r.target > CurrentLevel(log, r.node)

\* _reject_unless_single_rung_forward
OneRungUp(r) == r.target = CurrentLevel(log, r.node) + 1

\* The fast fail, on an unlocked read.
Check(p) ==
  /\ pc[p] = "checking"
  /\ IF OneRungUp(job[p])
       THEN Go(p, "appending") /\ UNCHANGED stay
       ELSE Return(p, "rejected")
  /\ UNCHANGED world

\* _precondition, on the log as it is under the lock.
StillAdjacent(r) == OneRungUp(r)

AppendEvent(p) ==
  /\ pc[p] = "appending"
  /\ LET e == Advanced(job[p])
     IN  \/ /\ Record(e, StillAdjacent(job[p]))
            /\ Go(p, "loading") /\ UNCHANGED stay
         \/ /\ Recorded(e)
            /\ Go(p, "verifying") /\ UNCHANGED stay
         \/ /\ Refused(e, StillAdjacent(job[p]))
            /\ Return(p, "rejected")
  /\ UNCHANGED <<frag, calls, mishaps>>

\* Mutant: a lock timeout is taken for a success, and the event projected.
TimeoutProjects(p) ==
  /\ pc[p] = "appending"
  /\ Go(p, "loading") /\ UNCHANGED stay
  /\ UNCHANGED world

\* LockTimeoutError: nothing was written.
Timeout(p) ==
  /\ pc[p] = "appending"
  /\ Return(p, "timeout")
  /\ UNCHANGED world

\* After a dedupe: event_for must find an event of the target level.
Verify(p) ==
  /\ pc[p] = "verifying"
  /\ IF \A i \in DOMAIN log :
          log[i].key = Key(job[p].node, job[p].target) => log[i].level = job[p].target
       THEN Go(p, "loading") /\ UNCHANGED stay
       ELSE Return(p, "rejected")
  /\ UNCHANGED world
-----------------------------------------------------------------------------
\* _cmd_done_advance projects the recorded event: project_event reads the
\* fragment (a corrupt one makes it a rebuild) ...
Load(p) ==
  /\ pc[p] = "loading"
  /\ LET f == frag[job[p].node]
     IN  IF f = corrupt
           THEN Go(p, "rebuilding") /\ UNCHANGED loaded
           ELSE /\ Go(p, "storing")
                /\ loaded' = [loaded EXCEPT ![p] = IF f = absent THEN 0 ELSE f]
  /\ UNCHANGED <<world, job, seen, left, result>>

\* ... and writes it back with the event folded onto it.
Store(p) ==
  /\ pc[p] = "storing"
  /\ frag' = [frag EXCEPT ![job[p].node] = FoldDoneLevel(loaded[p], Advanced(job[p]))]
  /\ Return(p, "advanced")
  /\ UNCHANGED <<log, calls, mishaps>>

\* rebuild replays the log as it is now ...
RebuildRead(p) ==
  /\ pc[p] = "rebuilding"
  /\ seen' = [seen EXCEPT ![p] = Len(log)]
  /\ left' = [left EXCEPT ![p] = {log[i].node : i \in DOMAIN log}]
  /\ Go(p, "restoring")
  /\ UNCHANGED <<world, job, loaded, result>>

\* ... and writes one fragment after the other, in order of first appearance.
RebuildWrite(p) ==
  /\ pc[p] = "restoring"
  /\ LET l == SubSeq(log, 1, seen[p])
     IN  \E n \in left[p], i \in DOMAIN l :
           /\ l[i].node = n
           /\ \A j \in DOMAIN l : l[j].node \in left[p] => i <= j
           /\ frag' = [frag EXCEPT ![n] = CurrentLevel(l, n)]
           /\ left' = [left EXCEPT ![p] = @ \ {n}]
  /\ UNCHANGED <<log, pc, job, loaded, seen, result, calls, mishaps>>

RebuildDone(p) ==
  /\ pc[p] = "restoring"
  /\ left[p] = {}
  /\ Return(p, "advanced")
  /\ UNCHANGED world

Crash(p) ==
  /\ pc[p] # "idle"
  /\ mishaps < MaxMishaps
  /\ mishaps' = mishaps + 1
  /\ Return(p, "crashed")
  /\ UNCHANGED <<log, frag, calls>>

\* A fragment file is lost or becomes unreadable.
Damage(n) ==
  /\ frag[n] \in Rung
  /\ mishaps < MaxMishaps
  /\ mishaps' = mishaps + 1
  /\ \E f \in {absent, corrupt} : frag' = [frag EXCEPT ![n] = f]
  /\ UNCHANGED <<log, pc, stay, calls>>

Step(p) ==
  \/ Check(p) \/ AppendEvent(p) \/ Timeout(p) \/ Verify(p) \/ Load(p) \/ Store(p)
  \/ RebuildRead(p) \/ RebuildWrite(p) \/ RebuildDone(p)

Next ==
  \/ \E p \in Process : CallAdvance(p) \/ Step(p) \/ Crash(p)
  \/ \E n \in Node : Damage(n)

Spec == Init /\ [][Next]_vars
-----------------------------------------------------------------------------
TypeOK ==
  /\ \A i \in DOMAIN log : log[i].node \in Node /\ log[i].level \in Rung
  /\ \A p \in Process :
       /\ pc[p] = "idle" <=> job[p] = NoJob
       /\ loaded[p] # 0 => pc[p] = "storing"
       /\ left[p] # {} => pc[p] = "restoring"
       /\ \A n \in left[p] : \E i \in 1 .. seen[p] : log[i].node = n

\* Every recorded rung follows the rung below it, whoever raced for which: the
\* log of an unforged project holds nothing that its own fold would ignore.
RungsInOrder ==
  \A i \in DOMAIN log :
    log[i].level = CurrentLevel(SubSeq(log, 1, i - 1), log[i].node) + 1

\* A level is earned: whatever else stands in the log, each rung up to a node's
\* level was recorded with that rung's own evidence or approver.
LevelIsEarned ==
  \A n \in Node : \A k \in 1 .. CurrentLevel(log, n) :
    \E i \in DOMAIN log :
      /\ log[i].node = n /\ log[i].level = k
      /\ {"merge"} \subseteq log[i].evidence \/ k # 1
      /\ {"deploy", "ci"} \subseteq log[i].evidence \/ k # 2
      /\ log[i].human \/ k < 3

\* The cache never runs ahead of the log: no reader of a fragment takes a node
\* for further than it is.
FragmentsNeverLead ==
  \A n \in Node : frag[n] \in Rung => frag[n] <= CurrentLevel(log, n)

\* With every call returned, and without a mishap, a fragment and the log agree
\* on the node's level (core/projection.py: they "can never disagree, on any
\* log, forged or not").
FragmentsAgree ==
  (mishaps = 0 /\ \A p \in Process : pc[p] = "idle")
  => \A n \in Node : frag[n] \in Rung => frag[n] = CurrentLevel(log, n)
=============================================================================
