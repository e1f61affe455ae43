----------------------------- MODULE EdgeGraph ------------------------------
(***************************************************************************)
(* Dependency edges (core/edges.py): add_edge, run by concurrent           *)
(* processes, and resolve_graph, which replays the log.  The ordering      *)
(* types say who must come first; an edge that would close a cycle of that *)
(* relation is flagged instead of stored, by a second append.              *)
(***************************************************************************)
EXTENDS AppendLog, SequencesExt

CONSTANTS
  Process,
  Node,
  InitialLogs,   \* logs to start from: empty, or with forged edges
  MaxCalls       \* bound: calls in a behaviour

OrderingTypes == {"blocked-by", "feeds-into"}
EdgeTypes == OrderingTypes \cup {"contends-for", "serves"}

AllEdges == [src : Node, type : EdgeTypes, dst : Node]

CONSTANT Edges    \* the edges callers may ask for, self edges included

ASSUME EdgesAssumption == Edges \subseteq AllEdges

VARIABLES
  pc,        \* where each process is
  job,       \* the edge it was asked to add
  result,    \* how its last call ended
  calls

vars == <<log, pc, job, result, calls>>

EdgeEvent(e)  == [kind |-> "edge",  edge |-> e, key |-> <<"edge", e>>]
CycleEvent(e) == [kind |-> "cycle", edge |-> e, key |-> <<"cycle", e>>]

\* An edge that append took from elsewhere, under a key of its own.
ForgedEdge(e) == [kind |-> "edge", edge |-> e, key |-> <<"forged", e>>]

Ordering(e) == e.type \in OrderingTypes

\* <<u, v>>: u must come before v.
PrecedencePair(e) ==
  IF e.type = "blocked-by" THEN <<e.dst, e.src>> ELSE <<e.src, e.dst>>

\* The persisted edges that count: a self edge is skipped on read.
EdgesIn(l) == {l[i].edge : i \in {j \in DOMAIN l : l[j].kind = "edge"}}
Pairs(es) == {PrecedencePair(e) : e \in {f \in es : Ordering(f) /\ f.src # f.dst}}

\* What can be reached from a node in one or more steps: the least set that
\* holds its successors and the successors of its members.
Closed(pairs, start, S) ==
  \A x \in pairs : x[1] = start \/ x[1] \in S => x[2] \in S
ReachableFrom(pairs, start) ==
  {n \in Node : \A S \in SUBSET Node : Closed(pairs, start, S) => n \in S}

\* Mutant: only a direct edge back counts as a cycle.
WouldCloseTwoCycle(pairs, x) == <<x[2], x[1]>> \in pairs

\* _would_close_cycle: v already comes before u.
WouldCloseCycle(pairs, x) == x[1] \in ReachableFrom(pairs, x[2])

\* Mutant: an edge that closes a cycle is resolved all the same.
ResolveStepAll(g, ev) ==
  IF ev.kind # "edge" \/ ev.edge.src = ev.edge.dst THEN g
  ELSE [edges |-> g.edges \cup {ev.edge}, pairs |-> g.pairs \cup Pairs({ev.edge})]

\* resolve_graph takes an edge unless it is malformed or closes a cycle with
\* the ordering edges taken before it.
ResolveStep(g, ev) ==
  LET e == ev.edge
  IN  IF \/ ev.kind # "edge" \/ e.src = e.dst
         \/ Ordering(e) /\ WouldCloseCycle(g.pairs, PrecedencePair(e))
        THEN g
        ELSE [edges |-> g.edges \cup {e}, pairs |-> g.pairs \cup Pairs({e})]

Resolved(l) == FoldLeft(ResolveStep, [edges |-> {}, pairs |-> {}], l)
-----------------------------------------------------------------------------
NoJob == [type |-> "none"]
NoResult == [status |-> "none"]

Init ==
  /\ log \in InitialLogs
  /\ pc = [p \in Process |-> "idle"]
  /\ job = [p \in Process |-> NoJob]
  /\ result = [p \in Process |-> NoResult]
  /\ calls = 0

Return(p, status) ==
  /\ pc' = [pc EXCEPT ![p] = "idle"]
  /\ job' = [job EXCEPT ![p] = NoJob]
  /\ result' = [result EXCEPT ![p] = [edge |-> job[p], status |-> status]]

\* add_edge; an edge from a node to itself is a ValueError.
CallAddEdge(p) ==
  /\ pc[p] = "idle"
  /\ calls < MaxCalls
  /\ \E e \in Edges : e.src # e.dst /\ job' = [job EXCEPT ![p] = e]
  /\ pc' = [pc EXCEPT ![p] = "appending"]
  /\ result' = [result EXCEPT ![p] = NoResult]
  /\ calls' = calls + 1
  /\ UNCHANGED log

\* _no_cycle_precondition, for the ordering types: under the lock, against all
\* persisted ordering edges.
ClosesNoCycle(e) ==
  Ordering(e) => ~WouldCloseCycle(Pairs(EdgesIn(log)), PrecedencePair(e))

AppendEdge(p) ==
  /\ pc[p] = "appending"
  /\ LET e == job[p]
     IN  \/ Record(EdgeEvent(e), ClosesNoCycle(e)) /\ Return(p, "added")
         \/ Recorded(EdgeEvent(e)) /\ Return(p, "deduped")
         \/ /\ Refused(EdgeEvent(e), ClosesNoCycle(e))
            /\ pc' = [pc EXCEPT ![p] = "flagging"]
            /\ UNCHANGED <<job, result>>
  /\ UNCHANGED calls

\* _flag_cycle: an append of its own, without a precondition.
FlagCycle(p) ==
  /\ pc[p] = "flagging"
  /\ Record(CycleEvent(job[p]), TRUE) \/ Recorded(CycleEvent(job[p]))
  /\ Return(p, "cycle_flagged")
  /\ UNCHANGED calls

\* Mutant: a lock timeout is taken for the refusal of the edge.
TimeoutFlags(p) ==
  /\ pc[p] = "appending"
  /\ pc' = [pc EXCEPT ![p] = "flagging"]
  /\ UNCHANGED <<log, job, result, calls>>

\* LockTimeoutError, in either append.
Timeout(p) ==
  /\ pc[p] # "idle"
  /\ Return(p, "timeout")
  /\ UNCHANGED <<log, calls>>

Crash(p) ==
  /\ pc[p] # "idle"
  /\ Return(p, "crashed")
  /\ UNCHANGED <<log, calls>>

Next ==
  \E p \in Process :
    CallAddEdge(p) \/ AppendEdge(p) \/ FlagCycle(p) \/ Timeout(p) \/ Crash(p)

Spec == Init /\ [][Next]_vars
-----------------------------------------------------------------------------
\* No edge from a node to itself is ever on its way into the log.
TypeOK ==
  /\ \A i \in DOMAIN log : log[i].kind \in {"edge", "cycle"} /\ log[i].edge \in AllEdges
  /\ \A p \in Process :
       /\ pc[p] \in {"idle", "appending", "flagging"}
       /\ pc[p] # "idle" => job[p] \in Edges /\ job[p].src # job[p].dst

\* What the two ordering types mean: m has to be done before n.
ComesBefore(es, m, n) ==
  \E e \in es : \/ e.type = "blocked-by" /\ e.src = n /\ e.dst = m
                \/ e.type = "feeds-into" /\ e.src = m /\ e.dst = n

\* Every set of nodes has one that waits for none of the others or itself.
NoCircularWait(es) ==
  \A S \in SUBSET Node :
    S # {} => \E n \in S : \A m \in S : ~ComesBefore(es, m, n)

\* What the next properties take for granted: add_edge alone wrote the log.
Unforged == \A i \in DOMAIN log : log[i].key[1] # "forged"

\* The edges that add_edge stored, of whatever edges the log holds.
StoredIn(l) ==
  {l[i].edge : i \in {j \in DOMAIN l : l[j].kind = "edge" /\ l[j].key[1] # "forged"}}

\* Whatever n leads to lies on one side, and m on the other.
KeptApart(es, m, n) ==
  \E S \in SUBSET Node :
    n \in S /\ m \notin S /\ \A i \in S, j \in Node : ComesBefore(es, i, j) => j \in S

\* No edge that add_edge stores ever lies on a circle, whatever forged edges the
\* log began with, whoever adds edges at the same time and whichever way the
\* ordering types point: its end never leads back to its start.  So the nodes never
\* wait for each other in a circle, unless somebody forged a whole one.
OrderingIsAcyclic ==
  /\ \A e \in StoredIn(log) : \A m, n \in Node :
       ComesBefore({e}, m, n) => KeptApart(EdgesIn(log), m, n)
  /\ Unforged => NoCircularWait(EdgesIn(log))

\* Nor do the edges that readers resolve, whatever the log holds, forged edges
\* included (resolve_graph checks again); and on a log that the program wrote this
\* second exclusion of cycles drops no stored edge.
ReadersKeepTheStoredOrder ==
  /\ NoCircularWait(Resolved(log).edges)
  /\ Unforged => Resolved(log).edges = EdgesIn(log)

\* An edge is flagged or stored, not both: a flag is final, although it is
\* written by a second append and the log grows in between.
FlaggedIsNeverStored ==
  Unforged =>
    \A i \in DOMAIN log : log[i].kind = "cycle" => log[i].edge \notin EdgesIn(log)
=============================================================================
