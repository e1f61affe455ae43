---------------------------- MODULE HandoffProofs ----------------------------
(***************************************************************************)
(* Theorems of Handoff, for any processes, handoffs, places and bounds.    *)
(* The invariants of the runs are not inductive: what a call reports, and  *)
(* what it writes into a fragment file, rests on what it learnt earlier in *)
(* the call, so Inv adds what a process knows at each point of its call.   *)
(* A rebuild writes what the last event of a row says: that a last one     *)
(* exists is the well-foundedness of < on the naturals.                    *)
(***************************************************************************)
EXTENDS Handoff, WellFoundedInduction, NaturalsInduction, TLAPS

EventTypes == {"emitted", "launched", "cancelled"}
Events == {Event(t, r) : t \in EventTypes, r \in Row}

Kinds == {"emit", "exact", "fuzzy", "cancel"}
Continuations == {"idle", "reading", "rescanning", "refilling", "done"}
Points ==
  {"idle", "finding", "scanning", "rescanning", "listing", "comparing", "refilling",
   "reading", "appending", "projecting", "returning", "rebuilding", "restoring"}

Jobs ==
  [kind : Kinds, row : Row \cup {NoRow}, place : Place, rebuilt : BOOLEAN,
   then : Continuations, awaiting : SUBSET Row, open : SUBSET Row,
   already : SUBSET Row, shown : SUBSET Row, unhurt : BOOLEAN]

Shapes ==
  /\ log \in Seq(Events)
  /\ frag \in [Row -> Lifecycle \cup {"absent", "corrupt"}]
  /\ pc \in [Process -> Points]
  /\ job \in [Process -> Jobs \cup {NoJob}]
  /\ seen \in [Process -> Nat]
  /\ left \in [Process -> SUBSET Row]
  /\ DOMAIN result = Process

\* Where a process is, counting a rebuild as part of what it goes on with.
Busy(p, points) ==
  pc[p] \in points \/ (pc[p] \in {"rebuilding", "restoring"} /\ job[p].then \in points)

\* What the call of a process is, and what it knows, where it stands.
Stage(p) ==
  /\ pc[p] = "idle" <=> job[p] = NoJob
  /\ pc[p] \in {"rebuilding", "restoring"} => job[p].then # "idle"
  /\ pc[p] = "finding" => job[p].kind = "exact" /\ ~job[p].rebuilt
  /\ Busy(p, {"scanning", "rescanning", "listing", "comparing", "refilling"})
       => job[p].kind = "fuzzy"
  /\ Busy(p, {"reading"}) => job[p].kind \in {"exact", "fuzzy"}
  /\ pc[p] = "returning" => job[p].kind = "cancel"
  /\ job[p].kind \in {"emit", "exact", "cancel"} => job[p].row \in Row
  /\ Busy(p, {"reading", "appending", "projecting", "returning", "done"})
       => job[p].row \in Row

\* What it found in the log is still there.
Facts(p) ==
  /\ pc[p] # "idle" => \A r \in job[p].open : InLog(Emitted(r), log)
  /\ job[p].kind \in {"exact", "fuzzy"} /\ pc[p] # "finding" /\ job[p].row \in Row
       => InLog(Emitted(job[p].row), log)
  /\ Busy(p, {"projecting", "returning", "done"}) => InLog(EventOf(job[p]), log)

\* A rebuild has still to write the rows it read, and no others.
Replay(p) ==
  /\ seen[p] <= Len(log)
  /\ left[p] # {} => pc[p] = "restoring"
  /\ \A r \in left[p] : \E i \in 1 .. seen[p] : log[i].row = r

\* After the rebuild of a call by id its row has a readable fragment, or is
\* about to be written, unless a file was damaged.
Found(p) ==
  job[p].kind = "exact" /\ job[p].unhurt /\ job[p].rebuilt =>
    /\ pc[p] = "reading" => frag[job[p].row] \in Lifecycle
    /\ pc[p] = "restoring" /\ job[p].then = "reading"
         => job[p].row \in left[p] \/ frag[job[p].row] \in Lifecycle

Truthful(p) ==
  result[p] # NoResult =>
    /\ result[p].status \in {"launched", "already_launched"}
         => InLog(Launched(result[p].row), log)
    /\ result[p].status \in {"not_launchable", "cancelled"}
         => InLog(Cancelled(result[p].row), log)

Hit(p) ==
  result[p] # NoResult =>
    ~(result[p].kind = "exact" /\ result[p].unhurt
      /\ result[p].status \in {"not_found", "error"})

Knows(p) == Stage(p) /\ Facts(p) /\ Replay(p) /\ Found(p) /\ Truthful(p) /\ Hit(p)

Inv ==
  /\ Shapes
  /\ NoLaunchAfterCancel
  /\ FragmentsNeverLead
  /\ \A p \in Process : Knows(p)
-----------------------------------------------------------------------------
(***************************************************************************)
(* The log as data.                                                        *)
(***************************************************************************)
Less == {x \in Nat \X Nat : x[1] < x[2]}

LEMMA LessIsWellFounded == IsWellFoundedOn(Less, Nat)
<1>1. OpToRel(<, Nat) = Less
  BY DEF OpToRel, Less
<1> QED BY <1>1, NatLessThanWellFounded

\* A nonempty set of positions has a last one.
LEMMA HasLast ==
  ASSUME NEW n \in Nat, NEW S \in SUBSET (1 .. n), S # {}
  PROVE  \E i \in S : \A j \in S : j <= i
<1> DEFINE T == {n - i : i \in S}
<1>1. T \in SUBSET Nat /\ T # {}
  <2>1. \A i \in S : n - i \in Nat
    OBVIOUS
  <2> QED BY <2>1
<1>2. PICK x \in T : \A y \in T : ~(<<y, x>> \in Less)
  <2> HIDE DEF T
  <2> QED BY <1>1, LessIsWellFounded, WFMin
<1>3. PICK i \in S : x = n - i
  BY <1>2
<1>4. ASSUME NEW j \in S PROVE j <= i
  <2>1. n - j \in T /\ n - j \in Nat /\ n - i \in Nat /\ i \in Nat /\ j \in Nat
    BY <1>1
  <2>2. ~(n - j < n - i)
    <3>1. ~(<<n - j, n - i>> \in Less)
      BY <1>2, <1>3, <2>1
    <3> QED BY <3>1, <2>1 DEF Less
  <2> QED BY <2>1, <2>2
<1> QED BY <1>4

\* An event is determined by its type and its row, and so is its key.
LEMMA EventShape ==
  ASSUME NEW e \in Events
  PROVE  /\ e.type \in EventTypes /\ e.row \in Row /\ e.key = <<e.type, e.row>>
         /\ e = Event(e.type, e.row)
BY DEF Events, Event

LEMMA LifecycleShape ==
  ASSUME NEW t \in EventTypes
  PROVE  /\ LifecycleOf(t) \in Lifecycle
         /\ LifecycleOf(t) = "awaiting-launch" => t = "emitted"
         /\ LifecycleOf(t) = "active" => t = "launched"
         /\ LifecycleOf(t) = "cancelled" => t = "cancelled"
BY DEF LifecycleOf, Lifecycle, EventTypes

\* A recorded key is the key of the event itself.
LEMMA KeyIsEvent ==
  ASSUME log \in Seq(Events), NEW e \in Events
  PROVE  e.key \in Keys(log) <=> InLog(e, log)
<1>1. ASSUME NEW i \in DOMAIN log, log[i].key = e.key PROVE log[i] = e
  <2>1. log[i] \in Events
    OBVIOUS
  <2> QED BY <1>1, <2>1, EventShape
<1> QED BY <1>1 DEF Keys, InLog

\* What a replay makes of a row that is in the log, one of its events says.
LEMMA ReplayedIsThere ==
  ASSUME NEW l \in Seq(Events), NEW r \in Row, Positions(l, r) # {}
  PROVE  \E i \in DOMAIN l : l[i].row = r /\ LifecycleOf(l[i].type) = Replayed(l, r)
<1>1. Positions(l, r) \in SUBSET (1 .. Len(l)) /\ Len(l) \in Nat
  BY DEF Positions
<1>2. \E i \in Positions(l, r) : \A j \in Positions(l, r) : j <= i
  BY <1>1, HasLast
<1>3. \E i \in Positions(l, r) : Replayed(l, r) = LifecycleOf(l[i].type)
  BY <1>2 DEF Replayed
<1> QED BY <1>3 DEF Positions

\* What an appended log keeps.
LEMMA AppendedLog ==
  ASSUME NEW l \in Seq(Events), NEW e \in Events
  PROVE  /\ Append(l, e) \in Seq(Events)
         /\ Len(Append(l, e)) = Len(l) + 1
         /\ DOMAIN Append(l, e) = 1 .. Len(l) + 1
         /\ DOMAIN l = 1 .. Len(l) /\ Len(l) \in Nat
         /\ \A i \in 1 .. Len(l) : Append(l, e)[i] = l[i]
         /\ Append(l, e)[Len(l) + 1] = e
OBVIOUS
-----------------------------------------------------------------------------
(***************************************************************************)
(* The frame: a step of one process only adds to the log and only writes   *)
(* readable fragments, so the others still know what they knew.            *)
(***************************************************************************)
Grows ==
  /\ Len(log) <= Len(log')
  /\ \A i \in 1 .. Len(log) : log'[i] = log[i]

LEMMA StaysInLog ==
  ASSUME log \in Seq(Events), log' \in Seq(Events), Grows, NEW e, InLog(e, log)
  PROVE  InLog(e, log')
<1>1. PICK i \in DOMAIN log : log[i] = e
  BY DEF InLog
<1>2. i \in DOMAIN log' /\ log'[i] = e
  BY <1>1 DEF Grows
<1> QED BY <1>2 DEF InLog

LEMMA OthersKnow ==
  ASSUME Shapes, Shapes', Grows, NEW q \in Process, Knows(q),
         \A r \in Row : frag'[r] = frag[r] \/ frag'[r] \in Lifecycle,
         pc'[q] = pc[q], job'[q] = job[q], seen'[q] = seen[q], left'[q] = left[q],
         result'[q] = result[q]
  PROVE  Knows(q)'
<1>1. \A e : InLog(e, log) => InLog(e, log')
  BY StaysInLog DEF Shapes
<1>2. Stage(q)'
  BY DEF Knows, Stage, Busy
<1>3. Facts(q)'
  <2>1. EventOf(job[q])' = EventOf(job[q])
    BY DEF EventOf, Emitted, Launched, Cancelled, Event
  <2>2. \A r : Emitted(r)' = Emitted(r)
    BY DEF Emitted, Event
  <2> QED BY <1>1, <2>1, <2>2 DEF Knows, Facts, Busy
<1>4. Replay(q)'
  <2>1. \A i \in 1 .. seen[q] : log'[i] = log[i]
    BY DEF Knows, Replay, Shapes, Grows
  <2>2. seen[q] \in Nat /\ Len(log) \in Nat /\ Len(log') \in Nat /\ Len(log) <= Len(log')
    BY DEF Shapes, Grows
  <2>3. seen'[q] <= Len(log')
    BY <2>2 DEF Knows, Replay
  <2>4. \A r \in left'[q] : \E i \in 1 .. seen'[q] : log'[i].row = r
    BY <2>1 DEF Knows, Replay
  <2> QED BY <2>3, <2>4 DEF Knows, Replay
<1>5. Found(q)'
  <2>1. Busy(q, {"reading"}) => job[q].row \in Row
    BY DEF Knows, Stage, Busy
  <2>2. SUFFICES ASSUME job[q].kind = "exact", job[q].unhurt, job[q].rebuilt
        PROVE  /\ pc[q] = "reading" => frag'[job[q].row] \in Lifecycle
               /\ pc[q] = "restoring" /\ job[q].then = "reading"
                    => job[q].row \in left[q] \/ frag'[job[q].row] \in Lifecycle
    BY DEF Found
  <2> QED BY <2>1, <2>2 DEF Knows, Found, Busy
<1>6. Truthful(q)'
  BY <1>1 DEF Knows, Truthful, Launched, Cancelled, Event, NoResult
<1>7. Hit(q)'
  BY DEF Knows, Hit, NoResult
<1> QED BY <1>2, <1>3, <1>4, <1>5, <1>6, <1>7 DEF Knows

LEMMA StepOfOne ==
  ASSUME Inv, NEW p \in Process, Shapes', Grows,
         NoLaunchAfterCancel', FragmentsNeverLead',
         \A r \in Row : frag'[r] = frag[r] \/ frag'[r] \in Lifecycle,
         \A q \in Process \ {p} :
           /\ pc'[q] = pc[q] /\ job'[q] = job[q] /\ seen'[q] = seen[q]
           /\ left'[q] = left[q] /\ result'[q] = result[q],
         Knows(p)'
  PROVE  Inv'
<1>1. ASSUME NEW q \in Process PROVE Knows(q)'
  <2>1. CASE q = p
    BY <2>1
  <2>2. CASE q # p
    BY <2>2, OthersKnow DEF Inv
  <2> QED BY <2>1, <2>2
<1> QED BY <1>1 DEF Inv

\* A step that touches neither the log nor a fragment.
LEMMA QuietStep ==
  ASSUME Inv, NEW p \in Process, UNCHANGED <<log, frag>>,
         pc' \in [Process -> Points], job' \in [Process -> Jobs \cup {NoJob}],
         seen' \in [Process -> Nat], left' \in [Process -> SUBSET Row],
         DOMAIN result' = Process,
         \A q \in Process \ {p} :
           /\ pc'[q] = pc[q] /\ job'[q] = job[q] /\ seen'[q] = seen[q]
           /\ left'[q] = left[q] /\ result'[q] = result[q],
         Knows(p)'
  PROVE  Inv'
<1>1. Shapes' /\ Grows
  BY DEF Inv, Shapes, Grows
<1>2. NoLaunchAfterCancel' /\ FragmentsNeverLead'
  BY DEF Inv, NoLaunchAfterCancel, FragmentsNeverLead
<1> QED BY <1>1, <1>2, StepOfOne
-----------------------------------------------------------------------------
LEMMA InitInv == Init => Inv
<1> SUFFICES ASSUME Init PROVE Inv
  OBVIOUS
<1>1. Shapes
  BY DEF Init, Shapes, Points
<1>2. NoLaunchAfterCancel /\ FragmentsNeverLead
  BY DEF Init, NoLaunchAfterCancel, FragmentsNeverLead, Lifecycle
<1>3. ASSUME NEW p \in Process PROVE Knows(p)
  BY DEF Init, Knows, Stage, Facts, Replay, Found, Truthful, Hit, Busy, NoJob
<1> QED BY <1>1, <1>2, <1>3 DEF Inv

\* A call begins: nothing is known yet but what it was called for.
LEMMA CallStep ==
  ASSUME Inv, NEW p \in Process, NEW j \in Jobs, NEW first \in Points,
         Call(p, j, first), first \notin {"idle", "rebuilding", "restoring", "returning"},
         first \in {"finding"} => j.kind = "exact",
         first \in {"scanning", "rescanning", "listing", "comparing", "refilling"}
           => j.kind = "fuzzy",
         first \notin {"reading", "projecting"},
         j.kind \in {"emit", "exact", "cancel"} => j.row \in Row,
         first = "appending" => j.row \in Row,
         j.open = {}, ~j.rebuilt,
         j.kind \in {"exact", "fuzzy"} /\ j.row \in Row => first = "finding"
  PROVE  Inv'
<1>1. /\ UNCHANGED <<log, frag, seen, left>>
      /\ pc' = [pc EXCEPT ![p] = first] /\ job' = [job EXCEPT ![p] = j]
      /\ result' = [result EXCEPT ![p] = NoResult]
      /\ pc[p] = "idle"
  BY DEF Call
<1>2. Shapes /\ Knows(p)
  BY DEF Inv
<1>3. /\ pc' \in [Process -> Points] /\ job' \in [Process -> Jobs \cup {NoJob}]
      /\ seen' \in [Process -> Nat] /\ left' \in [Process -> SUBSET Row]
      /\ DOMAIN result' = Process
      /\ pc'[p] = first /\ job'[p] = j /\ result'[p] = NoResult
      /\ seen'[p] = seen[p] /\ left'[p] = left[p] /\ log' = log
  BY <1>1, <1>2 DEF Shapes
<1>4. j # NoJob
  BY DEF Jobs, NoJob, Kinds
<1>5. Stage(p)'
  BY <1>3, <1>4 DEF Stage, Busy, Points
<1>6. Facts(p)'
  BY <1>3 DEF Facts, Busy, Points
<1>7. Replay(p)' /\ Found(p)' /\ Truthful(p)' /\ Hit(p)'
  BY <1>1, <1>2, <1>3 DEF Knows, Replay, Found, Truthful, Hit
<1>8. Knows(p)'
  BY <1>5, <1>6, <1>7 DEF Knows
<1>9. \A q \in Process \ {p} :
        /\ pc'[q] = pc[q] /\ job'[q] = job[q] /\ seen'[q] = seen[q]
        /\ left'[q] = left[q] /\ result'[q] = result[q]
  BY <1>1, <1>2 DEF Shapes
<1> QED BY <1>1, <1>3, <1>8, <1>9, QuietStep

LEMMA JobShape ==
  ASSUME NEW kind \in Kinds, NEW r \in Row \cup {NoRow}, NEW place \in Place
  PROVE  /\ Job(kind, r, place) \in Jobs
         /\ Job(kind, r, place).kind = kind /\ Job(kind, r, place).row = r
         /\ Job(kind, r, place).open = {} /\ ~Job(kind, r, place).rebuilt
BY DEF Job, Jobs, Continuations, LogOpen, Awaiting

LEMMA CallInv ==
  ASSUME Inv, NEW p \in Process, CallEmit(p) \/ CallExact(p) \/ CallFuzzy(p) \/ CallCancel(p)
  PROVE  Inv'
<1>1. CASE CallEmit(p)
  <2>1. PICK r \in Row : Call(p, Job("emit", r, PlaceOf[r]), "appending")
    BY <1>1 DEF CallEmit
  <2>2. PlaceOf[r] \in Place /\ "emit" \in Kinds /\ "appending" \in Points
    BY PlaceAssumption DEF Kinds, Points
  <2> QED BY <2>1, <2>2, JobShape, CallStep
<1>2. CASE CallExact(p)
  <2>1. PICK r \in Row : Call(p, Job("exact", r, PlaceOf[r]), "finding")
    BY <1>2 DEF CallExact
  <2>2. PlaceOf[r] \in Place /\ "exact" \in Kinds /\ "finding" \in Points
    BY PlaceAssumption DEF Kinds, Points
  <2> QED BY <2>1, <2>2, JobShape, CallStep
<1>3. CASE CallFuzzy(p)
  <2>1. PICK place \in Place : Call(p, Job("fuzzy", NoRow, place), "scanning")
    BY <1>3 DEF CallFuzzy
  <2>2. "fuzzy" \in Kinds /\ "scanning" \in Points
    BY DEF Kinds, Points
  <2>3. NoRow \notin Row
    BY NoRowAssumption
  <2> QED BY <2>1, <2>2, <2>3, JobShape, CallStep
<1>4. CASE CallCancel(p)
  <2>1. PICK r \in Row : Call(p, Job("cancel", r, PlaceOf[r]), "appending")
    BY <1>4 DEF CallCancel
  <2>2. PlaceOf[r] \in Place /\ "cancel" \in Kinds /\ "appending" \in Points
    BY PlaceAssumption DEF Kinds, Points
  <2> QED BY <2>1, <2>2, JobShape, CallStep
<1> QED BY <1>1, <1>2, <1>3, <1>4

\* A call ends with a report that is true of the log, and by its id a row is
\* missed only if a file was damaged.
Justified(p, status) ==
  /\ status \in {"launched", "already_launched"} => InLog(Launched(job[p].row), log)
  /\ status \in {"not_launchable", "cancelled"} => InLog(Cancelled(job[p].row), log)
  /\ status \in {"not_found", "error"} => job[p].kind # "exact" \/ ~job[p].unhurt

LEMMA Returned ==
  ASSUME Shapes, NEW p \in Process, NEW status, Return(p, status), log' = log,
         Justified(p, status)
  PROVE  /\ pc' \in [Process -> Points] /\ job' \in [Process -> Jobs \cup {NoJob}]
         /\ seen' \in [Process -> Nat] /\ left' \in [Process -> SUBSET Row]
         /\ DOMAIN result' = Process
         /\ \A q \in Process \ {p} :
              /\ pc'[q] = pc[q] /\ job'[q] = job[q] /\ seen'[q] = seen[q]
              /\ left'[q] = left[q] /\ result'[q] = result[q]
         /\ Knows(p)'
<1>1. /\ pc' = [pc EXCEPT ![p] = "idle"] /\ job' = [job EXCEPT ![p] = NoJob]
      /\ seen' = [seen EXCEPT ![p] = 0] /\ left' = [left EXCEPT ![p] = {}]
  BY DEF Return
<1>2. /\ pc' \in [Process -> Points] /\ job' \in [Process -> Jobs \cup {NoJob}]
      /\ seen' \in [Process -> Nat] /\ left' \in [Process -> SUBSET Row]
      /\ DOMAIN result' = Process
  BY <1>1 DEF Return, Shapes, Points
<1>3. \A q \in Process \ {p} :
        /\ pc'[q] = pc[q] /\ job'[q] = job[q] /\ seen'[q] = seen[q]
        /\ left'[q] = left[q] /\ result'[q] = result[q]
  BY DEF Return, Shapes
<1>4. /\ pc'[p] = "idle" /\ job'[p] = NoJob /\ seen'[p] = 0 /\ left'[p] = {}
      /\ result'[p] = [kind |-> job[p].kind, row |-> job[p].row, status |-> status,
                       unhurt |-> job[p].unhurt]
  BY DEF Return, Shapes
<1>5. Stage(p)' /\ Facts(p)' /\ Found(p)'
  BY <1>4 DEF Stage, Facts, Found, Busy, NoJob
<1>6. Replay(p)'
  <2>1. Len(log) \in Nat
    BY DEF Shapes
  <2> QED BY <1>4, <2>1 DEF Replay
<1>7. /\ result'[p].kind = job[p].kind /\ result'[p].row = job[p].row
      /\ result'[p].status = status /\ result'[p].unhurt = job[p].unhurt
  BY <1>4
<1>8. Truthful(p)' /\ Hit(p)'
  BY <1>7 DEF Truthful, Hit, Justified
<1> QED BY <1>2, <1>3, <1>5, <1>6, <1>8 DEF Knows

LEMMA ReturnInv ==
  ASSUME Inv, NEW p \in Process, NEW status, Return(p, status), UNCHANGED <<log, frag>>,
         Justified(p, status)
  PROVE  Inv'
BY Returned, QuietStep DEF Inv

\* A step to another point of the same call, knowing enough to be there.
LEMMA GoInv ==
  ASSUME Inv, NEW p \in Process, NEW at \in Points, NEW j \in Jobs,
         UNCHANGED <<log, frag>>, Go(p, at), job' = [job EXCEPT ![p] = j],
         pc[p] \notin {"idle", "restoring"}, at # "idle",
         Stage(p)', Facts(p)', Found(p)'
  PROVE  Inv'
<1>1. Shapes /\ Knows(p)
  BY DEF Inv
<1>2. /\ pc' \in [Process -> Points] /\ job' \in [Process -> Jobs \cup {NoJob}]
      /\ seen' \in [Process -> Nat] /\ left' \in [Process -> SUBSET Row]
      /\ DOMAIN result' = Process
      /\ \A q \in Process \ {p} :
           /\ pc'[q] = pc[q] /\ job'[q] = job[q] /\ seen'[q] = seen[q]
           /\ left'[q] = left[q] /\ result'[q] = result[q]
      /\ seen' = seen /\ left' = left /\ result' = result /\ log' = log
  BY <1>1 DEF Go, Shapes
<1>3. Replay(p)' /\ Truthful(p)' /\ Hit(p)'
  BY <1>1, <1>2 DEF Knows, Replay, Truthful, Hit
<1> QED BY <1>2, <1>3, QuietStep DEF Knows

\* The same call goes on, with its job as it was.
LEMMA GoOnInv ==
  ASSUME Inv, NEW p \in Process, NEW at \in Points \ {"idle", "finding", "restoring",
                                                     "returning", "projecting", "rebuilding"},
         UNCHANGED <<log, frag, job>>, Go(p, at),
         pc[p] \notin {"idle", "restoring"},
         at \in {"scanning", "rescanning", "listing", "comparing", "refilling"}
           => job[p].kind = "fuzzy",
         at = "reading" => job[p].kind \in {"exact", "fuzzy"} /\ ~job[p].rebuilt,
         at \in {"reading", "appending"} => job[p].row \in Row,
         pc[p] = "finding" => InLog(Emitted(job[p].row), log)
  PROVE  Inv'
<1>1. Shapes /\ Stage(p) /\ Facts(p) /\ Found(p)
  BY DEF Inv, Knows
<1>2. pc'[p] = at /\ job'[p] = job[p] /\ job' = [job EXCEPT ![p] = job[p]]
  BY <1>1 DEF Go, Shapes
<1>3. job[p] \in Jobs
  BY <1>1 DEF Shapes, Stage
<1>4. Stage(p)'
  BY <1>1, <1>2 DEF Stage, Busy, Points
<1>5. Facts(p)'
  BY <1>1, <1>2 DEF Facts, Busy, Points
<1>6. Found(p)'
  BY <1>1, <1>2 DEF Found
<1> QED BY <1>2, <1>3, <1>4, <1>5, <1>6, GoInv

\* A call asks for a rebuild.
LEMMA RebuildInv ==
  ASSUME Inv, NEW p \in Process, NEW then \in Continuations \ {"idle"},
         UNCHANGED <<log, frag>>, Rebuild(p, job[p], then),
         pc[p] \notin {"idle", "finding", "restoring"},
         then \in {"rescanning", "refilling"} => job[p].kind = "fuzzy",
         then = "reading" => job[p].kind \in {"exact", "fuzzy"} /\ job[p].row \in Row,
         then = "done" => job[p].row \in Row /\ InLog(EventOf(job[p]), log)
  PROVE  Inv'
<1>1. Shapes /\ Stage(p) /\ Facts(p)
  BY DEF Inv, Knows
<1>2. job[p] \in Jobs
  BY <1>1 DEF Shapes, Stage
<1> DEFINE j == [job[p] EXCEPT !.rebuilt = TRUE, !.then = then]
<1>3. /\ j \in Jobs /\ j.then = then /\ j.kind = job[p].kind /\ j.row = job[p].row
      /\ j.open = job[p].open
  BY <1>2 DEF Jobs
<1>4. /\ job' = [job EXCEPT ![p] = j] /\ Go(p, "rebuilding")
      /\ job'[p] = j /\ pc'[p] = "rebuilding"
  BY <1>1 DEF Rebuild, Go, Shapes
<1>5. "rebuilding" \in Points
  BY DEF Points
<1>6. EventOf(j) = EventOf(job[p])
  BY <1>3 DEF EventOf, Emitted, Launched, Cancelled, Event
<1> HIDE DEF j
<1>7. j # NoJob
  BY <1>3 DEF Jobs, Kinds, NoJob
<1>8. Stage(p)'
  BY <1>1, <1>3, <1>4, <1>7 DEF Stage, Busy, Continuations
<1>9. Facts(p)'
  <2>1. EventOf(job'[p]) = EventOf(job[p])
    BY <1>4, <1>6
  <2> QED BY <1>1, <1>3, <1>4, <2>1 DEF Facts, Busy, Continuations
<1>10. Found(p)'
  BY <1>4 DEF Found
<1> QED BY <1>3, <1>4, <1>5, <1>8, <1>9, <1>10, GoInv
-----------------------------------------------------------------------------
(***************************************************************************)
(* The search for a row.                                                   *)
(***************************************************************************)
LEMMA FindInv ==
  ASSUME Inv, NEW p \in Process, Find(p)
  PROVE  Inv'
<1>1. Stage(p) /\ pc[p] = "finding" /\ UNCHANGED <<log, frag>>
  BY DEF Inv, Knows, Find, world
<1>2. CASE InLog(Emitted(job[p].row), log)
  <2>1. Go(p, "reading") /\ UNCHANGED job
    BY <1>2 DEF Find
  <2>2. "reading" \in Points
    BY DEF Points
  <2> QED BY <1>1, <1>2, <2>1, <2>2, GoOnInv DEF Stage
<1>3. CASE ~InLog(Emitted(job[p].row), log)
  <2>1. Return(p, "rejected") /\ Justified(p, "rejected")
    BY <1>3 DEF Find, Justified
  <2> QED BY <1>1, <2>1, ReturnInv
<1> QED BY <1>2, <1>3

\* A fuzzy match takes a row that was emitted, or ends the call.
LEMMA MatchInv ==
  ASSUME Inv, NEW p \in Process, UNCHANGED <<log, frag>>,
         pc[p] \notin {"idle", "finding", "restoring"}, job[p].kind = "fuzzy",
         NEW awaiting, NEW open, \A r \in open : InLog(Emitted(r), log),
         Match(p, awaiting, open)
  PROVE  Inv'
<1>1. Shapes /\ Stage(p) /\ Facts(p) /\ job[p] \in Jobs
  BY DEF Inv, Knows, Shapes, Stage
<1>2. CASE Return(p, "not_found")
  BY <1>2, ReturnInv DEF Justified
<1>3. CASE Return(p, "ambiguous")
  BY <1>3, ReturnInv DEF Justified
<1>4. ASSUME NEW r \in Row, Candidates(p, awaiting, open) = {r}, Go(p, "reading"),
             job' = [job EXCEPT ![p] = [@ EXCEPT !.row = r, !.rebuilt = FALSE]]
      PROVE  Inv'
  <2> DEFINE j == [job[p] EXCEPT !.row = r, !.rebuilt = FALSE]
  <2>1. /\ j \in Jobs /\ j.kind = "fuzzy" /\ j.row = r /\ ~j.rebuilt /\ j.open = job[p].open
    BY <1>1 DEF Jobs
  <2>2. job' = [job EXCEPT ![p] = j] /\ job'[p] = j /\ pc'[p] = "reading"
    BY <1>1, <1>4 DEF Go, Shapes
  <2>3. InLog(Emitted(r), log)
    BY <1>4 DEF Candidates
  <2>4. j # NoJob
    BY <2>1 DEF NoJob
  <2> HIDE DEF j
  <2>5. Stage(p)'
    BY <2>1, <2>2, <2>4 DEF Stage, Busy
  <2>6. Facts(p)'
    BY <1>1, <2>1, <2>2, <2>3 DEF Facts, Busy
  <2>7. Found(p)'
    BY <2>1, <2>2 DEF Found
  <2>8. "reading" \in Points
    BY DEF Points
  <2> QED BY <1>4, <2>1, <2>2, <2>5, <2>6, <2>7, <2>8, GoInv
<1> QED BY <1>2, <1>3, <1>4 DEF Match

\* A fuzzy call notes what it read, and goes on.
LEMMA NoteInv ==
  ASSUME Inv, NEW p \in Process, UNCHANGED <<log, frag>>,
         pc[p] \notin {"idle", "finding", "restoring"}, job[p].kind = "fuzzy",
         NEW at \in {"listing", "comparing"}, Go(p, at),
         NEW j \in Jobs, job' = [job EXCEPT ![p] = j],
         j.kind = "fuzzy", j.row = job[p].row,
         \A r \in j.open : InLog(Emitted(r), log)
  PROVE  Inv'
<1>1. Shapes /\ Stage(p) /\ Facts(p)
  BY DEF Inv, Knows
<1>2. job'[p] = j /\ pc'[p] = at /\ at \in Points
  BY <1>1 DEF Go, Shapes, Points
<1>3. j # NoJob
  BY DEF NoJob
<1>4. Stage(p)'
  BY <1>1, <1>2, <1>3 DEF Stage, Busy
<1>5. Facts(p)'
  BY <1>1, <1>2 DEF Facts, Busy
<1>6. Found(p)'
  BY <1>2 DEF Found
<1> QED BY <1>2, <1>4, <1>5, <1>6, GoInv

LEMMA ScanInv ==
  ASSUME Inv, NEW p \in Process, Scan(p) \/ Rescan(p)
  PROVE  Inv'
<1>1. /\ Shapes /\ Stage(p) /\ Facts(p) /\ UNCHANGED <<log, frag>>
      /\ pc[p] \in {"scanning", "rescanning"}
  BY DEF Inv, Knows, Scan, Rescan, world
<1>2. job[p].kind = "fuzzy" /\ job[p] \in Jobs
  BY <1>1 DEF Stage, Busy, Shapes
<1>3. CASE Rebuild(p, job[p], "rescanning")
  <2>1. "rescanning" \in Continuations \ {"idle"}
    BY DEF Continuations
  <2> QED BY <1>1, <1>2, <1>3, <2>1, RebuildInv
<1>4. CASE job' = [job EXCEPT ![p].awaiting = Awaiting] /\ Go(p, "listing")
  <2> DEFINE j == [job[p] EXCEPT !.awaiting = Awaiting]
  <2>1. Awaiting \in SUBSET Row
    BY DEF Awaiting
  <2>2. j \in Jobs /\ j.kind = "fuzzy" /\ j.row = job[p].row /\ j.open = job[p].open
    BY <1>2, <2>1 DEF Jobs
  <2>3. job' = [job EXCEPT ![p] = j]
    BY <1>1, <1>4 DEF Shapes
  <2> HIDE DEF j
  <2>4. \A r \in j.open : InLog(Emitted(r), log)
    BY <1>1, <2>2 DEF Facts
  <2> QED BY <1>1, <1>2, <1>4, <2>2, <2>3, <2>4, NoteInv
<1> QED BY <1>3, <1>4 DEF Scan, Rescan

LEMMA ListInv ==
  ASSUME Inv, NEW p \in Process, List(p)
  PROVE  Inv'
<1>1. /\ Shapes /\ Stage(p) /\ UNCHANGED <<log, frag>> /\ pc[p] = "listing"
  BY DEF Inv, Knows, List, world
<1>2. job[p].kind = "fuzzy" /\ job[p] \in Jobs
  BY <1>1 DEF Stage, Busy, Shapes
<1>3. \A r \in LogOpen(log) : r \in Row /\ InLog(Emitted(r), log)
  BY DEF LogOpen
<1>4. CASE Match(p, job[p].awaiting, LogOpen(log))
  BY <1>1, <1>2, <1>3, <1>4, MatchInv
<1>5. CASE job' = [job EXCEPT ![p].open = LogOpen(log)] /\ Go(p, "comparing")
  <2> DEFINE j == [job[p] EXCEPT !.open = LogOpen(log)]
  <2>1. LogOpen(log) \in SUBSET Row
    BY <1>3
  <2>2. j \in Jobs /\ j.kind = "fuzzy" /\ j.row = job[p].row /\ j.open = LogOpen(log)
    BY <1>2, <2>1 DEF Jobs
  <2>3. job' = [job EXCEPT ![p] = j]
    BY <1>1, <1>5 DEF Shapes
  <2> HIDE DEF j
  <2> QED BY <1>1, <1>2, <1>3, <1>5, <2>2, <2>3, NoteInv
<1> QED BY <1>4, <1>5 DEF List

LEMMA CompareInv ==
  ASSUME Inv, NEW p \in Process, Compare(p) \/ Refill(p)
  PROVE  Inv'
<1>1. /\ Shapes /\ Stage(p) /\ Facts(p) /\ UNCHANGED <<log, frag>>
      /\ pc[p] \in {"comparing", "refilling"}
  BY DEF Inv, Knows, Compare, Refill, world
<1>2. /\ job[p].kind = "fuzzy" /\ pc[p] # "idle"
      /\ \A r \in job[p].open : InLog(Emitted(r), log)
  BY <1>1 DEF Stage, Busy, Facts
<1>3. CASE Return(p, "error")
  BY <1>1, <1>2, <1>3, ReturnInv DEF Justified
<1>4. CASE Rebuild(p, job[p], "refilling")
  <2>1. "refilling" \in Continuations \ {"idle"}
    BY DEF Continuations
  <2> QED BY <1>1, <1>2, <1>4, <2>1, RebuildInv
<1>5. CASE Match(p, job[p].awaiting, job[p].open) \/ Match(p, Awaiting, job[p].open)
  <2>1. CASE Match(p, job[p].awaiting, job[p].open)
    BY <1>1, <1>2, <2>1, MatchInv
  <2>2. CASE Match(p, Awaiting, job[p].open)
    BY <1>1, <1>2, <2>2, MatchInv
  <2> QED BY <1>5, <2>1, <2>2
<1> QED BY <1>3, <1>4, <1>5 DEF Compare, Refill

\* What a readable fragment says, the log says.
LEMMA FragmentTold ==
  ASSUME Inv, NEW r \in Row
  PROVE  /\ frag[r] = "active" => InLog(Launched(r), log)
         /\ frag[r] = "cancelled" => InLog(Cancelled(r), log)
<1>1. SUFFICES ASSUME frag[r] \in {"active", "cancelled"}
      PROVE  /\ frag[r] = "active" => InLog(Launched(r), log)
             /\ frag[r] = "cancelled" => InLog(Cancelled(r), log)
  OBVIOUS
<1>2. PICK i \in DOMAIN log : log[i].row = r /\ LifecycleOf(log[i].type) = frag[r]
  BY <1>1 DEF Inv, FragmentsNeverLead, Lifecycle
<1>3. log[i] \in Events
  BY DEF Inv, Shapes
<1>4. log[i] = Event(log[i].type, r) /\ log[i].type \in EventTypes
  BY <1>2, <1>3, EventShape
<1>5. /\ frag[r] = "active" => log[i].type = "launched"
      /\ frag[r] = "cancelled" => log[i].type = "cancelled"
  BY <1>2, <1>4, LifecycleShape
<1> QED BY <1>4, <1>5 DEF InLog, Launched, Cancelled

LEMMA ReadFragmentInv ==
  ASSUME Inv, NEW p \in Process, ReadFragment(p)
  PROVE  Inv'
<1>1. /\ Shapes /\ Stage(p) /\ Facts(p) /\ Found(p) /\ UNCHANGED <<log, frag>>
      /\ pc[p] = "reading"
  BY DEF Inv, Knows, ReadFragment, world
<1>2. job[p].kind \in {"exact", "fuzzy"} /\ job[p].row \in Row /\ job[p] \in Jobs
  BY <1>1 DEF Stage, Busy, Shapes
<1>3. CASE Rebuild(p, job[p], "reading")
  <2>1. "reading" \in Continuations \ {"idle"}
    BY DEF Continuations
  <2> QED BY <1>1, <1>2, <1>3, <2>1, RebuildInv
<1>4. ASSUME NEW status \in {"error", "not_found"}, Return(p, status),
             frag[job[p].row] \in {"absent", "corrupt"},
             job[p].rebuilt \/ job[p].kind # "exact"
      PROVE  Inv'
  <2>1. job[p].kind # "exact" \/ ~job[p].unhurt
    BY <1>1, <1>4 DEF Found, Lifecycle
  <2> QED BY <1>1, <1>4, <2>1, ReturnInv DEF Justified
<1>5. CASE frag[job[p].row] = "active" /\ Return(p, "already_launched")
  BY <1>1, <1>2, <1>5, FragmentTold, ReturnInv DEF Justified
<1>6. CASE frag[job[p].row] = "cancelled" /\ Return(p, "not_launchable")
  BY <1>1, <1>2, <1>6, FragmentTold, ReturnInv DEF Justified
<1>7. CASE Go(p, "appending") /\ UNCHANGED job
  <2>1. "appending" \in Points
    BY DEF Points
  <2> QED BY <1>1, <1>2, <1>7, <2>1, GoOnInv
<1> QED BY <1>3, <1>4, <1>5, <1>6, <1>7 DEF ReadFragment
-----------------------------------------------------------------------------
(***************************************************************************)
(* The log and the fragments.                                              *)
(***************************************************************************)
LEMMA EventOfShape ==
  ASSUME NEW j \in Jobs, j.row \in Row
  PROVE  /\ EventOf(j) \in Events /\ EventOf(j).row = j.row
         /\ j.kind = "emit" => EventOf(j) = Emitted(j.row)
         /\ j.kind = "cancel" => EventOf(j) = Cancelled(j.row)
         /\ j.kind \in {"exact", "fuzzy"} => EventOf(j) = Launched(j.row)
         /\ EventOf(j).type = "launched" => j.kind \in {"exact", "fuzzy"}
<1>1. /\ j.kind = "emit" => EventOf(j) = Emitted(j.row)
      /\ j.kind = "cancel" => EventOf(j) = Cancelled(j.row)
      /\ j.kind \in {"exact", "fuzzy"} => EventOf(j) = Launched(j.row)
      /\ j.kind \in Kinds
  BY DEF EventOf, Jobs, Kinds
<1> QED BY <1>1 DEF Events, EventTypes, Emitted, Launched, Cancelled, Event, Kinds

\* A launch is appended only while no cancellation is in the log, after the
\* event of the row's emission.
LEMMA RecordInv ==
  ASSUME Inv, NEW p \in Process, pc[p] = "appending", UNCHANGED <<frag, job>>,
         Record(EventOf(job[p]), NotTerminated(job[p])), Go(p, "projecting")
  PROVE  Inv'
<1> DEFINE j == job[p]
           e == EventOf(j)
<1>1. Shapes /\ Stage(p) /\ Facts(p) /\ Knows(p) /\ j.row \in Row /\ j \in Jobs
  BY DEF Inv, Knows, Shapes, Stage, Busy
<1>2. /\ e \in Events /\ e.row = j.row
      /\ e.type = "launched" => j.kind \in {"exact", "fuzzy"}
  BY <1>1, EventOfShape
<1> HIDE DEF e
<1>3. log' = Append(log, e) /\ log \in Seq(Events)
  BY <1>1 DEF Record, Shapes, e
<1>4. /\ log' \in Seq(Events) /\ Len(log') = Len(log) + 1 /\ Len(log) \in Nat
      /\ DOMAIN log' = 1 .. Len(log) + 1 /\ DOMAIN log = 1 .. Len(log)
      /\ \A i \in 1 .. Len(log) : log'[i] = log[i]
      /\ log'[Len(log) + 1] = e
  BY <1>2, <1>3, AppendedLog
<1>5. Grows
  BY <1>4 DEF Grows
<1>6. Shapes'
  BY <1>1, <1>4 DEF Shapes, Go, Points
<1>7. NoLaunchAfterCancel'
  <2>1. ASSUME NEW i \in DOMAIN log', log'[i].type = "launched"
        PROVE  /\ \E k \in 1 .. i : log'[k] = Emitted(log'[i].row)
               /\ ~ \E k \in 1 .. i : log'[k] = Cancelled(log'[i].row)
    <3>1. CASE i \in DOMAIN log
      <4>1. \A k \in 1 .. i : k \in DOMAIN log /\ log'[k] = log[k]
        BY <1>4, <3>1
      <4>2. log'[i] = log[i]
        BY <1>4, <3>1
      <4> QED BY <2>1, <3>1, <4>1, <4>2 DEF Inv, NoLaunchAfterCancel
    <3>2. CASE i = Len(log) + 1
      <4>1. e.type = "launched" /\ j.kind \in {"exact", "fuzzy"}
        BY <1>2, <1>4, <2>1, <3>2
      <4>2. InLog(Emitted(e.row), log)
        BY <1>1, <1>2, <4>1 DEF Facts
      <4>3. ~InLog(Cancelled(e.row), log)
        BY <1>2, <4>1 DEF Record, NotTerminated
      <4>4. Cancelled(e.row) # e
        BY <4>1 DEF Cancelled, Event
      <4> QED BY <1>4, <3>2, <4>2, <4>3, <4>4 DEF InLog
    <3> QED BY <1>4, <3>1, <3>2
  <2> QED BY <2>1 DEF NoLaunchAfterCancel, Emitted, Cancelled, Event
<1>8. FragmentsNeverLead'
  <2>1. \A i \in DOMAIN log : i \in DOMAIN log' /\ log'[i] = log[i]
    BY <1>4
  <2> QED BY <2>1 DEF Inv, FragmentsNeverLead
<1>9. /\ pc'[p] = "projecting" /\ job' = job /\ seen' = seen /\ left' = left
      /\ result' = result /\ frag' = frag
      /\ \A q \in Process \ {p} : pc'[q] = pc[q]
  BY <1>1 DEF Go, Shapes
<1>10. \A x : InLog(x, log) => InLog(x, log')
  BY <1>3, <1>4, <1>5, StaysInLog
<1>11. Knows(p)'
  <2>1. Stage(p)'
    BY <1>1, <1>9 DEF Stage, Busy
  <2>2. Facts(p)'
    <3>1. InLog(e, log')
      BY <1>4 DEF InLog
    <3>2. EventOf(job[p])' = e
      BY <1>9 DEF e, EventOf, Emitted, Launched, Cancelled, Event
    <3>3. \A r : Emitted(r)' = Emitted(r)
      BY DEF Emitted, Event
    <3> QED BY <1>1, <1>9, <1>10, <3>1, <3>2, <3>3 DEF Facts, Busy
  <2>3. Replay(p)'
    <3>1. seen[p] \in Nat
      BY <1>1 DEF Shapes
    <3>2. \A i \in 1 .. seen[p] : log'[i] = log[i]
      BY <1>1, <1>4, <3>1 DEF Knows, Replay
    <3>3. seen'[p] <= Len(log')
      BY <1>1, <1>4, <1>9, <3>1 DEF Knows, Replay
    <3> QED BY <1>1, <1>9, <3>2, <3>3 DEF Knows, Replay
  <2>4. Found(p)'
    BY <1>9 DEF Found
  <2>5. Truthful(p)' /\ Hit(p)'
    BY <1>1, <1>9, <1>10 DEF Knows, Truthful, Hit, Launched, Cancelled, Event, NoResult
  <2> QED BY <2>1, <2>2, <2>3, <2>4, <2>5 DEF Knows
<1> QED BY <1>5, <1>6, <1>7, <1>8, <1>9, <1>11, StepOfOne

LEMMA AppendEventInv ==
  ASSUME Inv, NEW p \in Process, AppendEvent(p)
  PROVE  Inv'
<1> DEFINE j == job[p]
           e == EventOf(j)
<1>1. /\ Shapes /\ Stage(p) /\ Facts(p) /\ j.row \in Row /\ j \in Jobs
      /\ pc[p] = "appending" /\ frag' = frag
  BY DEF Inv, Knows, Shapes, Stage, Busy, AppendEvent
<1>2. /\ e \in Events
      /\ j.kind = "cancel" => e = Cancelled(j.row)
      /\ j.kind \notin {"emit", "cancel"} => e = Launched(j.row)
  BY <1>1, EventOfShape DEF Jobs, Kinds
<1>3. CASE Record(e, NotTerminated(j)) /\ Go(p, "projecting") /\ UNCHANGED job
  BY <1>1, <1>3, RecordInv
<1>4. CASE Refused(e, NotTerminated(j)) /\ Return(p, "not_launchable")
  <2>1. InLog(Cancelled(j.row), log) /\ log' = log
    BY <1>4 DEF Refused, NotTerminated
  <2> QED BY <1>1, <1>4, <2>1, ReturnInv DEF Justified
<1>5. ASSUME Recorded(e) PROVE InLog(e, log) /\ log' = log
  BY <1>1, <1>2, <1>5, KeyIsEvent DEF Recorded, Shapes
<1>6. ASSUME Recorded(e), NEW at \in {"projecting", "returning"}, Go(p, at), UNCHANGED job,
             at = "returning" => j.kind = "cancel"
      PROVE  Inv'
  <2>1. InLog(e, log) /\ UNCHANGED <<log, frag>>
    BY <1>1, <1>5, <1>6
  <2>2. job' = [job EXCEPT ![p] = j] /\ job'[p] = j /\ pc'[p] = at /\ at \in Points
    BY <1>1, <1>6 DEF Go, Shapes, Points
  <2>3. Stage(p)'
    BY <1>1, <1>6, <2>2 DEF Stage, Busy
  <2>4. Facts(p)'
    BY <1>1, <2>1, <2>2 DEF Facts, Busy
  <2>5. Found(p)'
    BY <2>2 DEF Found
  <2> QED BY <1>1, <1>6, <2>1, <2>2, <2>3, <2>4, <2>5, GoInv
<1>7. CASE Recorded(e) /\ j.kind \notin {"emit", "cancel"} /\ Return(p, "already_launched")
  BY <1>1, <1>2, <1>5, <1>7, ReturnInv DEF Justified
<1>8. \/ Record(e, NotTerminated(j)) /\ Go(p, "projecting") /\ UNCHANGED job
      \/ Refused(e, NotTerminated(j)) /\ Return(p, "not_launchable")
      \/ Recorded(e) /\ j.kind = "emit" /\ Go(p, "projecting") /\ UNCHANGED job
      \/ Recorded(e) /\ j.kind = "cancel" /\ Go(p, "returning") /\ UNCHANGED job
      \/ Recorded(e) /\ j.kind \notin {"emit", "cancel"} /\ Return(p, "already_launched")
  BY DEF AppendEvent
<1> QED BY <1>3, <1>4, <1>6, <1>7, <1>8

\* What Done reports is what its event says.
LEMMA DoneIsTrue ==
  ASSUME Inv, NEW p \in Process, Busy(p, {"projecting", "returning", "done"}), Done(p)
  PROVE  \E status : Return(p, status) /\ Justified(p, status)
<1>1. /\ job[p].row \in Row /\ InLog(EventOf(job[p]), log)
  BY DEF Inv, Knows, Stage, Facts, Busy
<1>2. job[p] \in Jobs
  BY DEF Inv, Knows, Shapes, Stage, Busy
<1>3. CASE job[p].kind = "emit"
  <2>1. Return(p, "emitted") /\ Justified(p, "emitted")
    BY <1>3 DEF Done, Justified
  <2> QED BY <2>1
<1>4. CASE job[p].kind = "cancel"
  <2>1. Return(p, "cancelled") /\ Justified(p, "cancelled")
    BY <1>1, <1>2, <1>4, EventOfShape DEF Done, Justified
  <2> QED BY <2>1
<1>5. CASE job[p].kind \in {"exact", "fuzzy"}
  <2>1. Return(p, "launched") /\ Justified(p, "launched")
    BY <1>1, <1>2, <1>5, EventOfShape DEF Done, Justified
  <2> QED BY <2>1
<1> QED BY <1>2, <1>3, <1>4, <1>5 DEF Jobs, Kinds

LEMMA ReturnExistingInv ==
  ASSUME Inv, NEW p \in Process, ReturnExisting(p)
  PROVE  Inv'
<1>1. /\ Shapes /\ Stage(p) /\ Facts(p) /\ job[p] \in Jobs
      /\ pc[p] = "returning" /\ UNCHANGED <<log, frag>>
  BY DEF Inv, Knows, Shapes, Stage, ReturnExisting, world
<1>2. CASE Done(p)
  BY <1>1, <1>2, DoneIsTrue, ReturnInv DEF Busy
<1>3. CASE Go(p, "projecting") /\ UNCHANGED job
  <2>1. /\ job' = [job EXCEPT ![p] = job[p]] /\ job'[p] = job[p]
        /\ pc'[p] = "projecting" /\ "projecting" \in Points
    BY <1>1, <1>3 DEF Go, Shapes, Points
  <2>2. Stage(p)' /\ Found(p)'
    BY <1>1, <2>1 DEF Stage, Busy, Found
  <2>3. Facts(p)'
    BY <1>1, <2>1 DEF Facts, Busy
  <2> QED BY <1>1, <1>3, <2>1, <2>2, <2>3, GoInv
<1> QED BY <1>2, <1>3 DEF ReturnExisting

\* One fragment is replaced by what some event of its row says.
LEMMA WriteTold ==
  ASSUME Inv, NEW r \in Row, NEW lc \in Lifecycle, log' = log,
         frag' = [frag EXCEPT ![r] = lc],
         \E i \in DOMAIN log : log[i].row = r /\ LifecycleOf(log[i].type) = lc
  PROVE  /\ frag' \in [Row -> Lifecycle \cup {"absent", "corrupt"}]
         /\ \A s \in Row : frag'[s] = frag[s] \/ frag'[s] \in Lifecycle
         /\ FragmentsNeverLead' /\ NoLaunchAfterCancel' /\ Grows
<1>1. frag \in [Row -> Lifecycle \cup {"absent", "corrupt"}] /\ log \in Seq(Events)
  BY DEF Inv, Shapes
<1>2. frag'[r] = lc /\ \A s \in Row : s # r => frag'[s] = frag[s]
  BY <1>1
<1>3. frag' \in [Row -> Lifecycle \cup {"absent", "corrupt"}]
  BY <1>1
<1>4. FragmentsNeverLead'
  BY <1>2 DEF Inv, FragmentsNeverLead
<1>5. NoLaunchAfterCancel' /\ Grows
  BY <1>1 DEF Inv, NoLaunchAfterCancel, Grows
<1> QED BY <1>2, <1>3, <1>4, <1>5

\* project_event writes what its event says, and the event is in the log.
LEMMA ProjectWrites ==
  ASSUME Inv, NEW p \in Process, Project(p), ~Rebuild(p, job[p], "done") \/ frag' # frag
  PROVE  /\ Done(p)
         /\ frag' \in [Row -> Lifecycle \cup {"absent", "corrupt"}]
         /\ \A s \in Row : frag'[s] = frag[s] \/ frag'[s] \in Lifecycle
         /\ FragmentsNeverLead' /\ NoLaunchAfterCancel' /\ Grows
<1>1. /\ Shapes /\ job[p] \in Jobs /\ job[p].row \in Row
      /\ log' = log /\ InLog(EventOf(job[p]), log)
  BY DEF Inv, Knows, Shapes, Stage, Facts, Busy, Project
<1>2. /\ frag' = [frag EXCEPT ![job[p].row] = LifecycleOf(EventOf(job[p]).type)]
      /\ Done(p)
  BY DEF Project
<1>3. EventOf(job[p]) \in Events /\ EventOf(job[p]).row = job[p].row
  BY <1>1, EventOfShape
<1>4. LifecycleOf(EventOf(job[p]).type) \in Lifecycle
  BY <1>3, EventShape, LifecycleShape
<1>5. \E i \in DOMAIN log : /\ log[i].row = job[p].row
                            /\ LifecycleOf(log[i].type) = LifecycleOf(EventOf(job[p]).type)
  BY <1>1, <1>3 DEF InLog
<1> QED BY <1>1, <1>2, <1>4, <1>5, WriteTold

LEMMA ProjectInv ==
  ASSUME Inv, NEW p \in Process, Project(p)
  PROVE  Inv'
<1>1. /\ Shapes /\ Stage(p) /\ Facts(p) /\ job[p].row \in Row
      /\ pc[p] = "projecting" /\ log' = log /\ InLog(EventOf(job[p]), log)
  BY DEF Inv, Knows, Shapes, Stage, Facts, Busy, Project
<1>2. CASE Rebuild(p, job[p], "done") /\ frag' = frag
  <2>1. "done" \in Continuations \ {"idle"}
    BY DEF Continuations
  <2> QED BY <1>1, <1>2, <2>1, RebuildInv
<1>3. CASE ~Rebuild(p, job[p], "done") \/ frag' # frag
  <2>1. /\ Done(p)
        /\ frag' \in [Row -> Lifecycle \cup {"absent", "corrupt"}]
        /\ \A s \in Row : frag'[s] = frag[s] \/ frag'[s] \in Lifecycle
        /\ FragmentsNeverLead' /\ NoLaunchAfterCancel' /\ Grows
    BY <1>3, ProjectWrites
  <2>2. PICK status : Return(p, status) /\ Justified(p, status)
    BY <1>1, <2>1, DoneIsTrue DEF Busy
  <2>3. /\ pc' \in [Process -> Points] /\ job' \in [Process -> Jobs \cup {NoJob}]
        /\ seen' \in [Process -> Nat] /\ left' \in [Process -> SUBSET Row]
        /\ DOMAIN result' = Process
        /\ \A q \in Process \ {p} :
             /\ pc'[q] = pc[q] /\ job'[q] = job[q] /\ seen'[q] = seen[q]
             /\ left'[q] = left[q] /\ result'[q] = result[q]
        /\ Knows(p)'
    BY <1>1, <2>2, Returned
  <2>4. Shapes'
    BY <1>1, <2>1, <2>3 DEF Shapes
  <2> QED BY <2>1, <2>3, <2>4, StepOfOne
<1> QED BY <1>2, <1>3

LEMMA RebuildReadInv ==
  ASSUME Inv, NEW p \in Process, RebuildRead(p)
  PROVE  Inv'
<1>1. /\ Shapes /\ Knows(p) /\ job[p] \in Jobs /\ pc[p] = "rebuilding"
      /\ UNCHANGED <<log, frag, job, result>>
  BY DEF Inv, Knows, Shapes, Stage, RebuildRead, world
<1>2. /\ pc' \in [Process -> Points]
      /\ seen' \in [Process -> Nat] /\ left' \in [Process -> SUBSET Row]
      /\ \A q \in Process \ {p} :
           /\ pc'[q] = pc[q] /\ seen'[q] = seen[q] /\ left'[q] = left[q]
      /\ pc'[p] = "restoring" /\ seen'[p] = Len(log)
      /\ left'[p] = {r \in Row : Positions(log, r) # {}}
  BY <1>1 DEF RebuildRead, Shapes, Points
<1>3. Stage(p)'
  BY <1>1, <1>2 DEF Knows, Stage, Busy
<1>4. Facts(p)'
  BY <1>1, <1>2 DEF Knows, Facts, Busy
<1>5. Replay(p)'
  <2>1. Len(log) \in Nat /\ DOMAIN log = 1 .. Len(log)
    BY <1>1 DEF Shapes
  <2> QED BY <1>1, <1>2, <2>1 DEF Replay, Positions
<1>6. Found(p)'
  <2>1. ASSUME job[p].kind = "exact", job[p].then = "reading"
        PROVE  job[p].row \in left'[p]
    <3>1. job[p].row \in Row /\ InLog(Emitted(job[p].row), log)
      BY <1>1, <2>1 DEF Knows, Stage, Facts, Busy
    <3>2. Positions(log, job[p].row) # {}
      BY <3>1 DEF InLog, Positions, Emitted, Event
    <3> QED BY <1>2, <3>1, <3>2
  <2> QED BY <1>1, <1>2, <2>1 DEF Found
<1>7. Truthful(p)' /\ Hit(p)'
  BY <1>1 DEF Knows, Truthful, Hit
<1> QED BY <1>1, <1>2, <1>3, <1>4, <1>5, <1>6, <1>7, QuietStep DEF Knows, Shapes

\* One row is written, as the part of the log that the rebuild read tells it.
LEMMA RebuildWrites ==
  ASSUME Inv, NEW p \in Process, RebuildWrite(p)
  PROVE  \E r \in left[p], lc \in Lifecycle :
           /\ r \in Row
           /\ left' = [left EXCEPT ![p] = @ \ {r}]
           /\ frag' = [frag EXCEPT ![r] = lc] /\ frag'[r] = lc
           /\ frag' \in [Row -> Lifecycle \cup {"absent", "corrupt"}]
           /\ \A s \in Row : frag'[s] = frag[s] \/ frag'[s] \in Lifecycle
           /\ FragmentsNeverLead' /\ NoLaunchAfterCancel' /\ Grows
<1> DEFINE l == SubSeq(log, 1, seen[p])
<1>1. Shapes /\ Replay(p) /\ log' = log
  BY DEF Inv, Knows, RebuildWrite
<1>2. PICK r \in left[p] : /\ frag' = [frag EXCEPT ![r] = Replayed(l, r)]
                           /\ left' = [left EXCEPT ![p] = @ \ {r}]
  BY DEF RebuildWrite
<1>3. r \in Row /\ seen[p] \in Nat /\ seen[p] <= Len(log) /\ log \in Seq(Events)
  BY <1>1 DEF Shapes, Replay
<1>4. /\ l \in Seq(Events) /\ DOMAIN l = 1 .. seen[p]
      /\ \A i \in DOMAIN l : i \in DOMAIN log /\ l[i] = log[i]
  BY <1>3
<1> HIDE DEF l
<1>5. Positions(l, r) # {}
  BY <1>1, <1>4 DEF Replay, Positions
<1>6. PICK i \in DOMAIN l : l[i].row = r /\ LifecycleOf(l[i].type) = Replayed(l, r)
  BY <1>3, <1>4, <1>5, ReplayedIsThere
<1>7. Replayed(l, r) \in Lifecycle
  <2>1. i \in DOMAIN log /\ l[i] = log[i] /\ log[i] \in Events
    BY <1>3, <1>4, <1>6
  <2> QED BY <1>6, <2>1, EventShape, LifecycleShape
<1>8. /\ frag' \in [Row -> Lifecycle \cup {"absent", "corrupt"}]
      /\ \A s \in Row : frag'[s] = frag[s] \/ frag'[s] \in Lifecycle
      /\ FragmentsNeverLead' /\ NoLaunchAfterCancel' /\ Grows
  BY <1>1, <1>2, <1>3, <1>4, <1>6, <1>7, WriteTold
<1>9. frag'[r] = Replayed(l, r)
  BY <1>1, <1>2, <1>3 DEF Shapes
<1> QED BY <1>2, <1>3, <1>7, <1>8, <1>9

LEMMA RebuildWriteInv ==
  ASSUME Inv, NEW p \in Process, RebuildWrite(p)
  PROVE  Inv'
<1>1. /\ Shapes /\ Knows(p) /\ job[p] \in Jobs /\ pc[p] = "restoring"
      /\ UNCHANGED <<log, pc, job, seen, result>>
  BY DEF Inv, Knows, Shapes, Stage, RebuildWrite
<1>2. PICK r \in left[p], lc \in Lifecycle :
        /\ left' = [left EXCEPT ![p] = @ \ {r}] /\ frag'[r] = lc
        /\ frag' \in [Row -> Lifecycle \cup {"absent", "corrupt"}]
        /\ \A s \in Row : frag'[s] = frag[s] \/ frag'[s] \in Lifecycle
        /\ FragmentsNeverLead' /\ NoLaunchAfterCancel' /\ Grows
  BY RebuildWrites
<1>3. /\ left' \in [Process -> SUBSET Row] /\ left'[p] = left[p] \ {r}
      /\ \A q \in Process \ {p} : left'[q] = left[q]
  BY <1>1, <1>2 DEF Shapes
<1>4. Shapes'
  BY <1>1, <1>2, <1>3 DEF Shapes
<1>5. Stage(p)' /\ Facts(p)' /\ Truthful(p)' /\ Hit(p)'
  <2>1. Stage(p)'
    BY <1>1 DEF Knows, Stage, Busy
  <2>2. Facts(p)'
    BY <1>1 DEF Knows, Facts, Busy
  <2> QED BY <1>1, <2>1, <2>2 DEF Knows, Truthful, Hit
<1>6. Replay(p)'
  BY <1>1, <1>3 DEF Knows, Replay
<1>7. Found(p)'
  <2>1. ASSUME job[p].kind = "exact", job[p].unhurt, job[p].rebuilt, job[p].then = "reading"
        PROVE  job[p].row \in left'[p] \/ frag'[job[p].row] \in Lifecycle
    <3>1. job[p].row \in Row /\ (job[p].row \in left[p] \/ frag[job[p].row] \in Lifecycle)
      BY <1>1, <2>1 DEF Knows, Stage, Found, Busy
    <3> QED BY <1>2, <1>3, <3>1
  <2> QED BY <1>1, <2>1 DEF Found
<1> QED BY <1>1, <1>2, <1>3, <1>4, <1>5, <1>6, <1>7, StepOfOne DEF Knows

LEMMA RebuildDoneInv ==
  ASSUME Inv, NEW p \in Process, RebuildDone(p)
  PROVE  Inv'
<1>1. /\ Shapes /\ Knows(p) /\ job[p] \in Jobs /\ UNCHANGED <<log, frag>>
      /\ pc[p] = "restoring" /\ left[p] = {} /\ job[p].then \in Continuations \ {"idle"}
  BY DEF Inv, Knows, Shapes, Stage, RebuildDone, world, Jobs, NoJob
<1>2. CASE job[p].then = "done"
  <2>1. Done(p) /\ Busy(p, {"projecting", "returning", "done"})
    BY <1>1, <1>2 DEF RebuildDone, Busy
  <2>2. PICK status : Return(p, status) /\ Justified(p, status)
    BY <2>1, DoneIsTrue
  <2> QED BY <1>1, <2>2, ReturnInv
<1>3. CASE job[p].then # "done"
  <2>1. Go(p, job[p].then) /\ UNCHANGED job
    BY <1>3 DEF RebuildDone
  <2>2. /\ pc' \in [Process -> Points] /\ pc'[p] = job[p].then
        /\ \A q \in Process \ {p} : pc'[q] = pc[q]
        /\ UNCHANGED <<seen, left, result>>
    BY <1>1, <1>3, <2>1 DEF Go, Shapes, Points, Continuations
  <2>3. Stage(p)'
    BY <1>1, <1>3, <2>1, <2>2 DEF Knows, Stage, Busy, Continuations
  <2>4. Facts(p)'
    BY <1>1, <1>3, <2>1, <2>2 DEF Knows, Facts, Busy, Continuations
  <2>5. Replay(p)' /\ Truthful(p)' /\ Hit(p)'
    BY <1>1, <2>2 DEF Knows, Replay, Truthful, Hit
  <2>6. Found(p)'
    BY <1>1, <2>1, <2>2 DEF Knows, Found, Continuations
  <2> QED BY <1>1, <2>1, <2>2, <2>3, <2>4, <2>5, <2>6, QuietStep DEF Knows, Shapes
<1> QED BY <1>2, <1>3
-----------------------------------------------------------------------------
(***************************************************************************)
(* Mishaps.                                                                *)
(***************************************************************************)
LEMMA EndInv ==
  ASSUME Inv, NEW p \in Process, Timeout(p) \/ Crash(p)
  PROVE  Inv'
<1>1. CASE Timeout(p)
  BY <1>1, ReturnInv DEF Timeout, Justified, world
<1>2. CASE Crash(p)
  BY <1>2, ReturnInv DEF Crash, Justified
<1> QED BY <1>1, <1>2

\* A damaged file takes the promise of being found from every call under way.
LEMMA DamageInv ==
  ASSUME Inv, NEW r \in Row, Damage(r)
  PROVE  Inv'
<1>1. Shapes /\ UNCHANGED <<log, pc, seen, left, result>>
  BY DEF Inv, Damage
<1>2. PICK f \in {"absent", "corrupt"} : frag' = [frag EXCEPT ![r] = f]
  BY DEF Damage
<1>3. /\ frag' \in [Row -> Lifecycle \cup {"absent", "corrupt"}]
      /\ frag'[r] = f /\ f \notin Lifecycle
      /\ \A s \in Row : s # r => frag'[s] = frag[s]
  BY <1>1, <1>2 DEF Shapes, Lifecycle
<1>4. \A q \in Process : job'[q] = IF pc[q] = "idle" THEN job[q]
                                   ELSE [job[q] EXCEPT !.unhurt = FALSE]
  BY DEF Damage
<1>5. ASSUME NEW q \in Process
      PROVE  job'[q] \in Jobs \cup {NoJob} /\ Knows(q)'
  <2>1. Knows(q)
    BY DEF Inv
  <2>2. CASE pc[q] = "idle"
    <3>1. job'[q] = NoJob
      BY <1>4, <2>1, <2>2 DEF Knows, Stage
    <3> QED
      BY <1>1, <2>1, <2>2, <3>1
      DEF Knows, Stage, Facts, Replay, Found, Truthful, Hit, Busy, NoJob
  <2>3. CASE pc[q] # "idle"
    <3>1. job[q] \in Jobs
      BY <1>1, <2>1, <2>3 DEF Shapes, Knows, Stage
    <3>2. /\ job'[q] \in Jobs /\ job'[q].kind = job[q].kind /\ job'[q].row = job[q].row
          /\ job'[q].then = job[q].then /\ job'[q].open = job[q].open
          /\ job'[q].rebuilt = job[q].rebuilt /\ ~job'[q].unhurt
      BY <1>4, <2>3, <3>1 DEF Jobs
    <3>3. EventOf(job[q])' = EventOf(job[q])
      BY <3>2 DEF EventOf, Emitted, Launched, Cancelled, Event
    <3>4. job'[q] # NoJob
      BY <3>2 DEF Jobs, Kinds, NoJob
    <3>5. Stage(q)'
      BY <1>1, <2>1, <2>3, <3>2, <3>4 DEF Knows, Stage, Busy
    <3>6. Facts(q)'
      BY <1>1, <2>1, <3>2, <3>3 DEF Knows, Facts, Busy
    <3>7. Replay(q)' /\ Truthful(q)' /\ Hit(q)'
      BY <1>1, <2>1 DEF Knows, Replay, Truthful, Hit
    <3>8. Found(q)'
      BY <3>2 DEF Found
    <3> QED BY <3>2, <3>5, <3>6, <3>7, <3>8 DEF Knows
  <2> QED BY <2>2, <2>3
<1>6. job' \in [Process -> Jobs \cup {NoJob}]
  BY <1>5 DEF Damage
<1>7. Shapes'
  BY <1>1, <1>3, <1>6 DEF Shapes
<1>8. NoLaunchAfterCancel' /\ FragmentsNeverLead'
  <2>1. NoLaunchAfterCancel'
    BY <1>1 DEF Inv, NoLaunchAfterCancel
  <2>2. FragmentsNeverLead'
    BY <1>1, <1>3 DEF Inv, FragmentsNeverLead
  <2> QED BY <2>1, <2>2
<1> QED BY <1>5, <1>7, <1>8 DEF Inv

LEMMA StutterInv ==
  ASSUME Inv, UNCHANGED vars
  PROVE  Inv'
<1>1. UNCHANGED <<log, frag, pc, job, seen, left, result>> /\ Shapes
  BY DEF Inv, vars, procVars
<1>2. Shapes' /\ Grows
  BY <1>1 DEF Shapes, Grows
<1>3. NoLaunchAfterCancel' /\ FragmentsNeverLead'
  BY <1>1 DEF Inv, NoLaunchAfterCancel, FragmentsNeverLead
<1>4. \A q \in Process : Knows(q)'
  BY <1>1, <1>2, OthersKnow DEF Inv
<1> QED BY <1>2, <1>3, <1>4 DEF Inv

LEMMA NextInv == Inv /\ [Next]_vars => Inv'
<1> SUFFICES ASSUME Inv, [Next]_vars PROVE Inv'
  OBVIOUS
<1>1. ASSUME NEW p \in Process, Step(p) PROVE Inv'
  BY <1>1, FindInv, ScanInv, ListInv, CompareInv, ReadFragmentInv, AppendEventInv, EndInv,
     ReturnExistingInv, ProjectInv, RebuildReadInv, RebuildWriteInv, RebuildDoneInv DEF Step
<1> QED BY <1>1, CallInv, EndInv, DamageInv, StutterInv DEF Next
-----------------------------------------------------------------------------
\* Every event is of a handoff; every call under way has its job; a rebuild has
\* only rows to write that it read, and only while it writes.
THEOREM TypesHold == Spec => []TypeOK
<1>1. Inv => TypeOK
  <2> SUFFICES ASSUME Inv PROVE TypeOK
    OBVIOUS
  <2>1. \A i \in DOMAIN log : \E r \in Row : log[i] \in {Emitted(r), Launched(r), Cancelled(r)}
    <3>1. \A i \in DOMAIN log : log[i] \in Events
      BY DEF Inv, Shapes
    <3>2. ASSUME NEW e \in Events
          PROVE  \E r \in Row : e \in {Emitted(r), Launched(r), Cancelled(r)}
      BY EventShape DEF EventTypes, Emitted, Launched, Cancelled
    <3> QED BY <3>1, <3>2
  <2>2. frag \in [Row -> Lifecycle \cup {"absent", "corrupt"}]
    BY DEF Inv, Shapes
  <2>3. ASSUME NEW p \in Process
        PROVE  /\ pc[p] = "idle" <=> job[p] = NoJob
               /\ pc[p] \in {"reading", "appending", "projecting", "returning"}
                    => job[p].row \in Row
               /\ seen[p] <= Len(log)
               /\ left[p] # {} => pc[p] = "restoring"
               /\ \A r \in left[p] : \E i \in 1 .. seen[p] : log[i].row = r
    BY DEF Inv, Knows, Stage, Replay, Busy
  <2> QED BY <2>1, <2>2, <2>3 DEF TypeOK
<1> QED BY <1>1, InitInv, NextInv, PTL DEF Spec

\* A launch is recorded only for an emitted handoff, and never after its
\* cancellation, whatever cancel and self_register do at the same time.
THEOREM CancelIsTerminal == Spec => []NoLaunchAfterCancel
<1>1. Inv => NoLaunchAfterCancel
  BY DEF Inv
<1> QED BY <1>1, InitInv, NextInv, PTL DEF Spec

\* What a fragment file says happened, some event of the log says too: also while
\* rebuilds from older reads of the log overwrite newer fragments.
THEOREM CacheNeverLeads == Spec => []FragmentsNeverLead
<1>1. Inv => FragmentsNeverLead
  BY DEF Inv
<1> QED BY <1>1, InitInv, NextInv, PTL DEF Spec

\* What a call reports to its caller is a fact of the log.
THEOREM ReportsAreFacts == Spec => []ResultsAreTruthful
<1>1. Inv => ResultsAreTruthful
  BY DEF Inv, Knows, Truthful, ResultsAreTruthful
<1> QED BY <1>1, InitInv, NextInv, PTL DEF Spec

\* self_register by id finds every emitted handoff, unless a fragment file is
\* damaged during the call.
THEOREM IdsAreFound == Spec => []ExactNeverMisses
<1>1. Inv => ExactNeverMisses
  BY DEF Inv, Knows, Hit, ExactNeverMisses
<1> QED BY <1>1, InitInv, NextInv, PTL DEF Spec
-----------------------------------------------------------------------------
(***************************************************************************)
(* A launch by place is no guess among the rows that its call could see.   *)
(***************************************************************************)

\* The rows of its place that were open, and shown so, when the call began, and
\* that are open still.
Watched(p) ==
  {s \in job[p].already \cap job[p].shown \cap LogOpen(log) : PlaceOf[s] = job[p].place}

\* None of them escapes the call, unless a file is damaged: its fragment stays
\* readable, and both readings that are compared contain it.
Watch(p) ==
  job[p].kind = "fuzzy" /\ job[p].unhurt =>
    /\ \A s \in job[p].already : InLog(Emitted(s), log)
    /\ \A s \in Watched(p) :
         /\ frag[s] \in Lifecycle
         /\ pc[p] \in {"listing", "comparing"} => s \in job[p].awaiting
         /\ Busy(p, {"comparing", "refilling"}) => s \in job[p].open
         /\ job[p].row \in Row => job[p].row = s

OnlyReadable == \A r \in Row : frag'[r] = frag[r] \/ frag'[r] \in Lifecycle

LEMMA WatchedShrinks ==
  ASSUME log \in Seq(Events), log' \in Seq(Events), Grows, NEW p \in Process,
         \A s \in job[p].already : InLog(Emitted(s), log),
         job'[p].already = job[p].already, job'[p].shown = job[p].shown,
         job'[p].place = job[p].place
  PROVE  Watched(p)' \subseteq Watched(p)
<1>1. \A e : InLog(e, log) => InLog(e, log')
  BY StaysInLog
<1>2. ASSUME NEW s \in job[p].already, s \in LogOpen(log') PROVE s \in LogOpen(log)
  <2>1. s \in Row /\ ~InLog(Launched(s), log') /\ ~InLog(Cancelled(s), log')
    BY <1>2 DEF LogOpen
  <2> QED BY <1>1, <2>1 DEF LogOpen
<1>3. LogOpen(log)' = LogOpen(log')
  BY DEF LogOpen, InLog, Emitted, Launched, Cancelled, Event
<1> QED BY <1>2, <1>3 DEF Watched

\* What is left to show of a step that keeps what the call began with.
LEMMA WatchStep ==
  ASSUME Shapes, Shapes', Grows, OnlyReadable, NEW p \in Process, Watch(p),
         job'[p].kind = job[p].kind, job'[p].unhurt = job[p].unhurt,
         job'[p].already = job[p].already, job'[p].shown = job[p].shown,
         job'[p].place = job[p].place,
         job[p].kind = "fuzzy" /\ job[p].unhurt => \A s \in Watched(p) :
           /\ pc'[p] \in {"listing", "comparing"} => s \in job'[p].awaiting
           /\ Busy(p, {"comparing", "refilling"})' => s \in job'[p].open
           /\ job'[p].row \in Row => job'[p].row = s
  PROVE  Watch(p)'
<1>1. SUFFICES ASSUME job[p].kind = "fuzzy", job[p].unhurt PROVE Watch(p)'
  BY DEF Watch
<1>2. \A s \in job[p].already : InLog(Emitted(s), log)
  BY <1>1 DEF Watch
<1>3. \A s \in job'[p].already : InLog(Emitted(s), log')
  BY <1>2, StaysInLog DEF Shapes
<1>4. Watched(p)' \subseteq Watched(p)
  BY <1>2, WatchedShrinks DEF Shapes
<1>5. \A s \in Watched(p) : s \in Row /\ frag[s] \in Lifecycle
  BY <1>1 DEF Watch, Watched, LogOpen
<1>6. \A s \in Watched(p) : frag'[s] \in Lifecycle
  BY <1>5 DEF OnlyReadable
<1>7. \A s : Emitted(s)' = Emitted(s)
  BY DEF Emitted, Event
<1> QED BY <1>1, <1>3, <1>4, <1>6, <1>7 DEF Watch

\* The log only grows, and only Damage leaves a fragment unreadable.
LEMMA LogGrows ==
  ASSUME Inv, [Next]_vars
  PROVE  Grows
<1>1. log \in Seq(Events)
  BY DEF Inv, Shapes
<1>2. CASE log' = log
  BY <1>1, <1>2 DEF Grows
<1>3. ASSUME NEW p \in Process, AppendEvent(p) PROVE Grows
  <2>1. EventOf(job[p]) \in Events
    BY <1>3, EventOfShape DEF AppendEvent, Inv, Knows, Shapes, Stage, Busy
  <2>2. log' = log \/ log' = Append(log, EventOf(job[p]))
    BY <1>3 DEF AppendEvent, Record, Refused, Recorded
  <2> QED BY <1>1, <1>2, <2>1, <2>2, AppendedLog DEF Grows
<1>4. ASSUME NEW p \in Process, Step(p) PROVE log' = log \/ AppendEvent(p)
  BY <1>4 DEF Step, Find, Scan, Rescan, List, Compare, Refill, ReadFragment, Timeout,
     ReturnExisting, Project, RebuildRead, RebuildWrite, RebuildDone, world
<1> QED BY <1>2, <1>3, <1>4
        DEF Next, CallEmit, CallExact, CallFuzzy, CallCancel, Call, Crash, Damage, vars

LEMMA FragmentsStayReadable ==
  ASSUME Inv, [Next]_vars, ~ \E r \in Row : Damage(r)
  PROVE  OnlyReadable
<1>1. CASE frag' = frag
  BY <1>1 DEF OnlyReadable
<1>2. ASSUME NEW p \in Process, Project(p), frag' # frag PROVE OnlyReadable
  BY <1>2, ProjectWrites DEF OnlyReadable
<1>3. ASSUME NEW p \in Process, RebuildWrite(p) PROVE OnlyReadable
  BY <1>3, RebuildWrites DEF OnlyReadable
<1>4. ASSUME NEW p \in Process, Step(p) PROVE frag' = frag \/ Project(p) \/ RebuildWrite(p)
  BY <1>4 DEF Step, Find, Scan, Rescan, List, Compare, Refill, ReadFragment, Timeout,
     AppendEvent, ReturnExisting, RebuildRead, RebuildDone, world
<1> QED BY <1>1, <1>2, <1>3, <1>4
        DEF Next, CallEmit, CallExact, CallFuzzy, CallCancel, Call, Crash, vars

\* Ways for a call to go on that let no watched row escape.
LEMMA WatchKept ==
  ASSUME Shapes, Shapes', Grows, OnlyReadable, NEW p \in Process, Watch(p),
         job'[p] = job[p],
         \/ pc'[p] = pc[p]
         \/ pc'[p] \notin {"listing", "comparing", "refilling"}
            /\ (Busy(p, {"comparing", "refilling"})' => Busy(p, {"comparing", "refilling"}))
         \/ pc'[p] = "refilling" /\ Busy(p, {"comparing", "refilling"})
  PROVE  Watch(p)'
<1>1. ASSUME job[p].kind = "fuzzy", job[p].unhurt, NEW s \in Watched(p)
      PROVE  /\ pc'[p] \in {"listing", "comparing"} => s \in job'[p].awaiting
             /\ Busy(p, {"comparing", "refilling"})' => s \in job'[p].open
             /\ job'[p].row \in Row => job'[p].row = s
  BY <1>1 DEF Watch, Busy
<1> QED BY <1>1, WatchStep

LEMMA WatchReturned ==
  ASSUME Shapes, NEW p \in Process, NEW status, Return(p, status)
  PROVE  Watch(p)'
<1>1. job'[p] = NoJob
  BY DEF Return, Shapes
<1> QED BY <1>1 DEF Watch, NoJob

LEMMA WatchRebuild ==
  ASSUME Shapes, Shapes', Grows, OnlyReadable, NEW p \in Process, Watch(p),
         pc[p] # "idle", Stage(p),
         NEW then \in Continuations, Rebuild(p, job[p], then),
         then = "refilling" => pc[p] = "comparing", then # "comparing"
  PROVE  Watch(p)'
<1>1. job[p] \in Jobs
  BY DEF Shapes, Stage
<1>2. /\ pc'[p] = "rebuilding" /\ job'[p] = [job[p] EXCEPT !.rebuilt = TRUE, !.then = then]
  BY DEF Rebuild, Go, Shapes
<1>3. /\ job'[p].kind = job[p].kind /\ job'[p].unhurt = job[p].unhurt
      /\ job'[p].already = job[p].already /\ job'[p].shown = job[p].shown
      /\ job'[p].place = job[p].place /\ job'[p].row = job[p].row
      /\ job'[p].open = job[p].open /\ job'[p].then = then
  BY <1>1, <1>2 DEF Jobs
<1>4. ASSUME job[p].kind = "fuzzy", job[p].unhurt, NEW s \in Watched(p)
      PROVE  /\ pc'[p] \in {"listing", "comparing"} => s \in job'[p].awaiting
             /\ Busy(p, {"comparing", "refilling"})' => s \in job'[p].open
             /\ job'[p].row \in Row => job'[p].row = s
  BY <1>2, <1>3, <1>4 DEF Watch, Busy
<1> QED BY <1>3, <1>4, WatchStep

\* A match takes the one candidate, and every watched row is one.
LEMMA WatchMatch ==
  ASSUME Shapes, Shapes', Grows, OnlyReadable, NEW p \in Process, Watch(p),
         job[p] \in Jobs, NEW awaiting, NEW open, Match(p, awaiting, open),
         job[p].kind = "fuzzy" /\ job[p].unhurt
           => Watched(p) \subseteq awaiting \cap open
  PROVE  Watch(p)'
<1>1. CASE \E status : Return(p, status)
  BY <1>1, WatchReturned
<1>2. ASSUME NEW r \in Row, Candidates(p, awaiting, open) = {r}, Go(p, "reading"),
             job' = [job EXCEPT ![p] = [@ EXCEPT !.row = r, !.rebuilt = FALSE]]
      PROVE  Watch(p)'
  <2>1. /\ pc'[p] = "reading" /\ job'[p] = [job[p] EXCEPT !.row = r, !.rebuilt = FALSE]
    BY <1>2 DEF Go, Shapes
  <2>2. /\ job'[p].kind = job[p].kind /\ job'[p].unhurt = job[p].unhurt
        /\ job'[p].already = job[p].already /\ job'[p].shown = job[p].shown
        /\ job'[p].place = job[p].place /\ job'[p].row = r
    BY <2>1 DEF Jobs
  <2>3. ASSUME job[p].kind = "fuzzy", job[p].unhurt, NEW s \in Watched(p)
        PROVE  /\ pc'[p] \in {"listing", "comparing"} => s \in job'[p].awaiting
               /\ Busy(p, {"comparing", "refilling"})' => s \in job'[p].open
               /\ job'[p].row \in Row => job'[p].row = s
    <3>1. s \in Candidates(p, awaiting, open)
      BY <2>3 DEF Candidates, Watched
    <3> QED BY <1>2, <2>1, <2>2, <3>1 DEF Busy
  <2> QED BY <2>2, <2>3, WatchStep
<1> QED BY <1>1, <1>2 DEF Match

\* A watched row is read as awaiting, and is open by definition.
LEMMA WatchedAwaits ==
  ASSUME Inv, NEW p \in Process, Watch(p), job[p].kind = "fuzzy", job[p].unhurt
  PROVE  Watched(p) \subseteq Awaiting \cap LogOpen(log)
<1>1. ASSUME NEW s \in Watched(p)
      PROVE  s \in Awaiting \cap LogOpen(log)
  <2>1. /\ s \in LogOpen(log) /\ s \in Row /\ frag[s] \in Lifecycle
        /\ ~InLog(Launched(s), log) /\ ~InLog(Cancelled(s), log)
    BY DEF Watch, Watched, LogOpen
  <2>2. frag[s] = "awaiting-launch"
    BY <2>1, FragmentTold DEF Lifecycle
  <2> QED BY <2>1, <2>2 DEF Awaiting
<1> QED BY <1>1

LEMMA WatchSearch ==
  ASSUME Inv, Shapes', Grows, OnlyReadable, NEW p \in Process, Watch(p),
         Scan(p) \/ Rescan(p) \/ List(p)
  PROVE  Watch(p)'
<1>1. /\ Shapes /\ Stage(p) /\ job[p] \in Jobs
      /\ pc[p] \in {"scanning", "rescanning", "listing"}
  BY DEF Inv, Knows, Shapes, Stage, Scan, Rescan, List
<1>2. CASE Rebuild(p, job[p], "rescanning")
  BY <1>1, <1>2, WatchRebuild DEF Continuations
<1>3. CASE job' = [job EXCEPT ![p].awaiting = Awaiting] /\ Go(p, "listing")
  <2>1. pc'[p] = "listing" /\ job'[p] = [job[p] EXCEPT !.awaiting = Awaiting]
    BY <1>1, <1>3 DEF Go, Shapes
  <2>2. /\ job'[p].kind = job[p].kind /\ job'[p].unhurt = job[p].unhurt
        /\ job'[p].already = job[p].already /\ job'[p].shown = job[p].shown
        /\ job'[p].place = job[p].place /\ job'[p].row = job[p].row
        /\ job'[p].awaiting = Awaiting
    BY <1>1, <2>1 DEF Jobs
  <2>3. ASSUME job[p].kind = "fuzzy", job[p].unhurt, NEW s \in Watched(p)
        PROVE  /\ pc'[p] \in {"listing", "comparing"} => s \in job'[p].awaiting
               /\ Busy(p, {"comparing", "refilling"})' => s \in job'[p].open
               /\ job'[p].row \in Row => job'[p].row = s
    BY <2>1, <2>2, <2>3, WatchedAwaits DEF Watch, Busy
  <2> QED BY <1>1, <2>2, <2>3, WatchStep
<1>4. CASE pc[p] = "listing" /\ Match(p, job[p].awaiting, LogOpen(log))
  <2>1. job[p].kind = "fuzzy" /\ job[p].unhurt
          => Watched(p) \subseteq job[p].awaiting \cap LogOpen(log)
    BY <1>4 DEF Watch, Watched
  <2> QED BY <1>1, <1>4, <2>1, WatchMatch
<1>5. CASE /\ pc[p] = "listing"
           /\ job' = [job EXCEPT ![p].open = LogOpen(log)] /\ Go(p, "comparing")
  <2>1. pc'[p] = "comparing" /\ job'[p] = [job[p] EXCEPT !.open = LogOpen(log)]
    BY <1>1, <1>5 DEF Go, Shapes
  <2>2. /\ job'[p].kind = job[p].kind /\ job'[p].unhurt = job[p].unhurt
        /\ job'[p].already = job[p].already /\ job'[p].shown = job[p].shown
        /\ job'[p].place = job[p].place /\ job'[p].row = job[p].row
        /\ job'[p].awaiting = job[p].awaiting /\ job'[p].open = LogOpen(log)
    BY <1>1, <2>1 DEF Jobs
  <2>3. ASSUME job[p].kind = "fuzzy", job[p].unhurt, NEW s \in Watched(p)
        PROVE  /\ pc'[p] \in {"listing", "comparing"} => s \in job'[p].awaiting
               /\ Busy(p, {"comparing", "refilling"})' => s \in job'[p].open
               /\ job'[p].row \in Row => job'[p].row = s
    BY <1>5, <2>1, <2>2, <2>3 DEF Watch, Watched, Busy
  <2> QED BY <1>1, <2>2, <2>3, WatchStep
<1> QED BY <1>2, <1>3, <1>4, <1>5 DEF Scan, Rescan, List

LEMMA WatchCompare ==
  ASSUME Inv, Shapes', Grows, OnlyReadable, NEW p \in Process, Watch(p),
         Compare(p) \/ Refill(p)
  PROVE  Watch(p)'
<1>1. /\ Shapes /\ Stage(p) /\ job[p] \in Jobs /\ pc[p] \in {"comparing", "refilling"}
  BY DEF Inv, Knows, Shapes, Stage, Compare, Refill
<1>2. CASE Return(p, "error")
  BY <1>1, <1>2, WatchReturned
<1>3. CASE pc[p] = "comparing" /\ Rebuild(p, job[p], "refilling")
  BY <1>1, <1>3, WatchRebuild DEF Continuations
<1>4. CASE pc[p] = "comparing" /\ Match(p, job[p].awaiting, job[p].open)
  <2>1. job[p].kind = "fuzzy" /\ job[p].unhurt
          => Watched(p) \subseteq job[p].awaiting \cap job[p].open
    BY <1>4 DEF Watch, Busy
  <2> QED BY <1>1, <1>4, <2>1, WatchMatch
<1>5. CASE pc[p] = "refilling" /\ Match(p, Awaiting, job[p].open)
  <2>1. job[p].kind = "fuzzy" /\ job[p].unhurt
          => Watched(p) \subseteq Awaiting \cap job[p].open
    BY <1>5, WatchedAwaits DEF Watch, Busy
  <2> QED BY <1>1, <1>5, <2>1, WatchMatch
<1> QED BY <1>2, <1>3, <1>4, <1>5 DEF Compare, Refill

\* The other steps of a call end it, ask for a rebuild or leave its job alone.
LEMMA WatchRest ==
  ASSUME Inv, Shapes', Grows, OnlyReadable, NEW p \in Process, Watch(p),
         \/ Find(p) \/ ReadFragment(p) \/ AppendEvent(p) \/ Timeout(p)
         \/ ReturnExisting(p) \/ Project(p) \/ RebuildRead(p) \/ RebuildWrite(p)
         \/ RebuildDone(p) \/ Crash(p)
  PROVE  Watch(p)'
<1>1. Shapes /\ Stage(p) /\ (pc[p] # "idle" => job[p] \in Jobs)
  BY DEF Inv, Knows, Shapes, Stage
<1>2. CASE \E status : Return(p, status)
  BY <1>1, <1>2, WatchReturned
<1>3. ASSUME pc[p] # "idle", NEW then \in {"reading", "done"}, Rebuild(p, job[p], then)
      PROVE  Watch(p)'
  BY <1>1, <1>3, WatchRebuild DEF Continuations
<1>4. ASSUME NEW at \in {"reading", "appending", "projecting", "returning"},
             Go(p, at), UNCHANGED job
      PROVE  Watch(p)'
  <2>1. pc'[p] = at /\ job'[p] = job[p]
    BY <1>1, <1>4 DEF Go, Shapes
  <2> QED BY <1>1, <2>1, WatchKept DEF Busy
<1>5. CASE Find(p)
  BY <1>2, <1>4, <1>5 DEF Find
<1>6. CASE ReadFragment(p)
  BY <1>2, <1>3, <1>4, <1>6 DEF ReadFragment
<1>7. CASE AppendEvent(p)
  BY <1>2, <1>4, <1>7 DEF AppendEvent
<1>8. CASE Timeout(p) \/ Crash(p)
  BY <1>2, <1>8 DEF Timeout, Crash
<1>9. CASE ReturnExisting(p) \/ Project(p)
  BY <1>2, <1>3, <1>4, <1>9 DEF ReturnExisting, Project, Done
<1>10. CASE RebuildRead(p) \/ RebuildWrite(p)
  <2>1. /\ pc'[p] \in {"restoring"} /\ pc[p] \in {"rebuilding", "restoring"}
        /\ job'[p] = job[p]
    BY <1>1, <1>10 DEF RebuildRead, RebuildWrite, Shapes
  <2> QED BY <1>1, <2>1, WatchKept DEF Busy
<1>11. CASE RebuildDone(p)
  <2>1. CASE Done(p)
    BY <1>2, <2>1 DEF Done
  <2>2. CASE pc[p] = "restoring" /\ Go(p, job[p].then) /\ UNCHANGED job
    <3>1. pc'[p] = job[p].then /\ job'[p] = job[p] /\ job[p].then \in Continuations
      BY <1>1, <2>2 DEF Go, Shapes, Jobs
    <3> QED BY <1>1, <2>2, <3>1, WatchKept DEF Busy, Continuations
  <2> QED BY <1>11, <2>1, <2>2 DEF RebuildDone
<1> QED BY <1>5, <1>6, <1>7, <1>8, <1>9, <1>10, <1>11

\* A fuzzy call begins to watch: what it is shown is awaiting.
LEMMA WatchCall ==
  ASSUME Inv, NEW p \in Process, CallEmit(p) \/ CallExact(p) \/ CallFuzzy(p) \/ CallCancel(p)
  PROVE  Watch(p)'
<1>1. Shapes
  BY DEF Inv
<1>2. CASE CallEmit(p) \/ CallExact(p) \/ CallCancel(p)
  <2>1. job'[p].kind # "fuzzy"
    BY <1>1, <1>2 DEF CallEmit, CallExact, CallCancel, Call, Job, Shapes
  <2> QED BY <2>1 DEF Watch
<1>3. CASE CallFuzzy(p)
  <2>1. PICK place \in Place : Call(p, Job("fuzzy", NoRow, place), "scanning")
    BY <1>3 DEF CallFuzzy
  <2>2. /\ pc'[p] = "scanning" /\ job'[p] = Job("fuzzy", NoRow, place)
        /\ log' = log /\ frag' = frag
    BY <1>1, <2>1 DEF Call, Shapes
  <2>3. /\ job'[p].row \notin Row /\ job'[p].already = LogOpen(log)
        /\ job'[p].shown = Awaiting
    BY <2>2, NoRowAssumption DEF Job
  <2>4. \A s \in job'[p].already : InLog(Emitted(s), log')
    BY <2>2, <2>3 DEF LogOpen
  <2>5. \A s \in Watched(p)' : frag'[s] \in Lifecycle
    BY <2>2, <2>3 DEF Watched, Awaiting, Lifecycle
  <2>6. \A s : Emitted(s)' = Emitted(s)
    BY DEF Emitted, Event
  <2> QED BY <2>2, <2>3, <2>4, <2>5, <2>6 DEF Watch, Busy
<1> QED BY <1>2, <1>3

Watching == Inv /\ \A p \in Process : Watch(p)

LEMMA NextWatching == Watching /\ [Next]_vars => Watching'
<1> SUFFICES ASSUME Watching, [Next]_vars PROVE Watching'
  OBVIOUS
<1>1. Inv /\ Inv' /\ Grows /\ Shapes /\ Shapes'
  BY NextInv, LogGrows DEF Watching, Inv
<1>2. CASE \E r \in Row : Damage(r)
  <2>1. ASSUME NEW q \in Process PROVE Watch(q)'
    <3>1. CASE pc[q] = "idle"
      <4>1. job'[q] = NoJob
        BY <1>1, <1>2, <3>1 DEF Damage, Inv, Knows, Stage
      <4> QED BY <4>1 DEF Watch, NoJob
    <3>2. CASE pc[q] # "idle"
      <4>1. job[q] \in Jobs
        BY <1>1, <3>2 DEF Inv, Knows, Shapes, Stage
      <4>2. ~job'[q].unhurt
        BY <1>2, <3>2, <4>1 DEF Damage, Jobs
      <4> QED BY <4>2 DEF Watch
    <3> QED BY <3>1, <3>2
  <2> QED BY <1>1, <2>1 DEF Watching
<1>3. CASE ~ \E r \in Row : Damage(r)
  <2>1. OnlyReadable
    BY <1>1, <1>3, FragmentsStayReadable
  <2>2. ASSUME NEW q \in Process, pc'[q] = pc[q], job'[q] = job[q] PROVE Watch(q)'
    BY <1>1, <2>1, <2>2, WatchKept DEF Watching
  <2>3. ASSUME NEW p \in Process,
               \/ CallEmit(p) \/ CallExact(p) \/ CallFuzzy(p) \/ CallCancel(p)
               \/ Step(p) \/ Crash(p)
        PROVE  Watch(p)'
    BY <1>1, <2>1, <2>3, WatchCall, WatchSearch, WatchCompare, WatchRest DEF Watching, Step
  <2>4. ASSUME NEW p \in Process,
               \/ CallEmit(p) \/ CallExact(p) \/ CallFuzzy(p) \/ CallCancel(p)
               \/ Step(p) \/ Crash(p),
               NEW q \in Process \ {p}
        PROVE  pc'[q] = pc[q] /\ job'[q] = job[q]
    <3>1. CASE CallEmit(p) \/ CallExact(p) \/ CallFuzzy(p) \/ CallCancel(p)
      BY <1>1, <3>1 DEF CallEmit, CallExact, CallFuzzy, CallCancel, Call, Shapes
    <3>2. CASE Crash(p) \/ Timeout(p)
      BY <1>1, <3>2 DEF Crash, Timeout, Return, Shapes
    <3>3. CASE Find(p) \/ Scan(p) \/ Rescan(p) \/ List(p) \/ Compare(p) \/ Refill(p)
      BY <1>1, <3>3
      DEF Find, Scan, Rescan, List, Compare, Refill, Match, Return, Go, Rebuild, Shapes
    <3>4. CASE ReadFragment(p) \/ AppendEvent(p) \/ ReturnExisting(p) \/ Project(p)
      BY <1>1, <3>4
      DEF ReadFragment, AppendEvent, ReturnExisting, Project, Done, Return, Go, Rebuild,
          Shapes
    <3>5. CASE RebuildRead(p) \/ RebuildWrite(p) \/ RebuildDone(p)
      BY <1>1, <3>5 DEF RebuildRead, RebuildWrite, RebuildDone, Done, Return, Go, Shapes
    <3> QED BY <2>4, <3>1, <3>2, <3>3, <3>4, <3>5 DEF Step
  <2>5. CASE UNCHANGED vars
    BY <1>1, <2>2, <2>5 DEF Watching, vars, procVars
  <2>6. CASE Next
    <3>1. PICK p \in Process : \/ CallEmit(p) \/ CallExact(p) \/ CallFuzzy(p)
                               \/ CallCancel(p) \/ Step(p) \/ Crash(p)
      BY <1>3, <2>6 DEF Next
    <3> QED BY <1>1, <2>2, <2>3, <2>4, <3>1 DEF Watching
  <2> QED BY <2>5, <2>6
<1> QED BY <1>2, <1>3

\* A launch by place is recorded only if no other handoff of that place was open
\* and shown so from before the call until then, whatever rebuilds of other
\* processes write while the call compares what it read.
THEOREM ShownRivalsAreRefused == Spec => FuzzyRefusesShownRivals
<1>1. Init => Watching
  <2>1. ASSUME Init, NEW p \in Process PROVE Watch(p)
    BY <2>1 DEF Init, Watch, NoJob
  <2> QED BY <2>1, InitInv DEF Watching
<1>2. Watching /\ [Next]_vars =>
        [\A p \in Process :
           LaunchesByPlace(p) => Rivals(p, job[p].already \cap job[p].shown) = {}]_vars
  <2> SUFFICES ASSUME Watching, NEW p \in Process, LaunchesByPlace(p)
               PROVE  Rivals(p, job[p].already \cap job[p].shown) = {}
    OBVIOUS
  <2>1. /\ job[p].kind = "fuzzy" /\ job[p].unhurt /\ pc[p] = "appending"
    BY DEF LaunchesByPlace
  <2>2. job[p].row \in Row
    BY <2>1 DEF Watching, Inv, Knows, Stage, Busy
  <2>3. \A s \in Watched(p) : job[p].row = s
    BY <2>1, <2>2 DEF Watching, Watch
  <2> QED BY <2>3 DEF Rivals, Watched
<1> QED BY <1>1, <1>2, NextWatching, PTL DEF Spec, FuzzyRefusesShownRivals
-----------------------------------------------------------------------------
(***************************************************************************)
(* Handoffs are what HandoffRegister promises: a line of the log happens   *)
(* to one handoff, and whoever launched one is told so.                    *)
(***************************************************************************)
\* Nothing happens to a handoff before it is emitted.
EmittedFirst ==
  /\ \A p \in Process : job[p].kind = "cancel" => InLog(Emitted(job[p].row), log)
  /\ \A r \in Row : InLog(Cancelled(r), log) => InLog(Emitted(r), log)

\* What a step appends, if anything.
LEMMA LogMoves ==
  ASSUME Inv, [Next]_vars
  PROVE  \/ log' = log
         \/ \E p \in Process : AppendEvent(p) /\ log' = Append(log, EventOf(job[p]))
<1>1. ASSUME NEW p \in Process, Step(p) PROVE log' = log \/ AppendEvent(p)
  BY <1>1 DEF Step, Find, Scan, Rescan, List, Compare, Refill, ReadFragment, Timeout,
     ReturnExisting, Project, RebuildRead, RebuildWrite, RebuildDone, world
<1>2. ASSUME NEW p \in Process, AppendEvent(p)
      PROVE  log' = log \/ log' = Append(log, EventOf(job[p]))
  BY <1>2 DEF AppendEvent, Record, Refused, Recorded
<1> QED BY <1>1, <1>2
        DEF Next, CallEmit, CallExact, CallFuzzy, CallCancel, Call, Crash, Damage, vars

LEMMA InLogOfMore ==
  ASSUME NEW l \in Seq(Events), NEW e \in Events, NEW x
  PROVE  InLog(x, Append(l, e)) <=> InLog(x, l) \/ x = e
<1>1. /\ DOMAIN Append(l, e) = 1 .. Len(l) + 1 /\ DOMAIN l = 1 .. Len(l) /\ Len(l) \in Nat
      /\ \A i \in 1 .. Len(l) : Append(l, e)[i] = l[i]
      /\ Append(l, e)[Len(l) + 1] = e
  BY AppendedLog
<1>2. 1 .. Len(l) + 1 = (1 .. Len(l)) \cup {Len(l) + 1}
  BY <1>1
<1> QED BY <1>1, <1>2 DEF InLog

LEMMA EventsDiffer ==
  ASSUME NEW r, NEW s
  PROVE  /\ Emitted(r) # Launched(s) /\ Emitted(r) # Cancelled(s) /\ Launched(r) # Cancelled(s)
         /\ Emitted(r) = Emitted(s) => r = s
         /\ Launched(r) = Launched(s) => r = s
         /\ Cancelled(r) = Cancelled(s) => r = s
BY DEF Emitted, Launched, Cancelled, Event

\* A cancel is called for a handoff that is in the log.
LEMMA CancelJobs ==
  ASSUME Inv, [Next]_vars, NEW q \in Process, job'[q].kind = "cancel"
  PROVE  \/ job[q].kind = "cancel" /\ job'[q].row = job[q].row
         \/ InLog(Emitted(job'[q].row), log)
<1>1. Shapes /\ \A p \in Process : Stage(p)
  BY DEF Inv, Knows
<1>2. ASSUME NEW p \in Process, p # q, CallEmit(p) \/ CallExact(p) \/ CallFuzzy(p) \/ CallCancel(p)
      PROVE  job'[q] = job[q]
  BY <1>1, <1>2 DEF CallEmit, CallExact, CallFuzzy, CallCancel, Call, Shapes
<1>3. CASE CallEmit(q) \/ CallExact(q) \/ CallFuzzy(q) \/ CallCancel(q)
  <2>1. ASSUME NEW kind, NEW r, NEW place
        PROVE  Job(kind, r, place).kind = kind /\ Job(kind, r, place).row = r
    BY DEF Job
  <2>2. CASE CallCancel(q)
    <3>1. PICK r \in Row : /\ InLog(Emitted(r), log)
                           /\ Call(q, Job("cancel", r, PlaceOf[r]), "appending")
      BY <2>2 DEF CallCancel
    <3>2. job'[q] = Job("cancel", r, PlaceOf[r])
      BY <1>1, <3>1 DEF Call, Shapes
    <3> QED BY <2>1, <3>1, <3>2
  <2>3. CASE CallEmit(q) \/ CallExact(q) \/ CallFuzzy(q)
    <3>1. \E kind \in {"emit", "exact", "fuzzy"} : \E r, place : job'[q] = Job(kind, r, place)
      BY <1>1, <2>3 DEF CallEmit, CallExact, CallFuzzy, Call, Shapes
    <3> QED BY <2>1, <3>1
  <2> QED BY <1>3, <2>2, <2>3
<1>4. ASSUME NEW p \in Process, NEW status, Return(p, status) PROVE job'[q] \in {job[q], NoJob}
  BY <1>1, <1>4 DEF Return, Shapes
<1>5. ASSUME NEW p \in Process, NEW j \in Jobs, NEW then, Rebuild(p, j, then)
      PROVE  job'[q] = job[q] \/ (p = q /\ job'[q].kind = j.kind /\ job'[q].row = j.row)
  <2> DEFINE w == [j EXCEPT !.rebuilt = TRUE, !.then = then]
  <2>1. w.kind = j.kind /\ w.row = j.row
    BY DEF Jobs
  <2>2. job' = [job EXCEPT ![p] = w]
    BY <1>5 DEF Rebuild
  <2> HIDE DEF w
  <2>3. job'[q] = IF p = q THEN w ELSE job[q]
    BY <1>1, <2>2 DEF Shapes
  <2> QED BY <2>1, <2>3
<1>6. ASSUME NEW p \in Process, Done(p) PROVE job'[q] \in {job[q], NoJob}
  BY <1>4, <1>6 DEF Done
<1>7. ASSUME NEW p \in Process, NEW awaiting, NEW open, Match(p, awaiting, open), job[p] \in Jobs
      PROVE  job'[q] \in {job[q], NoJob} \/ (p = q /\ job'[q].kind = job[q].kind)
  <2>1. CASE Return(p, "not_found") \/ Return(p, "ambiguous")
    BY <1>4, <2>1
  <2>2. ASSUME NEW r \in Row, job' = [job EXCEPT ![p] = [@ EXCEPT !.row = r, !.rebuilt = FALSE]]
        PROVE  job'[q] = job[q] \/ (p = q /\ job'[q].kind = job[q].kind)
    <3> DEFINE w == [job[p] EXCEPT !.row = r, !.rebuilt = FALSE]
    <3>1. w.kind = job[p].kind
      BY <1>7 DEF Jobs
    <3>2. job' = [job EXCEPT ![p] = w]
      BY <2>2
    <3> HIDE DEF w
    <3>3. job'[q] = IF p = q THEN w ELSE job[q]
      BY <1>1, <3>2 DEF Shapes
    <3> QED BY <3>1, <3>3
  <2> QED BY <1>7, <2>1, <2>2 DEF Match
<1>8. ASSUME NEW p \in Process,
             \/ Find(p) \/ AppendEvent(p) \/ Timeout(p) \/ ReturnExisting(p) \/ RebuildRead(p)
             \/ RebuildWrite(p) \/ RebuildDone(p) \/ Crash(p)
      PROVE  job'[q] \in {job[q], NoJob}
  BY <1>4, <1>6, <1>8 DEF Find, AppendEvent, Timeout, ReturnExisting, RebuildRead, RebuildWrite,
     RebuildDone, Crash
<1>9. ASSUME NEW p \in Process, Scan(p) \/ Rescan(p) \/ List(p) \/ Compare(p) \/ Refill(p)
      PROVE  job'[q] \in {job[q], NoJob} \/ job'[q].kind = "fuzzy"
  <2>1. job[p].kind = "fuzzy" /\ job[p] \in Jobs
    BY <1>1, <1>9 DEF Scan, Rescan, List, Compare, Refill, Stage, Busy, Shapes
  <2>2. CASE \E then : Rebuild(p, job[p], then)
    BY <1>5, <2>1, <2>2
  <2>3. CASE \E awaiting, open : Match(p, awaiting, open)
    BY <1>7, <2>1, <2>3
  <2>4. CASE \E status : Return(p, status)
    BY <1>4, <2>4
  <2>5. ASSUME NEW w, job' = [job EXCEPT ![p].awaiting = w] \/ job' = [job EXCEPT ![p].open = w]
        PROVE  job'[q] = job[q] \/ job'[q].kind = "fuzzy"
    <3> DEFINE j == IF job' = [job EXCEPT ![p].awaiting = w] THEN [job[p] EXCEPT !.awaiting = w]
                    ELSE [job[p] EXCEPT !.open = w]
    <3>1. j.kind = job[p].kind
      BY <2>1 DEF Jobs
    <3>2. job' = [job EXCEPT ![p] = j]
      BY <2>5
    <3> HIDE DEF j
    <3>3. job'[q] = IF p = q THEN j ELSE job[q]
      BY <1>1, <3>2 DEF Shapes
    <3> QED BY <2>1, <3>1, <3>3
  <2> QED BY <1>9, <2>2, <2>3, <2>4, <2>5 DEF Scan, Rescan, List, Compare, Refill
<1>10. ASSUME NEW p \in Process, ReadFragment(p)
       PROVE  job'[q] \in {job[q], NoJob} \/ job'[q].kind # "cancel"
  <2>1. job[p].kind \in {"exact", "fuzzy"} /\ job[p] \in Jobs
    BY <1>1, <1>10 DEF ReadFragment, Stage, Busy, Shapes
  <2>2. CASE Rebuild(p, job[p], "reading")
    BY <1>5, <2>1, <2>2
  <2>3. CASE (\E status : Return(p, status)) \/ UNCHANGED job
    BY <1>4, <2>3
  <2> QED BY <1>10, <2>2, <2>3 DEF ReadFragment
<1>11. ASSUME NEW p \in Process, Project(p)
       PROVE  \/ job'[q] \in {job[q], NoJob}
              \/ p = q /\ job'[q].kind = job[q].kind /\ job'[q].row = job[q].row
  <2>1. job[p] \in Jobs
    BY <1>1, <1>11 DEF Project, Stage, Shapes
  <2>2. Rebuild(p, job[p], "done") \/ Done(p)
    BY <1>11 DEF Project
  <2> QED BY <1>5, <1>6, <2>1, <2>2
<1>12. ASSUME NEW r \in Row, Damage(r)
       PROVE  job'[q].kind = job[q].kind /\ job'[q].row = job[q].row
  BY <1>1, <1>12 DEF Damage, Shapes, Stage, Jobs
<1>13. NoJob.kind # "cancel"
  BY DEF NoJob
<1>14. ASSUME job'[q] \in {job[q], NoJob} PROVE job[q].kind = "cancel" /\ job'[q].row = job[q].row
  BY <1>13, <1>14
<1>15. ASSUME NEW p \in Process, Step(p) \/ Crash(p)
       PROVE  job[q].kind = "cancel" /\ job'[q].row = job[q].row
  BY <1>8, <1>9, <1>10, <1>11, <1>14, <1>15 DEF Step
<1>16. CASE UNCHANGED vars
  BY <1>14, <1>16 DEF vars, procVars
<1> QED BY <1>2, <1>3, <1>12, <1>14, <1>15, <1>16 DEF Next

LEMMA FirstAtInit == Init => EmittedFirst
BY DEF Init, EmittedFirst, NoJob, InLog

LEMMA FirstStays ==
  ASSUME Inv, EmittedFirst, [Next]_vars
  PROVE  EmittedFirst'
<1>1. Inv' /\ Grows
  BY NextInv, LogGrows
<1>2. log \in Seq(Events) /\ log' \in Seq(Events)
  BY <1>1 DEF Inv, Shapes
<1>3. \A e : InLog(e, log) => InLog(e, log')
  BY <1>1, <1>2, StaysInLog
<1>4. ASSUME NEW q \in Process, job'[q].kind = "cancel"
      PROVE  InLog(Emitted(job'[q].row), log')
  <2>1. InLog(Emitted(job'[q].row), log)
    BY <1>4, CancelJobs DEF EmittedFirst
  <2> QED BY <1>3, <2>1
<1>5. ASSUME NEW r \in Row, InLog(Cancelled(r), log')
      PROVE  InLog(Emitted(r), log')
  <2>1. CASE InLog(Cancelled(r), log)
    BY <1>3, <2>1 DEF EmittedFirst
  <2>2. CASE ~InLog(Cancelled(r), log)
    <3>1. PICK p \in Process : AppendEvent(p) /\ log' = Append(log, EventOf(job[p]))
      BY <1>5, <2>2, LogMoves
    <3>2. job[p] \in Jobs /\ job[p].row \in Row
      BY <3>1 DEF Inv, Knows, Shapes, Stage, Busy, AppendEvent
    <3>3. EventOf(job[p]) \in Events
      BY <3>2, EventOfShape
    <3>4. EventOf(job[p]) = Cancelled(r)
      BY <1>2, <1>5, <2>2, <3>1, <3>3, InLogOfMore
    <3>5. job[p].kind = "cancel" /\ job[p].row = r
      BY <3>2, <3>4, EventOfShape, EventsDiffer DEF Jobs, Kinds
    <3> QED BY <1>3, <3>5 DEF EmittedFirst
  <2> QED BY <2>1, <2>2
<1>6. \A x : Emitted(x)' = Emitted(x) /\ Cancelled(x)' = Cancelled(x)
  BY DEF Emitted, Cancelled, Event
<1> QED BY <1>4, <1>5, <1>6 DEF EmittedFirst

\* The handoffs as HandoffRegister has them.
Pasts == [r \in Row |-> Past(r)]
Launchings == [p \in Process |-> Launching(p)]
Answers == [p \in Process |-> Told(p)]

LEMMA PastIs ==
  ASSUME NEW r
  PROVE  /\ Past(r) \in SUBSET EventTypes
         /\ "emitted" \in Past(r) <=> InLog(Emitted(r), log)
         /\ "launched" \in Past(r) <=> InLog(Launched(r), log)
         /\ "cancelled" \in Past(r) <=> InLog(Cancelled(r), log)
BY DEF Past, EventTypes, Emitted, Launched, Cancelled

LEMMA PastStays ==
  ASSUME log' = log
  PROVE  Pasts' = Pasts
BY DEF Pasts, Past, InLog, Event

\* A new line of the log happens to its handoff, and to no other.
LEMMA PastOfMore ==
  ASSUME log \in Seq(Events), NEW s \in Row, NEW t \in EventTypes,
         log' = Append(log, Event(t, s))
  PROVE  Pasts' = [Pasts EXCEPT ![s] = @ \cup {t}]
<1>1. Event(t, s) \in Events
  BY DEF Events
<1>2. \A r, u : Event(u, r) = Event(t, s) <=> r = s /\ u = t
  BY DEF Event
<1>3. ASSUME NEW r \in Row
      PROVE  Past(r)' = IF r = s THEN Past(r) \cup {t} ELSE Past(r)
  <2>1. \A u : InLog(Event(u, r), log') <=> InLog(Event(u, r), log) \/ (r = s /\ u = t)
    BY <1>1, <1>2, InLogOfMore
  <2>2. Past(r)' = {u \in EventTypes : InLog(Event(u, r), log')}
    BY DEF Past, EventTypes, Event
  <2>3. Past(r) = {u \in EventTypes : InLog(Event(u, r), log)}
    BY DEF Past, EventTypes
  <2> QED BY <2>1, <2>2, <2>3
<1> QED BY <1>3 DEF Pasts

\* What a process has launched or been told changes by its own steps only.
LEMMA OthersLaunch ==
  ASSUME NEW p \in Process,
         \A q \in Process \ {p} : pc'[q] = pc[q] /\ job'[q] = job[q]
  PROVE  Launchings' = [Launchings EXCEPT ![p] = Launching(p)']
<1>1. ASSUME NEW q \in Process \ {p} PROVE Launching(q)' = Launching(q)
  BY <1>1 DEF Launching
<1> QED BY <1>1 DEF Launchings

LEMMA OthersAreTold ==
  ASSUME NEW p \in Process, \A q \in Process \ {p} : result'[q] = result[q]
  PROVE  Answers' = [Answers EXCEPT ![p] = Told(p)']
<1>1. ASSUME NEW q \in Process \ {p} PROVE Told(q)' = Told(q)
  BY <1>1 DEF Told, NoResult
<1> QED BY <1>1 DEF Answers

\* A step that HandoffRegister does not see.
LEMMA Unseen ==
  ASSUME NEW p \in Process, log' = log, result' = result,
         \A q \in Process \ {p} : pc'[q] = pc[q] /\ job'[q] = job[q],
         Launching(p)' = Launching(p)
  PROVE  UNCHANGED Register!vars
<1>1. Pasts' = Pasts
  BY PastStays
<1>2. Launchings' = Launchings
  BY OthersLaunch DEF Launchings
<1>3. Answers' = Answers
  BY DEF Answers, Told, NoResult
<1> QED BY <1>1, <1>2, <1>3 DEF Register!vars, Pasts, Launchings, Answers
-----------------------------------------------------------------------------
\* What a call may be told of its handoff.
Tellable(p, status) ==
  \/ Launching(p) = job[p].row /\ job[p].row \in Row /\ status = "launched"
  \/ /\ Launching(p) = NoRow /\ job[p].row \in Row
     /\ \/ status = "emitted" /\ InLog(Emitted(job[p].row), log)
        \/ status = "rejected" /\ ~InLog(Emitted(job[p].row), log)
        \/ status = "already_launched" /\ InLog(Launched(job[p].row), log)
        \/ status \in {"cancelled", "not_launchable"} /\ InLog(Cancelled(job[p].row), log)
  \/ Launching(p) = NoRow /\ status \in {"not_found", "ambiguous", "error", "timeout"}
  \/ status = "crashed"

\* The end of a call is its answer.
LEMMA ReturnTells ==
  ASSUME Inv, NEW p \in Process, pc[p] # "idle", NEW status, Return(p, status), log' = log,
         Tellable(p, status)
  PROVE  Register!Next
<1>1. Shapes /\ job[p] \in Jobs
  BY DEF Inv, Knows, Shapes, Stage
<1> DEFINE r == job[p].row
<1>2. r \in Row \cup {NoRow} /\ NoRow \notin Row /\ job[p].kind \in Kinds
  BY <1>1, NoRowAssumption DEF Jobs
<1>3. /\ pc'[p] = "idle" /\ job'[p] = NoJob
      /\ result'[p] = [kind |-> job[p].kind, row |-> r, status |-> status,
                       unhurt |-> job[p].unhurt]
      /\ \A q \in Process \ {p} : /\ pc'[q] = pc[q] /\ job'[q] = job[q]
                                  /\ result'[q] = result[q]
  BY <1>1 DEF Return, Shapes
<1>4. Pasts' = Pasts
  BY PastStays
<1>5. Launchings' = [Launchings EXCEPT ![p] = NoRow]
  <2>1. Launching(p)' = NoRow
    BY <1>3 DEF Launching, NoJob
  <2> QED BY <1>3, <2>1, OthersLaunch
<1>6. Answers' = [Answers EXCEPT ![p] = [row |-> r, status |-> status]]
  <2>1. /\ result'[p].kind = job[p].kind /\ result'[p].row = r
        /\ result'[p].status = status
    BY <1>3
  <2>2. result'[p] # NoResult
    BY <1>2, <2>1 DEF NoResult, Kinds
  <2>3. Told(p)' = [row |-> r, status |-> status]
    BY <2>1, <2>2 DEF Told, NoResult
  <2> QED BY <1>3, <2>3, OthersAreTold
<1>7. Launchings[p] = Launching(p) /\ (r \in Row => Pasts[r] = Past(r))
  BY DEF Launchings, Pasts
<1>8. status \in Register!Tellable(p, r)
  BY <1>2, <1>7, PastIs
  DEF Tellable, Register!Tellable, Register!Happened, Register!Excuses, Pasts, Launchings
<1>9. Register!Tell(p, r, status)
  BY <1>4, <1>5, <1>6, <1>8 DEF Register!Tell, Pasts, Launchings, Answers
<1> HIDE DEF r
<1> QED BY <1>2, <1>8, <1>9 DEF Register!Next

\* What Done reports may be told.
LEMMA DoneTells ==
  ASSUME Inv, NEW p \in Process, Busy(p, {"projecting", "returning", "done"}),
         Done(p), log' = log
  PROVE  Register!Next
<1>1. /\ job[p].row \in Row /\ InLog(EventOf(job[p]), log) /\ job[p] \in Jobs
      /\ pc[p] # "idle" /\ (pc[p] = "returning" => job[p].kind = "cancel")
  BY DEF Inv, Knows, Shapes, Stage, Facts, Busy
<1>2. CASE job[p].kind = "emit"
  <2>1. Return(p, "emitted") /\ Tellable(p, "emitted")
    BY <1>1, <1>2, EventOfShape DEF Done, Tellable, Launching
  <2> QED BY <1>1, <2>1, ReturnTells
<1>3. CASE job[p].kind = "cancel"
  <2>1. Return(p, "cancelled") /\ Tellable(p, "cancelled")
    BY <1>1, <1>3, EventOfShape DEF Done, Tellable, Launching
  <2> QED BY <1>1, <2>1, ReturnTells
<1>4. CASE job[p].kind \in {"exact", "fuzzy"}
  <2>1. job[p].then \in Continuations /\ pc[p] \in Points
    BY <1>1 DEF Jobs, Inv, Shapes
  <2>2. Launching(p) = job[p].row
    <3>1. pc[p] = "projecting" \/ (pc[p] \in {"rebuilding", "restoring"} /\ job[p].then = "done")
      BY <1>1, <1>4, <2>1 DEF Busy, Continuations, Points
    <3> QED BY <1>4, <3>1 DEF Launching
  <2>3. Return(p, "launched") /\ Tellable(p, "launched")
    BY <1>1, <1>4, <2>2 DEF Done, Tellable
  <2> QED BY <1>1, <2>3, ReturnTells
<1> QED BY <1>1, <1>2, <1>3, <1>4 DEF Jobs, Kinds

LEMMA GoUnseen ==
  ASSUME Inv, NEW p \in Process, NEW at, Go(p, at), log' = log,
         NEW w, job' = [job EXCEPT ![p] = w], Launching(p)' = Launching(p)
  PROVE  UNCHANGED Register!vars
<1>1. \A q \in Process \ {p} : pc'[q] = pc[q] /\ job'[q] = job[q]
  BY DEF Go, Inv, Shapes
<1>2. result' = result
  BY DEF Go
<1> QED BY <1>1, <1>2, Unseen

\* Where nothing is launched yet.
Early == {"finding", "scanning", "rescanning", "listing", "comparing", "refilling",
          "reading", "appending", "returning"}

LEMMA EarlyUnseen ==
  ASSUME Inv, NEW p \in Process, pc[p] \in Early, NEW at \in Early, Go(p, at), log' = log,
         NEW w, job' = [job EXCEPT ![p] = w]
  PROVE  UNCHANGED Register!vars
<1>1. pc'[p] = at
  BY DEF Go, Inv, Shapes
<1>2. Launching(p) = NoRow /\ Launching(p)' = NoRow
  BY <1>1 DEF Launching, Early
<1> QED BY <1>2, GoUnseen

\* A rebuild goes on with what its caller was about to do.
LEMMA RebuildUnseen ==
  ASSUME Inv, NEW p \in Process, NEW then, Rebuild(p, job[p], then), log' = log,
         \/ pc[p] \in Early /\ then # "done"
         \/ pc[p] = "projecting" /\ then = "done"
  PROVE  UNCHANGED Register!vars
<1>1. job[p] \in Jobs /\ Shapes
  BY DEF Inv, Knows, Shapes, Stage, Early
<1> DEFINE w == [job[p] EXCEPT !.rebuilt = TRUE, !.then = then]
<1>2. w.kind = job[p].kind /\ w.row = job[p].row /\ w.then = then
  BY <1>1 DEF Jobs
<1>3. job' = [job EXCEPT ![p] = w] /\ Go(p, "rebuilding")
  BY DEF Rebuild
<1> HIDE DEF w
<1>4. job'[p] = w /\ pc'[p] = "rebuilding"
  BY <1>1, <1>3 DEF Go, Shapes
<1>5. Launching(p)' = Launching(p)
  BY <1>2, <1>4 DEF Launching, Early
<1> QED BY <1>3, <1>5, GoUnseen

LEMMA MatchTells ==
  ASSUME Inv, NEW p \in Process, pc[p] \in Early, log' = log,
         NEW awaiting, NEW open, Match(p, awaiting, open)
  PROVE  [Register!Next]_(Register!vars)
<1>1. Launching(p) = NoRow /\ pc[p] # "idle"
  BY DEF Launching, Early
<1>2. ASSUME NEW status \in {"not_found", "ambiguous"}, Return(p, status)
      PROVE  Register!Next
  BY <1>1, <1>2, ReturnTells DEF Tellable
<1>3. ASSUME NEW r, Go(p, "reading"),
             job' = [job EXCEPT ![p] = [@ EXCEPT !.row = r, !.rebuilt = FALSE]]
      PROVE  UNCHANGED Register!vars
  <2> DEFINE w == [job[p] EXCEPT !.row = r, !.rebuilt = FALSE]
  <2>1. job' = [job EXCEPT ![p] = w] /\ "reading" \in Early
    BY <1>3 DEF Early
  <2> HIDE DEF w
  <2> QED BY <1>3, <2>1, EarlyUnseen
<1> QED BY <1>2, <1>3 DEF Match

LEMMA SearchTells ==
  ASSUME Inv, NEW p \in Process,
         \/ Find(p) \/ Scan(p) \/ Rescan(p) \/ List(p) \/ Compare(p) \/ Refill(p)
         \/ ReadFragment(p)
  PROVE  [Register!Next]_(Register!vars)
<1>1. /\ log' = log /\ pc[p] \in Early \ {"appending", "returning"} /\ Shapes
  BY DEF Inv, Find, Scan, Rescan, List, Compare, Refill, ReadFragment, world, Early
<1>2. Launching(p) = NoRow /\ pc[p] # "idle"
  BY <1>1 DEF Launching, Early
<1>3. /\ pc[p] \in {"finding", "reading"} => job[p].row \in Row
  BY DEF Inv, Knows, Stage, Busy
<1>4. ASSUME NEW status, Return(p, status), status \in {"not_found", "error"}
      PROVE  Register!Next
  BY <1>1, <1>2, <1>4, ReturnTells DEF Tellable
<1>5. ASSUME NEW at \in Early, Go(p, at), NEW w, job' = [job EXCEPT ![p] = w]
      PROVE  UNCHANGED Register!vars
  BY <1>1, <1>5, EarlyUnseen
<1>6. ASSUME NEW at \in Early, Go(p, at), UNCHANGED job
      PROVE  UNCHANGED Register!vars
  <2>1. job' = [job EXCEPT ![p] = job[p]]
    BY <1>1, <1>6 DEF Shapes
  <2> QED BY <1>5, <1>6, <2>1
<1>7. ASSUME NEW then, Rebuild(p, job[p], then), then # "done"
      PROVE  UNCHANGED Register!vars
  BY <1>1, <1>7, RebuildUnseen
<1>8. ASSUME NEW awaiting, NEW open, Match(p, awaiting, open)
      PROVE  [Register!Next]_(Register!vars)
  BY <1>1, <1>8, MatchTells
<1>9. {"listing", "comparing", "reading", "appending"} \subseteq Early
  BY DEF Early
<1>10. CASE Find(p)
  <2>1. CASE Return(p, "rejected") /\ ~InLog(Emitted(job[p].row), log)
    <3>1. Tellable(p, "rejected")
      BY <1>2, <1>3, <1>10, <2>1 DEF Tellable, Find
    <3> QED BY <1>1, <1>2, <2>1, <3>1, ReturnTells
  <2> QED BY <1>6, <1>9, <1>10, <2>1 DEF Find
<1>11. CASE Scan(p) \/ Rescan(p)
  <2>1. CASE job' = [job EXCEPT ![p].awaiting = Awaiting] /\ Go(p, "listing")
    <3> DEFINE w == [job[p] EXCEPT !.awaiting = Awaiting]
    <3>1. job' = [job EXCEPT ![p] = w]
      BY <2>1
    <3> HIDE DEF w
    <3> QED BY <1>5, <1>9, <2>1, <3>1
  <2> QED BY <1>7, <1>11, <2>1 DEF Scan, Rescan
<1>12. CASE List(p)
  <2>1. CASE job' = [job EXCEPT ![p].open = LogOpen(log)] /\ Go(p, "comparing")
    <3> DEFINE w == [job[p] EXCEPT !.open = LogOpen(log)]
    <3>1. job' = [job EXCEPT ![p] = w]
      BY <2>1
    <3> HIDE DEF w
    <3> QED BY <1>5, <1>9, <2>1, <3>1
  <2> QED BY <1>8, <1>12, <2>1 DEF List
<1>13. CASE Compare(p) \/ Refill(p)
  BY <1>4, <1>7, <1>8, <1>13 DEF Compare, Refill
<1>14. CASE ReadFragment(p)
  <2>1. CASE frag[job[p].row] = "active" /\ Return(p, "already_launched")
    <3>1. Tellable(p, "already_launched")
      BY <1>2, <1>3, <1>14, <2>1, FragmentTold DEF Tellable, ReadFragment
    <3> QED BY <1>1, <1>2, <2>1, <3>1, ReturnTells
  <2>2. CASE frag[job[p].row] = "cancelled" /\ Return(p, "not_launchable")
    <3>1. Tellable(p, "not_launchable")
      BY <1>2, <1>3, <1>14, <2>2, FragmentTold DEF Tellable, ReadFragment
    <3> QED BY <1>1, <1>2, <2>2, <3>1, ReturnTells
  <2> QED BY <1>4, <1>6, <1>7, <1>9, <1>14, <2>1, <2>2 DEF ReadFragment
<1> QED BY <1>10, <1>11, <1>12, <1>13, <1>14
-----------------------------------------------------------------------------
\* Whose event it is, and what had happened to its handoff before.
LEMMA RecordHappens ==
  ASSUME Inv, EmittedFirst, NEW p \in Process, pc[p] = "appending", UNCHANGED job,
         Record(EventOf(job[p]), NotTerminated(job[p])), Go(p, "projecting")
  PROVE  Register!Next
<1> DEFINE j == job[p]
           r == job[p].row
<1>1. /\ Shapes /\ Facts(p) /\ j \in Jobs /\ r \in Row /\ j.kind \in Kinds
  BY DEF Inv, Knows, Shapes, Stage, Busy, Jobs
<1>2. /\ EventOf(j) \in Events
      /\ EventOf(j) = Event(EventOf(j).type, r)
      /\ j.kind = "emit" => EventOf(j) = Emitted(r)
      /\ j.kind = "cancel" => EventOf(j) = Cancelled(r)
      /\ j.kind \in {"exact", "fuzzy"} => EventOf(j) = Launched(r)
  BY <1>1, EventOfShape, EventShape
<1>3. log \in Seq(Events) /\ log' = Append(log, EventOf(j)) /\ ~InLog(EventOf(j), log)
  BY <1>1, <1>2, KeyIsEvent DEF Record, Shapes
<1>4. /\ pc'[p] = "projecting" /\ job'[p] = j /\ result' = result
      /\ \A q \in Process \ {p} : pc'[q] = pc[q] /\ job'[q] = job[q]
  BY <1>1 DEF Go, Shapes
<1>5. Launchings' = [Launchings EXCEPT ![p] = Launching(p)']
  BY <1>4, OthersLaunch
<1>6. Answers' = Answers
  BY <1>4 DEF Answers, Told, NoResult
<1>7. Launchings[p] = Launching(p) /\ Launching(p) = NoRow /\ Pasts[r] = Past(r)
  BY <1>1 DEF Launchings, Launching, Pasts
<1>8. ASSUME InLog(Launched(r), log) PROVE InLog(Emitted(r), log)
  <2>1. PICK i \in DOMAIN log : log[i] = Launched(r)
    BY <1>8 DEF InLog
  <2>2. log[i].type = "launched" /\ log[i].row = r
    BY <2>1 DEF Launched, Event
  <2>3. PICK k \in 1 .. i : log[k] = Emitted(r)
    BY <2>1, <2>2 DEF Inv, NoLaunchAfterCancel
  <2>4. k \in DOMAIN log
    BY <1>3, <2>1
  <2> QED BY <2>3, <2>4 DEF InLog
<1> HIDE DEF j, r
<1>9. CASE j.kind = "emit"
  <2>1. log' = Append(log, Event("emitted", r))
    BY <1>2, <1>3, <1>9 DEF Emitted
  <2>2. Pasts' = [Pasts EXCEPT ![r] = @ \cup {"emitted"}]
    BY <1>1, <1>3, <2>1, PastOfMore DEF EventTypes
  <2>3. Pasts[r] = {}
    <3>1. ~InLog(Emitted(r), log)
      BY <1>2, <1>3, <1>9
    <3>2. ~InLog(Cancelled(r), log) /\ ~InLog(Launched(r), log)
      BY <1>1, <1>8, <3>1 DEF EmittedFirst
    <3> QED BY <1>7, <3>1, <3>2, PastIs DEF EventTypes
  <2>4. Launchings' = Launchings
    <3>1. Launching(p)' = NoRow
      BY <1>4, <1>9 DEF Launching
    <3> QED BY <1>5, <1>7, <3>1 DEF Launchings
  <2>5. Register!Emit(r)
    BY <1>6, <2>2, <2>3, <2>4
    DEF Register!Emit, Register!Happens, Pasts, Launchings, Answers
  <2> QED BY <1>1, <2>5 DEF Register!Next
<1>10. CASE j.kind = "cancel"
  <2>1. log' = Append(log, Event("cancelled", r))
    BY <1>2, <1>3, <1>10 DEF Cancelled
  <2>2. Pasts' = [Pasts EXCEPT ![r] = @ \cup {"cancelled"}]
    BY <1>1, <1>3, <2>1, PastOfMore DEF EventTypes
  <2>3. "emitted" \in Pasts[r] /\ "cancelled" \notin Pasts[r]
    <3>1. ~InLog(Cancelled(r), log)
      BY <1>2, <1>3, <1>10
    <3>2. InLog(Emitted(r), log)
      BY <1>10 DEF EmittedFirst, j, r
    <3> QED BY <1>7, <3>1, <3>2, PastIs
  <2>4. Launchings' = Launchings
    <3>1. Launching(p)' = NoRow
      BY <1>4, <1>10 DEF Launching
    <3> QED BY <1>5, <1>7, <3>1 DEF Launchings
  <2>5. Register!Cancel(r)
    BY <1>6, <2>2, <2>3, <2>4
    DEF Register!Cancel, Register!Happens, Pasts, Launchings, Answers
  <2> QED BY <1>1, <2>5 DEF Register!Next
<1>11. CASE j.kind \in {"exact", "fuzzy"}
  <2>1. log' = Append(log, Event("launched", r))
    BY <1>2, <1>3, <1>11 DEF Launched
  <2>2. Pasts' = [Pasts EXCEPT ![r] = @ \cup {"launched"}]
    BY <1>1, <1>3, <2>1, PastOfMore DEF EventTypes
  <2>3. Pasts[r] = {"emitted"}
    <3>1. ~InLog(Launched(r), log)
      BY <1>2, <1>3, <1>11
    <3>2. InLog(Emitted(r), log)
      BY <1>1, <1>11 DEF Facts, j, r
    <3>3. ~InLog(Cancelled(r), log)
      BY <1>11 DEF Record, NotTerminated, j, r
    <3> QED BY <1>7, <3>1, <3>2, <3>3, PastIs DEF EventTypes
  <2>4. Launchings' = [Launchings EXCEPT ![p] = r]
    <3>1. Launching(p)' = r
      BY <1>4, <1>11 DEF Launching, j, r
    <3> QED BY <1>5, <3>1
  <2>5. Register!Launch(p, r)
    BY <1>6, <1>7, <2>2, <2>3, <2>4
    DEF Register!Launch, Register!Happens, Pasts, Launchings, Answers
  <2> QED BY <1>1, <2>5 DEF Register!Next
<1> QED BY <1>1, <1>9, <1>10, <1>11 DEF Kinds

LEMMA AppendTells ==
  ASSUME Inv, EmittedFirst, NEW p \in Process, AppendEvent(p)
  PROVE  [Register!Next]_(Register!vars)
<1> DEFINE j == job[p]
           e == EventOf(j)
<1>1. /\ Shapes /\ j.row \in Row /\ j \in Jobs /\ j.kind \in Kinds /\ pc[p] = "appending"
  BY DEF Inv, Knows, Shapes, Stage, Busy, AppendEvent, Jobs
<1>2. e \in Events /\ (j.kind \notin {"emit", "cancel"} => e = Launched(j.row))
  BY <1>1, EventOfShape DEF Kinds
<1>3. Launching(p) = NoRow /\ pc[p] # "idle"
  BY <1>1 DEF Launching
<1>4. CASE Record(e, NotTerminated(j)) /\ Go(p, "projecting") /\ UNCHANGED job
  BY <1>1, <1>4, RecordHappens
<1>5. CASE Refused(e, NotTerminated(j)) /\ Return(p, "not_launchable")
  <2>1. InLog(Cancelled(j.row), log) /\ log' = log
    BY <1>5 DEF Refused, NotTerminated
  <2>2. Tellable(p, "not_launchable")
    BY <1>1, <1>3, <2>1 DEF Tellable
  <2> QED BY <1>3, <1>5, <2>1, <2>2, ReturnTells
<1>6. ASSUME Recorded(e) PROVE InLog(e, log) /\ log' = log
  BY <1>1, <1>2, <1>6, KeyIsEvent DEF Recorded, Shapes
<1>7. ASSUME Recorded(e), j.kind \in {"emit", "cancel"},
             NEW at \in {"projecting", "returning"}, Go(p, at), UNCHANGED job
      PROVE  UNCHANGED Register!vars
  <2>1. job' = [job EXCEPT ![p] = j] /\ job'[p] = j
    BY <1>1, <1>7 DEF Shapes
  <2>2. Launching(p)' = NoRow
    BY <1>7, <2>1 DEF Launching
  <2> QED BY <1>3, <1>6, <1>7, <2>1, <2>2, GoUnseen
<1>8. CASE Recorded(e) /\ j.kind \notin {"emit", "cancel"} /\ Return(p, "already_launched")
  <2>1. Tellable(p, "already_launched")
    BY <1>1, <1>2, <1>3, <1>6, <1>8 DEF Tellable
  <2> QED BY <1>3, <1>6, <1>8, <2>1, ReturnTells
<1>9. \/ Record(e, NotTerminated(j)) /\ Go(p, "projecting") /\ UNCHANGED job
      \/ Refused(e, NotTerminated(j)) /\ Return(p, "not_launchable")
      \/ Recorded(e) /\ j.kind = "emit" /\ Go(p, "projecting") /\ UNCHANGED job
      \/ Recorded(e) /\ j.kind = "cancel" /\ Go(p, "returning") /\ UNCHANGED job
      \/ Recorded(e) /\ j.kind \notin {"emit", "cancel"} /\ Return(p, "already_launched")
  BY DEF AppendEvent
<1> QED BY <1>4, <1>5, <1>7, <1>8, <1>9

LEMMA ReportTells ==
  ASSUME Inv, NEW p \in Process,
         \/ Timeout(p) \/ Crash(p) \/ ReturnExisting(p) \/ Project(p) \/ RebuildDone(p)
  PROVE  [Register!Next]_(Register!vars)
<1>1. Shapes /\ Stage(p) /\ pc[p] # "idle" /\ job[p] \in Jobs /\ log' = log
  BY DEF Inv, Knows, Shapes, Stage, Timeout, Crash, ReturnExisting, Project, RebuildDone, world
<1>2. CASE Timeout(p)
  <2>1. Tellable(p, "timeout")
    BY <1>2 DEF Tellable, Launching, Timeout
  <2> QED BY <1>1, <1>2, <2>1, ReturnTells DEF Timeout
<1>3. CASE Crash(p)
  <2>1. Tellable(p, "crashed")
    BY DEF Tellable
  <2> QED BY <1>1, <1>3, <2>1, ReturnTells DEF Crash
<1>4. CASE ReturnExisting(p)
  <2>1. pc[p] = "returning" /\ job[p].kind = "cancel"
    BY <1>1, <1>4 DEF ReturnExisting, Stage
  <2>2. CASE Done(p)
    BY <1>1, <2>1, <2>2, DoneTells DEF Busy
  <2>3. CASE Go(p, "projecting") /\ UNCHANGED job
    <3>1. job' = [job EXCEPT ![p] = job[p]] /\ job'[p] = job[p]
      BY <1>1, <2>3 DEF Shapes
    <3>2. Launching(p)' = Launching(p)
      BY <2>1, <3>1 DEF Launching
    <3> QED BY <1>1, <2>3, <3>1, <3>2, GoUnseen
  <2> QED BY <1>4, <2>2, <2>3 DEF ReturnExisting
<1>5. CASE Project(p)
  <2>1. pc[p] = "projecting" /\ (Rebuild(p, job[p], "done") \/ Done(p))
    BY <1>5 DEF Project
  <2>2. CASE Rebuild(p, job[p], "done")
    BY <1>1, <2>1, <2>2, RebuildUnseen
  <2>3. CASE Done(p)
    BY <1>1, <2>1, <2>3, DoneTells DEF Busy
  <2> QED BY <2>1, <2>2, <2>3
<1>6. CASE RebuildDone(p)
  <2>1. pc[p] = "restoring" /\ job[p].then \in Continuations \ {"idle"}
    BY <1>1, <1>6 DEF RebuildDone, Stage, Jobs
  <2>2. CASE job[p].then = "done"
    BY <1>1, <1>6, <2>1, <2>2, DoneTells DEF Busy, RebuildDone
  <2>3. CASE job[p].then # "done"
    <3>1. Go(p, job[p].then) /\ UNCHANGED job
      BY <1>6, <2>3 DEF RebuildDone
    <3>2. /\ job' = [job EXCEPT ![p] = job[p]] /\ job'[p] = job[p]
          /\ pc'[p] = job[p].then
      BY <1>1, <3>1 DEF Shapes, Go
    <3>3. Launching(p)' = NoRow /\ Launching(p) = NoRow
      BY <2>1, <2>3, <3>2 DEF Launching, Continuations
    <3> QED BY <1>1, <3>1, <3>2, <3>3, GoUnseen
  <2> QED BY <2>2, <2>3
<1> QED BY <1>2, <1>3, <1>4, <1>5, <1>6

\* A rebuild reads and writes for itself.
LEMMA RestoreUnseen ==
  ASSUME Inv, NEW p \in Process, RebuildRead(p) \/ RebuildWrite(p)
  PROVE  UNCHANGED Register!vars
<1>1. Shapes
  BY DEF Inv
<1>2. /\ log' = log /\ job' = job /\ result' = result
      /\ pc[p] \in {"rebuilding", "restoring"} /\ pc'[p] \in {"rebuilding", "restoring"}
      /\ \A q \in Process \ {p} : pc'[q] = pc[q]
  BY <1>1 DEF Shapes, RebuildRead, RebuildWrite, world
<1>3. Launching(p)' = Launching(p)
  BY <1>2 DEF Launching
<1> QED BY <1>2, <1>3, Unseen

LEMMA DamageUnseen ==
  ASSUME Inv, NEW r \in Row, Damage(r)
  PROVE  UNCHANGED Register!vars
<1>1. /\ log' = log /\ pc' = pc /\ result' = result
      /\ job' = [p \in Process |-> IF pc[p] = "idle" THEN job[p]
                                     ELSE [job[p] EXCEPT !.unhurt = FALSE]]
  BY DEF Damage
<1>2. ASSUME NEW p \in Process PROVE Launching(p)' = Launching(p)
  <2>1. CASE pc[p] = "idle"
    BY <1>1, <2>1 DEF Launching
  <2>2. CASE pc[p] # "idle"
    <3>1. job[p] \in Jobs
      BY <2>2 DEF Inv, Knows, Shapes, Stage
    <3>2. /\ job'[p].kind = job[p].kind /\ job'[p].row = job[p].row
          /\ job'[p].then = job[p].then
      BY <1>1, <2>2, <3>1 DEF Jobs
    <3> QED BY <1>1, <3>2 DEF Launching
  <2> QED BY <2>1, <2>2
<1>3. Pasts' = Pasts /\ Launchings' = Launchings
  BY <1>1, <1>2, PastStays DEF Launchings
<1>4. Answers' = Answers
  BY <1>1 DEF Answers, Told, NoResult
<1> QED BY <1>3, <1>4 DEF Register!vars, Pasts, Launchings, Answers

\* A call forgets what the last one was told.
LEMMA CallAsks ==
  ASSUME Inv, NEW p \in Process, CallEmit(p) \/ CallExact(p) \/ CallFuzzy(p) \/ CallCancel(p)
  PROVE  Register!Next
<1>1. Shapes
  BY DEF Inv
<1>2. PICK j : Call(p, j, "appending") \/ Call(p, j, "finding") \/ Call(p, j, "scanning")
  BY DEF CallEmit, CallExact, CallFuzzy, CallCancel
<1>3. /\ log' = log /\ pc[p] = "idle" /\ pc'[p] \in {"appending", "finding", "scanning"}
      /\ result'[p] = NoResult
      /\ \A q \in Process \ {p} : /\ pc'[q] = pc[q] /\ job'[q] = job[q]
                                  /\ result'[q] = result[q]
  BY <1>1, <1>2 DEF Call, Shapes
<1>4. Pasts' = Pasts
  BY <1>3, PastStays
<1>5. Launchings' = Launchings /\ Launchings[p] = NoRow
  <2>1. Launching(p)' = NoRow /\ Launching(p) = NoRow
    BY <1>3 DEF Launching
  <2>2. Launchings' = [Launchings EXCEPT ![p] = Launching(p)']
    BY <1>3, OthersLaunch
  <2> QED BY <2>1, <2>2 DEF Launchings
<1>6. Answers' = [Answers EXCEPT ![p] = Register!NoAnswer]
  <2>1. Told(p)' = Register!NoAnswer
    BY <1>3 DEF Told, NoResult, Register!NoAnswer
  <2>2. Answers' = [Answers EXCEPT ![p] = Told(p)']
    BY <1>3, OthersAreTold
  <2> QED BY <2>1, <2>2
<1>7. Register!Ask(p)
  BY <1>4, <1>5, <1>6 DEF Register!Ask, Pasts, Launchings, Answers
<1> QED BY <1>7 DEF Register!Next
-----------------------------------------------------------------------------
LEMMA RegisterInit == Init => Register!Init
<1> SUFFICES ASSUME Init PROVE Register!Init
  OBVIOUS
<1>1. \A r \in Row : Past(r) = {}
  BY DEF Init, Past, InLog
<1>2. \A p \in Process : Launching(p) = NoRow /\ Told(p) = Register!NoAnswer
  BY DEF Init, Launching, Told, Register!NoAnswer
<1> QED BY <1>1, <1>2 DEF Register!Init

LEMMA RegisterNext ==
  ASSUME Inv, EmittedFirst, [Next]_vars
  PROVE  [Register!Next]_(Register!vars)
<1>1. CASE UNCHANGED vars
  BY <1>1 DEF vars, procVars, Register!vars, Past, InLog, Event, Launching, Told, NoResult
<1>2. ASSUME NEW p \in Process, Step(p) PROVE [Register!Next]_(Register!vars)
  BY <1>2, SearchTells, AppendTells, ReportTells, RestoreUnseen DEF Step
<1>3. ASSUME NEW p \in Process, CallEmit(p) \/ CallExact(p) \/ CallFuzzy(p) \/ CallCancel(p)
      PROVE  Register!Next
  BY <1>3, CallAsks
<1>4. ASSUME NEW p \in Process, Crash(p) PROVE [Register!Next]_(Register!vars)
  BY <1>4, ReportTells
<1>5. ASSUME NEW r \in Row, Damage(r) PROVE UNCHANGED Register!vars
  BY <1>5, DamageUnseen
<1> QED BY <1>1, <1>2, <1>3, <1>4, <1>5 DEF Next

\* Calls on handoffs, racing, timing out and dying over stale, lost and corrupt
\* fragment files, are what HandoffRegister promises: each handoff is launched by
\* one call, which alone is told so, never once it is cancelled, and whatever a
\* call is told of a handoff has happened to it.
THEOREM HandoffsAreARegister == Spec => ImplementsHandoffRegister
<1>1. Spec => []Inv
  <2>1. Inv /\ [Next]_vars => Inv'
    BY NextInv
  <2> QED BY InitInv, <2>1, PTL DEF Spec
<1>2. Spec => []EmittedFirst
  <2>1. Inv /\ EmittedFirst /\ [Next]_vars => EmittedFirst'
    BY FirstStays
  <2> QED BY <1>1, FirstAtInit, <2>1, PTL DEF Spec
<1>3. Inv /\ EmittedFirst /\ [Next]_vars => [Register!Next]_(Register!vars)
  BY RegisterNext
<1>4. Spec => [][Register!Next]_(Register!vars)
  BY <1>1, <1>2, <1>3, PTL DEF Spec
<1> QED BY <1>4, RegisterInit, PTL DEF Spec, ImplementsHandoffRegister, Register!Spec
=============================================================================
