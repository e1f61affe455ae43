-------------------------- MODULE DoneLadderProofs --------------------------
(***************************************************************************)
(* Theorems of DoneLadder, for any processes, nodes, requests and calls.   *)
(* The first two need not know what the fold over the log computes; for    *)
(* the others its recursion is unrolled, by induction over the log: one    *)
(* more event is one more turn, and a level never falls.                   *)
(***************************************************************************)
EXTENDS DoneLadder, WellFoundedInduction, TLAPS

Events == {Advanced(r) : r \in AllRequests}

\* A process at work has a request; only one that rebuilds has nodes left, all
\* of them from the part of the log that it replays.
ProcessInv(p) ==
  /\ pc[p] = "idle" <=> job[p] = NoJob
  /\ pc[p] # "idle" => job[p] \in AllRequests
  /\ loaded[p] # 0 => pc[p] = "storing"
  /\ seen[p] \in 0 .. Len(log)
  /\ left[p] # {} => pc[p] = "restoring"
  /\ \A n \in left[p] : \E i \in 1 .. seen[p] : log[i].node = n

Shapes ==
  /\ log \in Seq(Events)
  /\ DOMAIN pc = Process /\ DOMAIN job = Process /\ DOMAIN loaded = Process
  /\ DOMAIN seen = Process /\ DOMAIN left = Process

Inv == Shapes /\ \A p \in Process : ProcessInv(p)

LEMMA JobIsNone == NoJob \notin AllRequests
BY DEF NoJob, AllRequests

LEMMA EventShape ==
  ASSUME NEW e \in Events
  PROVE  e.node \in Node /\ e.level \in Rung
BY DEF Events, Advanced, AllRequests

\* The log only grows, at its end.
Grows == Len(log) <= Len(log') /\ \A i \in DOMAIN log : log'[i] = log[i]

LEMMA OthersInv ==
  ASSUME Inv, NEW q \in Process, log' \in Seq(Events), Grows,
         pc'[q] = pc[q], job'[q] = job[q], loaded'[q] = loaded[q], seen'[q] = seen[q],
         left'[q] = left[q]
  PROVE  ProcessInv(q)'
<1>1. ProcessInv(q) /\ log \in Seq(Events)
  BY DEF Inv, Shapes
<1>2. seen[q] \in Nat /\ Len(log) \in Nat /\ Len(log') \in Nat /\ seen[q] <= Len(log)
      /\ DOMAIN log = 1 .. Len(log)
  BY <1>1 DEF ProcessInv
<1>3. \A n \in left[q] : \E i \in 1 .. seen[q] : log'[i].node = n
  <2> SUFFICES ASSUME NEW n \in left[q] PROVE \E i \in 1 .. seen[q] : log'[i].node = n
    OBVIOUS
  <2>1. PICK i \in 1 .. seen[q] : log[i].node = n
    BY <1>1 DEF ProcessInv
  <2>2. i \in DOMAIN log
    BY <1>2
  <2> QED BY <2>1, <2>2 DEF Grows
<1>4. seen[q] \in 0 .. Len(log')
  BY <1>2 DEF Grows
<1> QED BY <1>1, <1>3, <1>4 DEF ProcessInv

\* A step of p changes no other process.
Frame(p) ==
  \A q \in Process \ {p} :
    /\ pc'[q] = pc[q] /\ job'[q] = job[q] /\ loaded'[q] = loaded[q]
    /\ seen'[q] = seen[q] /\ left'[q] = left[q]

LEMMA StepFrame ==
  ASSUME Inv, NEW p \in Process, Shapes', Grows, Frame(p), ProcessInv(p)'
  PROVE  Inv'
BY OthersInv DEF Inv, Shapes, Frame

LEMMA ReturnInv ==
  ASSUME Inv, NEW p \in Process, NEW status, Return(p, status),
         log' \in Seq(Events), Grows
  PROVE  Inv'
<1>1. /\ pc' = [pc EXCEPT ![p] = "idle"] /\ job' = [job EXCEPT ![p] = NoJob]
      /\ loaded' = [loaded EXCEPT ![p] = 0] /\ seen' = [seen EXCEPT ![p] = 0]
      /\ left' = [left EXCEPT ![p] = {}]
  BY DEF Return, Go
<1>2. Shapes' /\ Frame(p)
  BY <1>1 DEF Inv, Shapes, Frame
<1>3. ProcessInv(p)'
  BY <1>1 DEF Inv, Shapes, ProcessInv
<1> QED BY <1>2, <1>3, StepFrame

\* From one step of a call to the next.
LEMMA GoInv ==
  ASSUME Inv, NEW p \in Process, NEW at, Go(p, at), pc[p] # "idle", at # "idle",
         pc[p] \notin {"storing", "restoring"},
         UNCHANGED <<job, loaded, seen, left>>, log' \in Seq(Events), Grows
  PROVE  Inv'
<1>1. pc' = [pc EXCEPT ![p] = at]
  BY DEF Go
<1>2. Shapes' /\ Frame(p) /\ pc'[p] = at
  BY <1>1 DEF Inv, Shapes, Frame
<1>3. ProcessInv(p) /\ loaded[p] = 0 /\ left[p] = {}
  BY DEF Inv, ProcessInv
<1>4. seen[p] \in 0 .. Len(log')
  BY <1>3 DEF ProcessInv, Grows, Inv, Shapes
<1>5. ProcessInv(p)'
  BY <1>2, <1>3, <1>4 DEF ProcessInv
<1> QED BY <1>2, <1>5, StepFrame

LEMMA SameLog ==
  ASSUME Inv, UNCHANGED log
  PROVE  log' \in Seq(Events) /\ Grows
BY DEF Inv, Shapes, Grows

LEMMA StayInv ==
  ASSUME Inv, UNCHANGED <<pc, stay>>, log' \in Seq(Events), Grows
  PROVE  Inv'
BY OthersInv DEF Inv, Shapes, stay

LEMMA AppendInv ==
  ASSUME Inv, NEW p \in Process, AppendEvent(p)
  PROVE  Inv'
<1> DEFINE e == Advanced(job[p])
<1>1. pc[p] = "appending" /\ e \in Events
  BY DEF AppendEvent, Inv, ProcessInv, Events
<1> HIDE DEF e
<1>2. CASE Record(e, StillAdjacent(job[p])) /\ Go(p, "loading") /\ UNCHANGED stay
  <2>1. log' = Append(log, e) /\ log \in Seq(Events)
    BY <1>2 DEF Record, Inv, Shapes
  <2>2. log' \in Seq(Events) /\ Grows
    BY <1>1, <2>1 DEF Grows
  <2> QED BY <1>1, <1>2, <2>2, GoInv DEF stay
<1>3. CASE Recorded(e) /\ Go(p, "verifying") /\ UNCHANGED stay
  BY <1>1, <1>3, SameLog, GoInv DEF stay, Recorded
<1>4. CASE Refused(e, StillAdjacent(job[p])) /\ Return(p, "rejected")
  BY <1>1, <1>4, SameLog, ReturnInv DEF Refused
<1> QED BY <1>2, <1>3, <1>4 DEF AppendEvent, e

LEMMA CallInv ==
  ASSUME Inv, NEW p \in Process, CallAdvance(p)
  PROVE  Inv'
<1>1. PICK r \in Requests : job' = [job EXCEPT ![p] = r]
  BY DEF CallAdvance
<1>2. /\ pc[p] = "idle" /\ pc' = [pc EXCEPT ![p] = "checking"]
      /\ UNCHANGED <<log, loaded, seen, left>>
  BY DEF CallAdvance, Go
<1>3. r \in AllRequests /\ r # NoJob
  BY RequestsAssumption, JobIsNone
<1>4. Shapes' /\ Frame(p) /\ pc'[p] = "checking" /\ job'[p] = r
  BY <1>1, <1>2 DEF Inv, Shapes, Frame
<1>5. ProcessInv(p)'
  BY <1>2, <1>3, <1>4 DEF Inv, ProcessInv
<1> QED BY <1>2, <1>4, <1>5, SameLog, StepFrame

LEMMA LoadInv ==
  ASSUME Inv, NEW p \in Process, Load(p)
  PROVE  Inv'
<1> DEFINE f == frag[job[p].node]
<1>1. pc[p] = "loading" /\ UNCHANGED <<log, job, seen, left>>
  BY DEF Load, world
<1>2. CASE Go(p, "rebuilding") /\ UNCHANGED loaded
  BY <1>1, <1>2, SameLog, GoInv
<1>3. CASE Go(p, "storing") /\ loaded' = [loaded EXCEPT ![p] = IF f = absent THEN 0 ELSE f]
  <2>1. Shapes' /\ Frame(p) /\ pc'[p] = "storing"
    BY <1>1, <1>3 DEF Go, Inv, Shapes, Frame
  <2>2. ProcessInv(p)'
    BY <1>1, <2>1 DEF Inv, ProcessInv
  <2> QED BY <1>1, <2>1, <2>2, SameLog, StepFrame
<1> QED BY <1>2, <1>3 DEF Load

LEMMA RebuildInv ==
  ASSUME Inv, NEW p \in Process, RebuildRead(p) \/ RebuildWrite(p)
  PROVE  Inv'
<1>1. log \in Seq(Events) /\ UNCHANGED <<log, job, loaded>>
  BY DEF Inv, Shapes, RebuildRead, RebuildWrite, world
<1>2. CASE RebuildRead(p)
  <2>1. /\ pc[p] = "rebuilding" /\ pc' = [pc EXCEPT ![p] = "restoring"]
        /\ seen' = [seen EXCEPT ![p] = Len(log)]
        /\ left' = [left EXCEPT ![p] = {log[i].node : i \in DOMAIN log}]
    BY <1>2 DEF RebuildRead, Go
  <2>2. /\ Shapes' /\ Frame(p) /\ pc'[p] = "restoring" /\ seen'[p] = Len(log)
        /\ left'[p] = {log[i].node : i \in 1 .. Len(log)}
    BY <1>1, <2>1 DEF Inv, Shapes, Frame
  <2>3. ProcessInv(p)'
    BY <1>1, <2>1, <2>2 DEF Inv, ProcessInv
  <2> QED BY <1>1, <2>2, <2>3, SameLog, StepFrame
<1>3. CASE RebuildWrite(p)
  <2>1. PICK n \in left[p] : left' = [left EXCEPT ![p] = @ \ {n}]
    BY <1>3 DEF RebuildWrite
  <2>2. pc[p] = "restoring" /\ UNCHANGED <<pc, seen>>
    BY <1>3 DEF RebuildWrite
  <2>3. Shapes' /\ Frame(p) /\ left'[p] = left[p] \ {n}
    BY <1>1, <2>1, <2>2 DEF Inv, Shapes, Frame
  <2>4. ProcessInv(p)'
    BY <1>1, <2>2, <2>3 DEF Inv, ProcessInv
  <2> QED BY <1>1, <2>3, <2>4, SameLog, StepFrame
<1> QED BY <1>2, <1>3

LEMMA InitInv == Init => Inv
<1> SUFFICES ASSUME Init PROVE Inv
  OBVIOUS
<1>1. Shapes
  BY LogsAssumption DEF Init, Shapes, Events
<1>2. \A p \in Process : ProcessInv(p)
  BY <1>1 DEF Init, ProcessInv, Shapes
<1> QED BY <1>1, <1>2 DEF Inv

LEMMA StepInv ==
  ASSUME Inv, NEW p \in Process, Step(p)
  PROVE  Inv'
<1>1. CASE Check(p)
  <2>1. pc[p] = "checking" /\ UNCHANGED log
    BY <1>1 DEF Check, world
  <2>2. (Go(p, "appending") /\ UNCHANGED stay) \/ Return(p, "rejected")
    BY <1>1 DEF Check
  <2> QED BY <2>1, <2>2, SameLog, GoInv, ReturnInv DEF stay
<1>2. CASE Timeout(p)
  BY <1>2, SameLog, ReturnInv DEF Timeout, world
<1>3. CASE Verify(p)
  <2>1. pc[p] = "verifying" /\ UNCHANGED log
    BY <1>3 DEF Verify, world
  <2>2. (Go(p, "loading") /\ UNCHANGED stay) \/ Return(p, "rejected")
    BY <1>3 DEF Verify
  <2> QED BY <2>1, <2>2, SameLog, GoInv, ReturnInv DEF stay
<1>4. CASE Store(p)
  BY <1>4, SameLog, ReturnInv DEF Store
<1>5. CASE RebuildDone(p)
  BY <1>5, SameLog, ReturnInv DEF RebuildDone, world
<1> QED BY <1>1, <1>2, <1>3, <1>4, <1>5, AppendInv, LoadInv, RebuildInv DEF Step

LEMMA NextInv == Inv /\ [Next]_vars => Inv'
<1> SUFFICES ASSUME Inv, [Next]_vars PROVE Inv'
  OBVIOUS
<1>1. CASE UNCHANGED vars
  BY <1>1, SameLog, StayInv DEF vars, stay
<1>2. ASSUME NEW p \in Process, Crash(p) PROVE Inv'
  BY <1>2, SameLog, ReturnInv DEF Crash
<1>3. ASSUME NEW n \in Node, Damage(n) PROVE Inv'
  BY <1>3, SameLog, StayInv DEF Damage
<1> QED BY <1>1, <1>2, <1>3, CallInv, StepInv DEF Next

\* The shape of the log and of the processes.
THEOREM TypesHold == Spec => []TypeOK
<1>1. Inv => TypeOK
  BY EventShape DEF Inv, Shapes, ProcessInv, TypeOK
<1> QED BY <1>1, InitInv, NextInv, PTL DEF Spec
-----------------------------------------------------------------------------
\* Whatever a step does to the log, the new rung follows the one below it.
LEMMA OneRungMore ==
  ASSUME Inv, RungsInOrder, [Next]_vars
  PROVE  RungsInOrder'
<1>1. \/ UNCHANGED log
      \/ \E p \in Process : /\ log' = Append(log, Advanced(job[p]))
                            /\ OneRungUp(job[p]) /\ pc[p] = "appending"
  BY DEF Next, Step, CallAdvance, Check, AppendEvent, Timeout, Verify, Load, Store,
         RebuildRead, RebuildWrite, RebuildDone, Crash, Damage, world, vars,
         Record, Recorded, Refused, StillAdjacent
<1>2. CASE UNCHANGED log
  BY <1>2 DEF RungsInOrder
<1>3. ASSUME NEW p \in Process, log' = Append(log, Advanced(job[p])),
             OneRungUp(job[p]), pc[p] = "appending"
      PROVE  RungsInOrder'
  <2> DEFINE e == Advanced(job[p])
  <2>1. /\ e \in Events /\ e.node = job[p].node /\ e.level = job[p].target
        /\ log \in Seq(Events) /\ log' = Append(log, e)
    BY <1>3 DEF Inv, Shapes, ProcessInv, Events, Advanced
  <2>2. e.level = CurrentLevel(log, e.node) + 1
    BY <1>3, <2>1 DEF OneRungUp
  <2> HIDE DEF e
  <2> SUFFICES ASSUME NEW i \in DOMAIN log'
               PROVE  log'[i].level = CurrentLevel(SubSeq(log', 1, i - 1), log'[i].node) + 1
    BY DEF RungsInOrder
  <2>3. /\ DOMAIN log = 1 .. Len(log) /\ Len(log) \in Nat /\ DOMAIN log' = 1 .. Len(log) + 1
        /\ \A k \in DOMAIN log : log'[k] = log[k]
        /\ log'[Len(log) + 1] = e
    BY <2>1
  <2>4. SubSeq(log', 1, i - 1) = SubSeq(log, 1, i - 1)
    <3>1. \A k \in 1 .. i - 1 : log'[k] = log[k]
      BY <2>3
    <3> QED BY <2>3, <3>1
  <2>5. CASE i \in DOMAIN log
    BY <2>3, <2>4, <2>5 DEF RungsInOrder
  <2>6. CASE i = Len(log) + 1
    <3>1. SubSeq(log, 1, i - 1) = log
      BY <2>1, <2>3, <2>6
    <3> QED BY <2>2, <2>3, <2>4, <2>6, <3>1
  <2> QED BY <2>3, <2>5, <2>6
<1> QED BY <1>1, <1>2, <1>3

\* In a log that begins in order every rung that is recorded, by whatever race,
\* follows the rung below it: advance never writes what the fold would ignore.
THEOREM OneRungAtATime == Spec /\ RungsInOrder => []RungsInOrder
<1>1. Inv /\ RungsInOrder /\ [Next]_vars => (Inv /\ RungsInOrder)'
  BY NextInv, OneRungMore
<1> QED BY <1>1, InitInv, PTL DEF Spec
-----------------------------------------------------------------------------
(***************************************************************************)
(* Induction, with a set for the predicate: every set of naturals has a    *)
(* least member.                                                           *)
(***************************************************************************)
LEMMA LeastNatural ==
  ASSUME NEW T, T \subseteq Nat, T # {}
  PROVE  \E x \in T : \A y \in T : x <= y
<1>1. PICK x \in T : \A y \in T : ~ (<<y, x>> \in OpToRel(<, Nat))
  BY NatLessThanWellFounded, WFMin
<1>2. \A y \in T : ~ (y < x)
  BY <1>1 DEF OpToRel
<1> QED BY <1>2

\* Induction over the naturals, for a set instead of a predicate.
LEMMA SetInduction ==
  ASSUME NEW T, 0 \in T, \A k \in Nat : k \in T => k + 1 \in T
  PROVE  Nat \subseteq T
<1> SUFFICES ASSUME NEW m \in Nat \ T PROVE FALSE
  OBVIOUS
<1>1. PICK x \in Nat \ T : \A y \in Nat \ T : x <= y
  BY LeastNatural
<1>2. x # 0 /\ x - 1 \in Nat /\ x - 1 \in T
  BY <1>1
<1> QED BY <1>2
-----------------------------------------------------------------------------
\* One event, and the function that the fold over a log is defined with.
Turn(k, e, n) == IF e.node = n THEN FoldDoneLevel(k, e) ELSE k

IsFold(it, l, n, D) ==
  it = [s \in SUBSET D |->
          IF s = {} THEN 0 ELSE Turn(it[s \ {Max(s)}], l[Max(s)], n)]

LEMMA CurrentLevelIsFold ==
  ASSUME NEW l, NEW n
  PROVE  CurrentLevel(l, n) = (CHOOSE it : IsFold(it, l, n, DOMAIN l))[DOMAIN l]
BY DEF CurrentLevel, FoldLeft, MapThenFoldSet, IsFold, Turn

LEMMA MaxOfSet ==
  ASSUME NEW k \in Nat, NEW s \in SUBSET (1 .. k), k \in s
  PROVE  Max(s) = k
<1>1. \A y \in s : y \in Nat /\ k >= y
  OBVIOUS
<1>2. \A x \in s : (\A y \in s : x >= y) => x = k
  BY <1>1
<1> QED BY <1>1, <1>2 DEF Max

LEMMA NextInterval ==
  ASSUME NEW k \in Nat
  PROVE  /\ Max(1 .. k + 1) = k + 1
         /\ (1 .. k + 1) \ {k + 1} = 1 .. k
         /\ k + 1 \in 1 .. k + 1
         /\ \A i : i \in 1 .. k + 1 <=> i \in 1 .. k \/ i = k + 1
<1>1. /\ k + 1 \in 1 .. k + 1
      /\ \A i : i \in 1 .. k + 1 <=> i \in 1 .. k \/ i = k + 1
  OBVIOUS
<1>2. k + 1 \notin 1 .. k
  OBVIOUS
<1>3. (1 .. k + 1) \ {k + 1} = 1 .. k
  BY <1>1, <1>2
<1>4. k + 1 \in Nat /\ 1 .. k + 1 \in SUBSET (1 .. k + 1)
  OBVIOUS
<1> QED BY <1>1, <1>3, <1>4, MaxOfSet

LEMMA FoldExists ==
  ASSUME NEW l, NEW n, NEW N \in Nat
  PROVE  \E it : IsFold(it, l, n, 1 .. N)
<1> DEFINE T == {k \in Nat : \E it : IsFold(it, l, n, 1 .. k)}
<1>1. 0 \in T
  <2> DEFINE it == [s \in SUBSET (1 .. 0) |-> 0]
  <2>1. IsFold(it, l, n, 1 .. 0)
    BY DEF IsFold
  <2> QED BY <2>1
<1>2. ASSUME NEW k \in Nat, k \in T PROVE k + 1 \in T
  <2>1. PICK it : IsFold(it, l, n, 1 .. k)
    BY <1>2
  <2> DEFINE jt == [s \in SUBSET (1 .. k + 1) |->
                      IF k + 1 \in s THEN Turn(it[s \ {k + 1}], l[k + 1], n) ELSE it[s]]
  <2>2. ASSUME NEW s \in SUBSET (1 .. k + 1)
        PROVE  jt[s] = IF s = {} THEN 0 ELSE Turn(jt[s \ {Max(s)}], l[Max(s)], n)
    <3>1. CASE k + 1 \in s
      <4>1. Max(s) = k + 1 /\ s \ {k + 1} \in SUBSET (1 .. k)
        BY <3>1, MaxOfSet, NextInterval
      <4>2. jt[s \ {k + 1}] = it[s \ {k + 1}]
        BY <4>1
      <4> QED BY <3>1, <4>1, <4>2
    <3>2. CASE k + 1 \notin s
      <4>1. s \in SUBSET (1 .. k) /\ s \ {Max(s)} \in SUBSET (1 .. k)
        BY <3>2, NextInterval
      <4>2. jt[s] = it[s] /\ jt[s \ {Max(s)}] = it[s \ {Max(s)}]
        BY <3>2, <4>1
      <4>3. it[s] = IF s = {} THEN 0 ELSE Turn(it[s \ {Max(s)}], l[Max(s)], n)
        BY <2>1, <4>1 DEF IsFold
      <4> QED BY <4>2, <4>3
    <3> QED BY <3>1, <3>2
  <2>3. IsFold(jt, l, n, 1 .. k + 1)
    <3> HIDE DEF jt
    <3>1. jt = [s \in SUBSET (1 .. k + 1) |-> jt[s]]
      BY DEF jt
    <3> QED BY <2>2, <3>1 DEF IsFold
  <2> QED BY <2>3
<1> HIDE DEF T
<1>3. N \in T
  BY <1>1, <1>2, SetInduction
<1> QED BY <1>3 DEF T

LEMMA FoldStep ==
  ASSUME NEW l, NEW n, NEW D, NEW it, IsFold(it, l, n, D), NEW k \in Nat, 1 .. k + 1 \subseteq D
  PROVE  it[1 .. k + 1] = Turn(it[1 .. k], l[k + 1], n)
<1> DEFINE s == 1 .. k + 1
<1>1. s \in SUBSET D /\ s # {} /\ Max(s) = k + 1 /\ s \ {k + 1} = 1 .. k
  BY NextInterval
<1> HIDE DEF s
<1>2. it[s] = Turn(it[s \ {Max(s)}], l[Max(s)], n)
  BY <1>1 DEF IsFold
<1> QED BY <1>1, <1>2 DEF s

\* The fold of a prefix depends on that prefix alone.
LEMMA FoldsAgree ==
  ASSUME NEW l, NEW m, NEW n, NEW N \in Nat, NEW it, NEW jt,
         IsFold(it, l, n, 1 .. N), IsFold(jt, m, n, 1 .. N + 1), \A i \in 1 .. N : l[i] = m[i]
  PROVE  it[1 .. N] = jt[1 .. N]
<1> DEFINE T == {k \in Nat : k <= N => it[1 .. k] = jt[1 .. k]}
<1>1. 0 \in T
  <2>1. 1 .. 0 = {}
    OBVIOUS
  <2>2. it[{}] = 0 /\ jt[{}] = 0
    BY DEF IsFold
  <2> QED BY <2>1, <2>2
<1>2. ASSUME NEW k \in Nat, k \in T PROVE k + 1 \in T
  <2> SUFFICES ASSUME k + 1 <= N PROVE it[1 .. k + 1] = jt[1 .. k + 1]
    OBVIOUS
  <2>1. 1 .. k + 1 \subseteq 1 .. N /\ 1 .. k + 1 \subseteq 1 .. N + 1 /\ k + 1 \in 1 .. N
    OBVIOUS
  <2>2. it[1 .. k + 1] = Turn(it[1 .. k], l[k + 1], n)
    BY <2>1, FoldStep
  <2>3. jt[1 .. k + 1] = Turn(jt[1 .. k], m[k + 1], n)
    BY <2>1, FoldStep
  <2> QED BY <1>2, <2>1, <2>2, <2>3
<1> HIDE DEF T
<1>3. N \in T
  BY <1>1, <1>2, SetInduction
<1> QED BY <1>3 DEF T

LEMMA OneTurn ==
  ASSUME NEW l, NEW m, NEW n, NEW N \in Nat, NEW it, NEW jt,
         IsFold(it, l, n, 1 .. N), IsFold(jt, m, n, 1 .. N + 1), \A i \in 1 .. N : l[i] = m[i]
  PROVE  jt[1 .. N + 1] = Turn(it[1 .. N], m[N + 1], n)
<1>1. jt[1 .. N + 1] = Turn(jt[1 .. N], m[N + 1], n)
  BY FoldStep
<1>2. it[1 .. N] = jt[1 .. N]
  BY FoldsAgree
<1> QED BY <1>1, <1>2

\* What _current_level computes: no event leaves a node at D0-code, one more
\* event is one more turn.
LEMMA LevelOfNothing ==
  ASSUME NEW n
  PROVE  CurrentLevel(<<>>, n) = 0
<1>1. PICK it : IsFold(it, <<>>, n, 1 .. 0)
  BY FoldExists
<1>2. DOMAIN <<>> = 1 .. 0 /\ 1 .. 0 = {}
  OBVIOUS
<1>3. \A f : IsFold(f, <<>>, n, 1 .. 0) => f[{}] = 0
  BY DEF IsFold
<1> QED BY <1>1, <1>2, <1>3, CurrentLevelIsFold

LEMMA LevelOfOneMore ==
  ASSUME NEW l \in Seq(Events), NEW e \in Events, NEW n
  PROVE  CurrentLevel(Append(l, e), n) = Turn(CurrentLevel(l, n), e, n)
<1> DEFINE N == Len(l)
           m == Append(l, e)
           it == CHOOSE f : IsFold(f, l, n, 1 .. N)
           jt == CHOOSE f : IsFold(f, m, n, 1 .. N + 1)
<1>1. /\ N \in Nat /\ DOMAIN l = 1 .. N /\ DOMAIN m = 1 .. N + 1 /\ m[N + 1] = e
      /\ \A i \in 1 .. N : l[i] = m[i]
  OBVIOUS
<1>2. CurrentLevel(l, n) = it[1 .. N] /\ CurrentLevel(m, n) = jt[1 .. N + 1]
  BY <1>1, CurrentLevelIsFold
<1> HIDE DEF N, m
<1>3. IsFold(it, l, n, 1 .. N) /\ IsFold(jt, m, n, 1 .. N + 1)
  <2>1. \E f : IsFold(f, l, n, 1 .. N)
    BY <1>1, FoldExists
  <2>2. N + 1 \in Nat
    BY <1>1
  <2>3. \E f : IsFold(f, m, n, 1 .. N + 1)
    BY <2>2, FoldExists
  <2> QED BY <2>1, <2>3
<1> HIDE DEF it, jt
<1>4. jt[1 .. N + 1] = Turn(it[1 .. N], m[N + 1], n)
  BY <1>1, <1>3, OneTurn
<1> QED BY <1>1, <1>2, <1>4 DEF m
-----------------------------------------------------------------------------
LEMMA TurnRises ==
  ASSUME NEW k \in Rung, NEW e \in Events, NEW n
  PROVE  Turn(k, e, n) \in Rung /\ k <= Turn(k, e, n)
BY EventShape DEF Turn, FoldDoneLevel, Rung

\* Prefixes of a log, and one event more.
LEMMA PrefixGrows ==
  ASSUME NEW l \in Seq(Events), NEW k \in Nat, k + 1 <= Len(l)
  PROVE  /\ SubSeq(l, 1, k) \in Seq(Events) /\ l[k + 1] \in Events
         /\ SubSeq(l, 1, k + 1) = Append(SubSeq(l, 1, k), l[k + 1])
OBVIOUS

LEMMA PrefixLevel ==
  ASSUME NEW l \in Seq(Events), NEW n, NEW k \in Nat, k + 1 <= Len(l)
  PROVE  CurrentLevel(SubSeq(l, 1, k + 1), n)
           = Turn(CurrentLevel(SubSeq(l, 1, k), n), l[k + 1], n)
<1> DEFINE before == SubSeq(l, 1, k)
<1>1. before \in Seq(Events) /\ l[k + 1] \in Events
      /\ SubSeq(l, 1, k + 1) = Append(before, l[k + 1])
  BY PrefixGrows
<1> HIDE DEF before
<1>2. CurrentLevel(Append(before, l[k + 1]), n) = Turn(CurrentLevel(before, n), l[k + 1], n)
  BY <1>1, LevelOfOneMore
<1> QED BY <1>1, <1>2 DEF before

\* A level is a rung, and never falls as the log grows.
LEMMA LevelsRise ==
  ASSUME NEW l \in Seq(Events), NEW n, NEW j \in Nat, NEW k \in Nat, k <= Len(l), j <= k
  PROVE  /\ CurrentLevel(SubSeq(l, 1, j), n) \in Rung
         /\ CurrentLevel(SubSeq(l, 1, k), n) \in Rung
         /\ CurrentLevel(SubSeq(l, 1, j), n) <= CurrentLevel(SubSeq(l, 1, k), n)
<1> DEFINE At(i) == CurrentLevel(SubSeq(l, 1, i), n)
           T == {i \in Nat : i <= Len(l) =>
                   At(i) \in Rung /\ (j <= i => At(j) \in Rung /\ At(j) <= At(i))}
<1>1. 0 \in T
  <2>1. SubSeq(l, 1, 0) = <<>>
    OBVIOUS
  <2>2. At(0) = 0
    BY <2>1, LevelOfNothing
  <2> QED BY <2>2 DEF Rung
<1>2. ASSUME NEW i \in Nat, i \in T PROVE i + 1 \in T
  <2> SUFFICES ASSUME i + 1 <= Len(l)
               PROVE  At(i + 1) \in Rung /\ (j <= i + 1 => At(j) \in Rung /\ At(j) <= At(i + 1))
    OBVIOUS
  <2>1. At(i) \in Rung /\ (j <= i => At(j) \in Rung /\ At(j) <= At(i))
    BY <1>2
  <2>2. At(i + 1) = Turn(At(i), l[i + 1], n) /\ l[i + 1] \in Events
    BY PrefixLevel, PrefixGrows
  <2> HIDE DEF At
  <2>3. At(i + 1) \in Rung /\ At(i) <= At(i + 1)
    BY <2>1, <2>2, TurnRises
  <2>4. CASE j <= i
    BY <2>1, <2>3, <2>4 DEF Rung
  <2>5. CASE j = i + 1
    <3>1. At(j) = At(i + 1)
      BY <2>5
    <3> QED BY <2>3, <2>5, <3>1 DEF Rung
  <2> QED BY <2>3, <2>4, <2>5
<1> HIDE DEF T
<1>3. j \in T /\ k \in T
  BY <1>1, <1>2, SetInduction
<1> QED BY <1>3 DEF T
LEMMA WholeLog ==
  ASSUME NEW l \in Seq(Events)
  PROVE  SubSeq(l, 1, Len(l)) = l /\ Len(l) \in Nat /\ DOMAIN l = 1 .. Len(l)
OBVIOUS

LEMMA LevelIsRung ==
  ASSUME NEW l \in Seq(Events), NEW n
  PROVE  CurrentLevel(l, n) \in Rung
<1>1. SubSeq(l, 1, Len(l)) = l /\ Len(l) \in Nat /\ Len(l) <= Len(l)
  BY WholeLog
<1>2. CurrentLevel(SubSeq(l, 1, Len(l)), n) \in Rung
  BY <1>1, LevelsRise
<1> QED BY <1>1, <1>2

-----------------------------------------------------------------------------
\* What a step does to the log: nothing, or one event that was gated when its
\* call came in and is one rung above its node's level.
LEMMA OneEventAtMost ==
  ASSUME Inv, [Next]_vars
  PROVE  \/ UNCHANGED log
         \/ \E p \in Process : /\ pc[p] = "appending" /\ job[p] \in AllRequests
                               /\ OneRungUp(job[p])
                               /\ log' = Append(log, Advanced(job[p]))
                               /\ pc'[p] = "loading" /\ job'[p] = job[p]
                               /\ \A q \in Process \ {p} : pc'[q] = pc[q] /\ job'[q] = job[q]
                               /\ UNCHANGED <<frag, loaded>>
<1>1. CASE \E p \in Process : AppendEvent(p)
  <2>1. PICK p \in Process : AppendEvent(p)
    BY <1>1
  <2>2. pc[p] = "appending" /\ UNCHANGED frag /\ job[p] \in AllRequests
    BY <2>1 DEF AppendEvent, Inv, ProcessInv
  <2>3. CASE /\ Record(Advanced(job[p]), StillAdjacent(job[p]))
             /\ Go(p, "loading") /\ UNCHANGED stay
    <3>1. OneRungUp(job[p]) /\ log' = Append(log, Advanced(job[p])) /\ UNCHANGED <<job, loaded>>
      BY <2>3 DEF Record, StillAdjacent, stay
    <3>2. pc' = [pc EXCEPT ![p] = "loading"] /\ DOMAIN pc = Process
      BY <2>3 DEF Go, Inv, Shapes
    <3> QED BY <2>2, <3>1, <3>2
  <2> QED BY <2>1, <2>3 DEF AppendEvent, Recorded, Refused
<1>2. CASE ~ \E p \in Process : AppendEvent(p)
  BY <1>2 DEF Next, Step, CallAdvance, Check, Timeout, Verify, Load, Store,
         RebuildRead, RebuildWrite, RebuildDone, Crash, Damage, world, vars
<1> QED BY <1>1, <1>2

\* A request that is still worked on has passed the gate.
Gated(r) == Gate(r.target, r.evidence, r.human)
JobsGated == \A p \in Process : pc[p] # "idle" => Gated(job[p])

LEMMA JobsGatedStays ==
  ASSUME Inv, JobsGated, [Next]_vars
  PROVE  JobsGated'
<1>1. ASSUME NEW p \in Process, NEW status, Return(p, status) PROVE JobsGated'
  BY <1>1 DEF Return, Go, JobsGated, Inv, Shapes
<1>2. ASSUME NEW p \in Process, NEW at, Go(p, at), pc[p] # "idle", UNCHANGED job
      PROVE  JobsGated'
  BY <1>2 DEF Go, JobsGated, Inv, Shapes
<1>3. ASSUME NEW p \in Process, CallAdvance(p) PROVE JobsGated'
  BY <1>3 DEF CallAdvance, Go, JobsGated, Gated, Inv, Shapes
<1>4. CASE UNCHANGED <<pc, job>>
  BY <1>4 DEF JobsGated
<1>5. ASSUME NEW p \in Process, Step(p) PROVE JobsGated'
  <2>1. CASE Check(p)
    BY <2>1, <1>1, <1>2 DEF Check, stay
  <2>2. CASE AppendEvent(p)
    BY <2>2, <1>1, <1>2 DEF AppendEvent, stay
  <2>3. CASE Timeout(p) \/ Store(p) \/ RebuildDone(p)
    BY <2>3, <1>1 DEF Timeout, Store, RebuildDone
  <2>4. CASE Verify(p)
    BY <2>4, <1>1, <1>2 DEF Verify, stay
  <2>5. CASE Load(p)
    BY <2>5, <1>2 DEF Load
  <2>6. CASE RebuildRead(p) \/ RebuildWrite(p)
    BY <2>6, <1>2, <1>4 DEF RebuildRead, RebuildWrite
  <2> QED BY <1>5, <2>1, <2>2, <2>3, <2>4, <2>5, <2>6 DEF Step
<1>6. ASSUME NEW p \in Process, Crash(p) PROVE JobsGated'
  BY <1>6, <1>1 DEF Crash
<1>7. ASSUME NEW n \in Node, Damage(n) PROVE JobsGated'
  BY <1>7, <1>4 DEF Damage, stay
<1> QED BY <1>3, <1>4, <1>5, <1>6, <1>7 DEF Next, vars

\* Rung k of node n stands in the log l with its evidence or approver.
Earned(l, n, k) ==
  \E i \in DOMAIN l :
    /\ l[i].node = n /\ l[i].level = k
    /\ {"merge"} \subseteq l[i].evidence \/ k # 1
    /\ {"deploy", "ci"} \subseteq l[i].evidence \/ k # 2
    /\ l[i].human \/ k < 3

LEMMA EarnedKept ==
  ASSUME Inv, JobsGated, LevelIsEarned, [Next]_vars
  PROVE  LevelIsEarned'
<1>1. log \in Seq(Events) /\ \A n \in Node : \A k \in 1 .. CurrentLevel(log, n) : Earned(log, n, k)
  BY DEF LevelIsEarned, Earned, Inv, Shapes
<1>2. CASE UNCHANGED log
  BY <1>2 DEF LevelIsEarned
<1>3. ASSUME NEW p \in Process, pc[p] = "appending", job[p] \in AllRequests,
             OneRungUp(job[p]), log' = Append(log, Advanced(job[p]))
      PROVE  LevelIsEarned'
  <2> DEFINE e == Advanced(job[p])
  <2>1. /\ e \in Events /\ e.node \in Node /\ e.level \in Rung /\ Gate(e.level, e.evidence, e.human)
        /\ e.level = CurrentLevel(log, e.node) + 1
    <3>1. e.node = job[p].node /\ e.level = job[p].target /\ e.evidence = job[p].evidence
          /\ e.human = job[p].human
      BY DEF Advanced
    <3>2. e \in Events
      BY <1>3 DEF Events
    <3> QED BY <1>3, <3>1, <3>2, EventShape DEF JobsGated, Gated, OneRungUp
  <2> HIDE DEF e
  <2>2. /\ DOMAIN log = 1 .. Len(log) /\ Len(log) \in Nat /\ DOMAIN log' = 1 .. Len(log) + 1
        /\ \A i \in DOMAIN log : log'[i] = log[i] /\ i \in DOMAIN log'
        /\ log'[Len(log) + 1] = e /\ Len(log) + 1 \in DOMAIN log'
    BY <1>1, <1>3, <2>1 DEF e
  <2>3. \A n, k : Earned(log, n, k) => Earned(log', n, k)
    BY <2>2 DEF Earned
  <2>4. Earned(log', e.node, e.level)
    BY <2>1, <2>2 DEF Earned, Gate, Rung
  <2> SUFFICES ASSUME NEW n \in Node, NEW k \in 1 .. CurrentLevel(log', n)
               PROVE  Earned(log', n, k)
    BY DEF LevelIsEarned, Earned
  <2>5. CurrentLevel(log', n) = Turn(CurrentLevel(log, n), e, n)
    BY <1>1, <1>3, <2>1, LevelOfOneMore DEF e
  <2>6. CASE k \in 1 .. CurrentLevel(log, n)
    BY <1>1, <2>3, <2>6
  <2>7. CASE k \notin 1 .. CurrentLevel(log, n)
    <3>1. e.node = n /\ CurrentLevel(log', n) = e.level
      <4>1. e.node = n
        BY <2>5, <2>7 DEF Turn
      <4> QED BY <2>1, <2>5, <4>1 DEF Turn, FoldDoneLevel
    <3>2. k = e.level
      BY <1>1, <2>1, <2>7, <3>1, LevelIsRung DEF Rung
    <3> QED BY <2>4, <3>1, <3>2
  <2> QED BY <2>6, <2>7
<1> QED BY <1>2, <1>3, OneEventAtMost

\* A level is earned, if every level was that the log started with: no order of
\* calls, timeouts, crashes and retries gets a node further than its evidence.
THEOREM LevelsAreEarned == Spec /\ LevelIsEarned => []LevelIsEarned
<1>1. Init => JobsGated
  BY DEF Init, JobsGated
<1>2. /\ Inv /\ JobsGated /\ LevelIsEarned /\ [Next]_vars
      => (Inv /\ JobsGated /\ LevelIsEarned)'
  BY NextInv, JobsGatedStays, EarnedKept
<1> QED BY <1>1, <1>2, InitInv, PTL DEF Spec
-----------------------------------------------------------------------------
\* What a process that is about to write a fragment knows is in the log.
Behind(p) ==
  /\ pc[p] \in {"loading", "storing"} => job[p].target <= CurrentLevel(log, job[p].node)
  /\ loaded[p] \in Rung
  /\ pc[p] = "storing" => loaded[p] <= CurrentLevel(log, job[p].node)
  /\ pc[p] = "verifying" => Advanced(job[p]).key \in Keys(log)

FragInv ==
  /\ FragmentsNeverLead
  /\ frag \in [Node -> Rung \cup {absent, corrupt}]
  /\ \A p \in Process : Behind(p)

\* In a log in order, what was recorded was reached.
LEMMA RecordedIsReached ==
  ASSUME NEW l \in Seq(Events), NEW i \in DOMAIN l,
         l[i].level = CurrentLevel(SubSeq(l, 1, i - 1), l[i].node) + 1
  PROVE  l[i].level <= CurrentLevel(l, l[i].node)
<1> DEFINE n == l[i].node
<1>1. i \in 1 .. Len(l) /\ Len(l) \in Nat /\ SubSeq(l, 1, Len(l)) = l
  BY WholeLog
<1>2. i - 1 \in Nat /\ (i - 1) + 1 = i /\ i \in Nat /\ i <= Len(l)
  BY <1>1
<1>3. CurrentLevel(SubSeq(l, 1, i), n) = Turn(CurrentLevel(SubSeq(l, 1, i - 1), n), l[i], n)
  <2>1. CurrentLevel(SubSeq(l, 1, (i - 1) + 1), n)
          = Turn(CurrentLevel(SubSeq(l, 1, i - 1), n), l[(i - 1) + 1], n)
    BY <1>2, PrefixLevel
  <2> QED BY <1>2, <2>1
<1>4. CurrentLevel(SubSeq(l, 1, i), n) = l[i].level
  BY <1>3 DEF Turn, FoldDoneLevel
<1>5. CurrentLevel(SubSeq(l, 1, i), n) <= CurrentLevel(SubSeq(l, 1, Len(l)), n)
  BY <1>1, <1>2, LevelsRise
<1> QED BY <1>1, <1>4, <1>5

LEMMA FragInvAppend ==
  ASSUME Inv, FragInv, NEW p \in Process, job[p] \in AllRequests, OneRungUp(job[p]),
         log' = Append(log, Advanced(job[p])), pc'[p] = "loading", job'[p] = job[p],
         \A q \in Process \ {p} : pc'[q] = pc[q] /\ job'[q] = job[q],
         UNCHANGED <<frag, loaded>>
  PROVE  FragInv'
<1> DEFINE e == Advanced(job[p])
<1>1. /\ e \in Events /\ e.node = job[p].node /\ e.level = job[p].target
      /\ e.level = CurrentLevel(log, e.node) + 1 /\ log \in Seq(Events) /\ e.level \in Rung
  BY EventShape DEF Events, Advanced, OneRungUp, Inv, Shapes
<1>2. log' = Append(log, e)
  OBVIOUS
<1> HIDE DEF e
<1>3. \A n : CurrentLevel(log', n) = Turn(CurrentLevel(log, n), e, n)
  BY <1>1, <1>2, LevelOfOneMore
<1>4. \A n : /\ CurrentLevel(log, n) \in Rung /\ CurrentLevel(log', n) \in Rung
             /\ CurrentLevel(log, n) <= CurrentLevel(log', n)
  BY <1>1, <1>3, LevelIsRung, TurnRises
<1>5. Keys(log) \subseteq Keys(log')
  BY <1>1, <1>2 DEF Keys
<1>6. FragmentsNeverLead'
  BY <1>4 DEF FragInv, FragmentsNeverLead, Rung
<1>7. Behind(p)'
  <2>1. CurrentLevel(log', job[p].node) = job[p].target
    BY <1>1, <1>3 DEF Turn, FoldDoneLevel
  <2>2. loaded'[p] \in Rung /\ job'[p] = job[p] /\ pc'[p] = "loading" /\ job[p].target \in Rung
    BY <1>1 DEF Behind, FragInv
  <2> QED BY <2>1, <2>2 DEF Behind, Rung
<1>8. ASSUME NEW q \in Process \ {p} PROVE Behind(q)'
  <2>1. Behind(q) /\ job'[q] = job[q] /\ pc'[q] = pc[q] /\ loaded'[q] = loaded[q]
    BY DEF FragInv
  <2>2. pc[q] # "idle" => job[q].target \in Rung
    BY DEF Inv, ProcessInv, AllRequests
  <2>3. Advanced(job[q])' = Advanced(job[q])
    BY <2>1 DEF Advanced, Key
  <2> QED BY <1>4, <1>5, <2>1, <2>2, <2>3 DEF Behind, Rung
<1> QED BY <1>6, <1>7, <1>8 DEF FragInv

\* A step of p alone, that leaves the log as it is.
LEMMA FragInvElsewhere ==
  ASSUME Inv, FragInv, NEW p \in Process, UNCHANGED log, Frame(p), Behind(p)',
         FragmentsNeverLead', frag' \in [Node -> Rung \cup {absent, corrupt}]
  PROVE  FragInv'
<1>2. ASSUME NEW q \in Process \ {p} PROVE Behind(q)'
  <2>1. Behind(q) /\ job'[q] = job[q] /\ pc'[q] = pc[q] /\ loaded'[q] = loaded[q]
    BY DEF FragInv, Frame
  <2>2. Advanced(job[q])' = Advanced(job[q])
    BY <2>1 DEF Advanced, Key
  <2> QED BY <2>1, <2>2 DEF Behind
<1> QED BY <1>2 DEF FragInv

LEMMA FragInvOfProcess ==
  ASSUME Inv, FragInv, NEW p \in Process, UNCHANGED <<log, frag>>, Frame(p), Behind(p)'
  PROVE  FragInv'
<1>1. FragmentsNeverLead' /\ frag' \in [Node -> Rung \cup {absent, corrupt}]
  BY DEF FragInv, FragmentsNeverLead
<1> QED BY <1>1, FragInvElsewhere

LEMMA GoFrag ==
  ASSUME Inv, FragInv, NEW p \in Process, NEW at, Go(p, at),
         UNCHANGED <<log, frag, job, loaded, seen, left>>,
         at = "verifying" => Advanced(job[p]).key \in Keys(log),
         at = "loading" => job[p].target <= CurrentLevel(log, job[p].node),
         at # "storing"
  PROVE  FragInv'
<1>1. Frame(p) /\ pc'[p] = at
  BY DEF Frame, Go, Inv, Shapes
<1>2. Advanced(job[p])' = Advanced(job[p])
  BY DEF Advanced, Key
<1>3. Behind(p)'
  BY <1>1, <1>2 DEF Behind, FragInv
<1> QED BY <1>1, <1>3, FragInvOfProcess

LEMMA ReturnFrag ==
  ASSUME Inv, FragInv, NEW p \in Process, NEW status, Return(p, status), UNCHANGED <<log, frag>>
  PROVE  FragInv'
<1>1. Frame(p) /\ pc'[p] = "idle" /\ loaded'[p] = 0
  BY DEF Frame, Return, Go, Inv, Shapes
<1>2. Behind(p)'
  BY <1>1 DEF Behind, Rung
<1> QED BY <1>1, <1>2, FragInvOfProcess

\* One fragment is written, at most as far as the log.
LEMMA WriteFrag ==
  ASSUME FragInv, NEW n, NEW k, k \in Rung \cup {absent, corrupt},
         n \in Node /\ k \in Rung => k <= CurrentLevel(log, n),
         frag' = [frag EXCEPT ![n] = k], UNCHANGED log
  PROVE  FragmentsNeverLead' /\ frag' \in [Node -> Rung \cup {absent, corrupt}]
<1>1. frag' \in [Node -> Rung \cup {absent, corrupt}]
  BY DEF FragInv
<1>2. ASSUME NEW m \in Node, frag'[m] \in Rung PROVE frag'[m] <= CurrentLevel(log, m)
  BY <1>2 DEF FragInv, FragmentsNeverLead
<1> QED BY <1>1, <1>2 DEF FragmentsNeverLead

LEMMA FragSteps ==
  ASSUME Inv, FragInv, RungsInOrder, NEW p \in Process, UNCHANGED log,
         CallAdvance(p) \/ Step(p) \/ Crash(p)
  PROVE  FragInv'
<1>1. CASE CallAdvance(p)
  <2>1. /\ pc' = [pc EXCEPT ![p] = "checking"] /\ UNCHANGED <<log, frag, loaded, seen, left>>
        /\ \E r \in Requests : job' = [job EXCEPT ![p] = r]
    BY <1>1 DEF CallAdvance, Go
  <2>2. Frame(p) /\ pc'[p] = "checking" /\ loaded'[p] = loaded[p]
    BY <2>1 DEF Frame, Inv, Shapes
  <2>3. Behind(p)'
    BY <2>2 DEF Behind, FragInv
  <2> QED BY <2>1, <2>2, <2>3, FragInvOfProcess
<1>2. CASE Check(p)
  <2>1. UNCHANGED <<log, frag>> /\ ((Go(p, "appending") /\ UNCHANGED stay) \/ Return(p, "rejected"))
    BY <1>2 DEF Check, world
  <2> QED BY <2>1, GoFrag, ReturnFrag DEF stay
<1>3. CASE AppendEvent(p)
  <2> DEFINE e == Advanced(job[p])
  <2>1. UNCHANGED <<log, frag>>
    BY <1>3 DEF AppendEvent
  <2>2. CASE Record(e, StillAdjacent(job[p]))
    <3>1. log \in Seq(Events) /\ log' = Append(log, e)
      BY <2>2 DEF Record, Inv, Shapes
    <3>2. Len(log') = Len(log) + 1 /\ Len(log) \in Nat
      <4> HIDE DEF e
      <4> QED BY <3>1
    <3> QED BY <2>1, <3>2
  <2>3. CASE Recorded(e) /\ Go(p, "verifying") /\ UNCHANGED stay
    <3>1. e.key \in Keys(log)
      BY <2>3 DEF Recorded
    <3> QED BY <2>1, <2>3, <3>1, GoFrag DEF stay
  <2>4. CASE Return(p, "rejected")
    BY <2>1, <2>4, ReturnFrag
  <2> QED BY <1>3, <2>2, <2>3, <2>4 DEF AppendEvent
<1>4. CASE Timeout(p) \/ RebuildDone(p)
  BY <1>4, ReturnFrag DEF Timeout, RebuildDone, world
<1>5. CASE Crash(p)
  BY <1>5, ReturnFrag DEF Crash
<1>6. CASE Verify(p)
  <2>1. UNCHANGED <<log, frag>> /\ pc[p] = "verifying" /\ job[p] \in AllRequests
    BY <1>6 DEF Verify, world, Inv, ProcessInv
  <2>2. CASE Return(p, "rejected")
    BY <2>1, <2>2, ReturnFrag
  <2>3. CASE Go(p, "loading") /\ UNCHANGED stay
    <3>1. PICK i \in DOMAIN log : log[i].key = Advanced(job[p]).key
      BY <2>1 DEF FragInv, Behind, Keys
    <3>2. log \in Seq(Events) /\ log[i] \in Events
      BY DEF Inv, Shapes
    <3>3. log[i].node = job[p].node /\ log[i].level = job[p].target
      BY <3>1, <3>2 DEF Events, Advanced, Key
    <3>4. log[i].level <= CurrentLevel(log, log[i].node)
      BY <3>2, RecordedIsReached DEF RungsInOrder
    <3>5. job[p].target <= CurrentLevel(log, job[p].node)
      BY <3>3, <3>4
    <3> QED BY <2>1, <2>3, <3>5, GoFrag DEF stay
  <2> QED BY <1>6, <2>2, <2>3 DEF Verify
<1>7. CASE Load(p)
  <2> DEFINE f == frag[job[p].node]
  <2>1. /\ UNCHANGED <<log, frag, job, seen, left>> /\ pc[p] = "loading"
        /\ job[p] \in AllRequests /\ log \in Seq(Events)
    BY <1>7 DEF Load, world, Inv, ProcessInv, Shapes
  <2>2. CASE Go(p, "rebuilding") /\ UNCHANGED loaded
    BY <2>1, <2>2, GoFrag
  <2>3. CASE f # corrupt /\ Go(p, "storing") /\ loaded' = [loaded EXCEPT ![p] = IF f = absent THEN 0 ELSE f]
    <3>1. /\ Frame(p) /\ pc'[p] = "storing" /\ job'[p] = job[p]
          /\ loaded'[p] = IF f = absent THEN 0 ELSE f
      BY <2>1, <2>3 DEF Frame, Go, Inv, Shapes
    <3>2. job[p].node \in Node /\ job[p].target <= CurrentLevel(log, job[p].node)
          /\ CurrentLevel(log, job[p].node) \in Rung
      BY <2>1, LevelIsRung DEF FragInv, Behind, AllRequests
    <3>3. f \in Rung \cup {absent, corrupt} /\ (f \in Rung => f <= CurrentLevel(log, job[p].node))
      BY <3>2 DEF FragInv, FragmentsNeverLead
    <3>4. loaded'[p] \in Rung /\ loaded'[p] <= CurrentLevel(log, job[p].node)
      BY <2>3, <3>1, <3>2, <3>3 DEF Rung
    <3>5. Behind(p)'
      BY <2>1, <3>1, <3>2, <3>4 DEF Behind
    <3> QED BY <2>1, <3>1, <3>5, FragInvOfProcess
  <2> QED BY <1>7, <2>2, <2>3 DEF Load
<1>8. CASE Store(p)
  <2>1. /\ pc[p] = "storing" /\ job[p] \in AllRequests /\ job[p].node \in Node
        /\ job[p].target \in Rung
        /\ frag' = [frag EXCEPT ![job[p].node] = FoldDoneLevel(loaded[p], Advanced(job[p]))]
        /\ Return(p, "advanced")
    BY <1>8 DEF Store, Inv, ProcessInv, AllRequests
  <2>2. /\ loaded[p] \in Rung /\ loaded[p] <= CurrentLevel(log, job[p].node)
        /\ job[p].target <= CurrentLevel(log, job[p].node)
    BY <2>1 DEF FragInv, Behind
  <2>3. FoldDoneLevel(loaded[p], Advanced(job[p])) \in {loaded[p], job[p].target}
    BY DEF FoldDoneLevel, Advanced
  <2> DEFINE k == FoldDoneLevel(loaded[p], Advanced(job[p]))
  <2>4. k \in Rung /\ k <= CurrentLevel(log, job[p].node)
    BY <2>1, <2>2, <2>3
  <2> HIDE DEF k
  <2>5. FragmentsNeverLead' /\ frag' \in [Node -> Rung \cup {absent, corrupt}]
    BY <2>1, <2>4, WriteFrag DEF k
  <2>6. Frame(p) /\ pc'[p] = "idle" /\ loaded'[p] = 0
    BY <2>1 DEF Frame, Return, Go, Inv, Shapes
  <2>7. Behind(p)'
    BY <2>6 DEF Behind, Rung
  <2> QED BY <2>5, <2>6, <2>7, FragInvElsewhere
<1>9. CASE RebuildRead(p)
  <2>1. UNCHANGED <<log, frag, job, loaded>> /\ Go(p, "restoring") /\ Frame(p) /\ pc'[p] = "restoring"
    BY <1>9 DEF RebuildRead, world, Frame, Go, Inv, Shapes
  <2>2. Behind(p)'
    BY <2>1 DEF Behind, FragInv
  <2> QED BY <2>1, <2>2, FragInvOfProcess
<1>10. CASE RebuildWrite(p)
  <2> DEFINE l == SubSeq(log, 1, seen[p])
  <2>1. PICK n \in left[p] : frag' = [frag EXCEPT ![n] = CurrentLevel(l, n)]
    BY <1>10 DEF RebuildWrite
  <2>2. /\ log \in Seq(Events) /\ SubSeq(log, 1, Len(log)) = log /\ Len(log) \in Nat
        /\ seen[p] \in Nat /\ seen[p] <= Len(log)
    BY WholeLog DEF Inv, Shapes, ProcessInv
  <2>3. CurrentLevel(l, n) \in Rung /\ CurrentLevel(l, n) <= CurrentLevel(SubSeq(log, 1, Len(log)), n)
    BY <2>2, LevelsRise
  <2>4. FragmentsNeverLead' /\ frag' \in [Node -> Rung \cup {absent, corrupt}]
    <3> HIDE DEF l
    <3> QED BY <2>1, <2>2, <2>3, WriteFrag
  <2>5. UNCHANGED <<pc, job, loaded, seen>> /\ \A q \in Process \ {p} : left'[q] = left[q]
    BY <1>10 DEF RebuildWrite, Inv, Shapes
  <2>6. Frame(p) /\ Behind(p)'
    <3>1. Advanced(job[p])' = Advanced(job[p])
      BY <2>5 DEF Advanced, Key
    <3> QED BY <2>5, <3>1 DEF Frame, Behind, FragInv
  <2> QED BY <2>4, <2>6, FragInvElsewhere
<1> QED BY <1>1, <1>2, <1>3, <1>4, <1>5, <1>6, <1>7, <1>8, <1>9, <1>10 DEF Step

LEMMA FragInvStays ==
  ASSUME Inv, RungsInOrder, FragInv, [Next]_vars
  PROVE  FragInv'
<1>1. CASE UNCHANGED log
  <2>1. ASSUME NEW p \in Process, CallAdvance(p) \/ Step(p) \/ Crash(p) PROVE FragInv'
    BY <1>1, <2>1, FragSteps
  <2>2. ASSUME NEW n \in Node, Damage(n) PROVE FragInv'
    <3>1. PICK f \in {absent, corrupt} : frag' = [frag EXCEPT ![n] = f]
      BY <2>2 DEF Damage
    <3>2. FragmentsNeverLead' /\ frag' \in [Node -> Rung \cup {absent, corrupt}]
      BY <1>1, <3>1, FileAssumption, WriteFrag
    <3>3. UNCHANGED <<pc, job, loaded>>
      BY <2>2 DEF Damage, stay
    <3>4. \A p \in Process : Behind(p)'
      BY <1>1, <3>3 DEF FragInv, Behind, Advanced, Key
    <3> QED BY <3>2, <3>4 DEF FragInv
  <2>3. CASE UNCHANGED vars
    <3>1. \A p \in Process : Behind(p)'
      BY <2>3 DEF vars, FragInv, Behind, Advanced, Key
    <3> QED BY <2>3, <3>1 DEF vars, FragInv, FragmentsNeverLead
  <2> QED BY <2>1, <2>2, <2>3 DEF Next
<1> QED BY <1>1, OneEventAtMost, FragInvAppend

\* No fragment says more than the log, if no rung of the log the program starts
\* with was forged out of order; at the start there are no fragments.
THEOREM CacheNeverLeads == Spec /\ RungsInOrder => []FragmentsNeverLead
<1>1. Init => FragInv
  BY FileAssumption DEF Init, FragInv, FragmentsNeverLead, Behind, Rung
<1>2. /\ Inv /\ RungsInOrder /\ FragInv /\ [Next]_vars
      => (Inv /\ RungsInOrder /\ FragInv)'
  BY NextInv, OneRungMore, FragInvStays
<1>3. FragInv => FragmentsNeverLead
  BY DEF FragInv
<1> QED BY <1>1, <1>2, <1>3, InitInv, PTL DEF Spec
=============================================================================
