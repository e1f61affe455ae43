-------------------------- MODULE EdgeGraphProofs ---------------------------
(***************************************************************************)
(* EdgeGraph for any nodes and any number of processes: no stored edge     *)
(* ever lies on a circle, a flag is final, and readers resolve what is     *)
(* stored.  The log may start with any edges and flags for which that      *)
(* holds already, or with any edges at all under foreign keys.             *)
(*                                                                         *)
(* The argument for a new edge <<u, v>> needs no induction over paths: in  *)
(* a set of nodes that all wait for one another, the ones that cannot be   *)
(* reached from v wait for one another over the old edges alone, and u is  *)
(* one of them.                                                            *)
(*                                                                         *)
(* The queries of DependencyGraph are loops: each is shown to end (some    *)
(* measure has a least value in every set of states), and to end in a      *)
(* state that an invariant of its turns holds of.                          *)
(***************************************************************************)
EXTENDS DependencyGraph, FiniteSetTheorems, SequenceTheorems,
        WellFoundedInduction, NaturalsInduction, TLAPS

\* What add_edge writes, and what a log may hold besides.
Entry == {EdgeEvent(e) : e \in AllEdges} \cup {CycleEvent(e) : e \in AllEdges}
AnyEntry == Entry \cup {ForgedEdge(e) : e \in AllEdges}

\* The precondition refuses e on a log l, that does not hold it.
RefusedBy(e, l) ==
  Ordering(e) /\ WouldCloseCycle(Pairs(EdgesIn(l)), PrecedencePair(e))
Flagged(e, l) == RefusedBy(e, l) /\ e \notin EdgesIn(l)

\* A log that add_edge could have written.
WellFormed(l) ==
  /\ l \in Seq(Entry)
  /\ NoCircularWait(EdgesIn(l))
  /\ \A e \in EdgesIn(l) : e.src # e.dst
  /\ \A i \in DOMAIN l : l[i].kind = "cycle" => Flagged(l[i].edge, l)

Written(l) == \A i \in DOMAIN l : l[i].key[1] # "forged"

\* The stored edges of a log lie on no circle, whatever the others do.
Parted(l) ==
  \A e \in StoredIn(l) : \A m, n \in Node :
    ComesBefore({e}, m, n) => KeptApart(EdgesIn(l), m, n)

\* A log to start from: any edges whatever, as long as forged ones bear their
\* mark and close no circle with the others.
Plausible(l) == l \in Seq(AnyEntry) /\ Parted(l) /\ (Written(l) => WellFormed(l))

\* From l to k: what holds of a log nobody forged goes on to hold.
Grows(l, k) ==
  /\ k \in Seq(AnyEntry) /\ Parted(k)
  /\ Written(k) => /\ Written(l) /\ WellFormed(k)
                   /\ \A f : Flagged(f, l) => Flagged(f, k)

\* The invariants of the runs, and: a process about to write a flag was
\* refused, and still would be.
Inv ==
  /\ TypeOK
  /\ Plausible(log)
  /\ pc \in [Process -> {"idle", "appending", "flagging"}]
  /\ job \in [Process -> AllEdges \cup {NoJob}]
  /\ Written(log) => \A p \in Process : pc[p] = "flagging" => Flagged(job[p], log)
-----------------------------------------------------------------------------
\* A successor of v, or of what can be reached from v, can be reached from v.
LEMMA OneStepMore ==
  ASSUME NEW P, NEW v, NEW x, NEW y \in Node,
         <<x, y>> \in P, x = v \/ x \in ReachableFrom(P, v)
  PROVE  y \in ReachableFrom(P, v)
<1>1. ASSUME NEW S \in SUBSET Node, Closed(P, v, S) PROVE y \in S
  <2>1. x = v \/ x \in S
    BY <1>1 DEF ReachableFrom
  <2>2. <<x, y>>[1] = v \/ <<x, y>>[1] \in S => <<x, y>>[2] \in S
    BY <1>1 DEF Closed
  <2> QED BY <2>1, <2>2
<1> QED BY <1>1 DEF ReachableFrom

\* More edges reach no less.
LEMMA ReachableGrows ==
  ASSUME NEW P, NEW Q, P \subseteq Q, NEW v
  PROVE  ReachableFrom(P, v) \subseteq ReachableFrom(Q, v)
BY DEF ReachableFrom, Closed

LEMMA RefusalStays ==
  ASSUME NEW k, NEW l, EdgesIn(k) \subseteq EdgesIn(l), NEW e, RefusedBy(e, k)
  PROVE  RefusedBy(e, l)
<1>1. Pairs(EdgesIn(k)) \subseteq Pairs(EdgesIn(l))
  BY DEF Pairs
<1> QED BY <1>1, ReachableGrows DEF RefusedBy, WouldCloseCycle

LEMMA EntryHasAnEdge ==
  ASSUME NEW x \in AnyEntry
  PROVE  x.kind \in {"edge", "cycle"} /\ x.edge \in AllEdges
<1>1. PICK e \in AllEdges : x = EdgeEvent(e) \/ x = CycleEvent(e) \/ x = ForgedEdge(e)
  BY DEF Entry, AnyEntry
<1> QED BY <1>1 DEF EdgeEvent, CycleEvent, ForgedEdge

\* The edges of a log are edges.
LEMMA EdgesInAreEdges ==
  ASSUME NEW l \in Seq(AnyEntry)
  PROVE  EdgesIn(l) \in SUBSET AllEdges
<1>1. \A i \in DOMAIN l : l[i].edge \in AllEdges
  BY EntryHasAnEdge
<1> QED BY <1>1 DEF EdgesIn

\* What a new event adds to the persisted edges.
LEMMA AppendedEdges ==
  ASSUME NEW l \in Seq(Entry), NEW x \in Entry
  PROVE  /\ Append(l, x) \in Seq(Entry)
         /\ x.kind = "edge" => EdgesIn(Append(l, x)) = EdgesIn(l) \cup {x.edge}
         /\ x.kind # "edge" => EdgesIn(Append(l, x)) = EdgesIn(l)
<1>1. /\ Append(l, x) \in Seq(Entry)
      /\ DOMAIN Append(l, x) = 1 .. Len(l) + 1
      /\ DOMAIN l = 1 .. Len(l)
      /\ \A i \in 1 .. Len(l) : Append(l, x)[i] = l[i]
      /\ Append(l, x)[Len(l) + 1] = x
      /\ Len(l) \in Nat
  OBVIOUS
<1>2. \A i : i \in 1 .. Len(l) + 1 <=> i \in 1 .. Len(l) \/ i = Len(l) + 1
  BY <1>1
<1> QED BY <1>1, <1>2 DEF EdgesIn

\* An edge is recorded under its own key.
LEMMA EdgeHasItsKey ==
  ASSUME NEW l \in Seq(Entry), NEW e, e \in EdgesIn(l)
  PROVE  EdgeEvent(e).key \in Keys(l)
<1>1. PICK i \in DOMAIN l : l[i].kind = "edge" /\ l[i].edge = e
  BY DEF EdgesIn
<1>2. l[i] \in Entry
  BY <1>1
<1>3. l[i].key = EdgeEvent(e).key
  BY <1>1, <1>2 DEF Entry, EdgeEvent, CycleEvent
<1> QED BY <1>1, <1>3 DEF Keys
-----------------------------------------------------------------------------
\* What comes before what, read off the pairs that add_edge checks.
LEMMA PairsSayWhatComesBefore ==
  ASSUME NEW es \in SUBSET AllEdges, NEW m, NEW n, m # n, ComesBefore(es, m, n)
  PROVE  <<m, n>> \in Pairs(es)
<1>1. PICK e \in es : \/ e.type = "blocked-by" /\ e.src = n /\ e.dst = m
                      \/ e.type = "feeds-into" /\ e.src = m /\ e.dst = n
  BY DEF ComesBefore
<1>2. Ordering(e) /\ e.src # e.dst /\ PrecedencePair(e) = <<m, n>>
  BY <1>1 DEF Ordering, OrderingTypes, PrecedencePair
<1> QED BY <1>2 DEF Pairs

\* A new edge adds one pair, if its type is an ordering one.
LEMMA WhatComesBeforeNow ==
  ASSUME NEW es \in SUBSET AllEdges, NEW e \in AllEdges, NEW m, NEW n,
         ComesBefore(es \cup {e}, m, n), ~ComesBefore(es, m, n)
  PROVE  Ordering(e) /\ PrecedencePair(e) = <<m, n>>
BY DEF ComesBefore, Ordering, OrderingTypes, PrecedencePair

\* The check of _would_close_cycle is sufficient.
LEMMA NewEdge ==
  ASSUME NEW es \in SUBSET AllEdges, NoCircularWait(es),
         NEW e \in AllEdges, e.src # e.dst,
         Ordering(e) => ~WouldCloseCycle(Pairs(es), PrecedencePair(e))
  PROVE  NoCircularWait(es \cup {e})
<1> DEFINE u == PrecedencePair(e)[1]
           v == PrecedencePair(e)[2]
           Before(m, n) == ComesBefore(es \cup {e}, m, n)
           T(S) == {n \in S : n # v /\ n \notin ReachableFrom(Pairs(es), v)}
<1>1. u # v /\ PrecedencePair(e) = <<u, v>>
  BY DEF PrecedencePair
<1> SUFFICES ASSUME NEW S \in SUBSET Node, S # {},
                    \A n \in S : \E m \in S : Before(m, n)
             PROVE  FALSE
  BY DEF NoCircularWait
<1>2. \A m, n : Before(m, n) /\ ~ComesBefore(es, m, n) => Ordering(e) /\ m = u /\ n = v
  BY WhatComesBeforeNow
<1>3. CASE ~Ordering(e) \/ u \notin S
  <2>1. \A n \in S : \E m \in S : ComesBefore(es, m, n)
    BY <1>2, <1>3
  <2> QED BY <2>1 DEF NoCircularWait
<1>4. CASE Ordering(e) /\ u \in S
  <2>1. u \in T(S)
    BY <1>1, <1>4 DEF WouldCloseCycle
  <2>2. T(S) \in SUBSET Node /\ T(S) # {}
    BY <2>1
  <2>3. PICK n \in T(S) : \A m \in T(S) : ~ComesBefore(es, m, n)
    BY <2>2 DEF NoCircularWait
  <2>4. PICK m \in S : Before(m, n)
    BY <2>3
  <2>5. ComesBefore(es, m, n)
    BY <1>2, <2>3, <2>4
  <2>6. m = v \/ m \in ReachableFrom(Pairs(es), v)
    BY <2>3, <2>5
  <2>7. m # n
    BY <2>3, <2>6
  <2>8. <<m, n>> \in Pairs(es)
    BY <2>5, <2>7, PairsSayWhatComesBefore
  <2>9. n \in ReachableFrom(Pairs(es), v)
    BY <2>3, <2>6, <2>8, OneStepMore
  <2> QED BY <2>3, <2>9
<1> QED BY <1>3, <1>4

\* It is so among any other edges too: what v leads to does not hold u, and what
\* an older edge leads to is widened by it, or cut down to it, as need be.
LEMMA NewEdgeParts ==
  ASSUME NEW es \in SUBSET AllEdges, NEW e \in AllEdges, e.src # e.dst,
         Ordering(e) => ~WouldCloseCycle(Pairs(es), PrecedencePair(e)),
         NEW f, f \in es \cup {e}, NEW m \in Node, NEW n \in Node, ComesBefore({f}, m, n),
         f # e => KeptApart(es, m, n)
  PROVE  KeptApart(es \cup {e}, m, n)
<1> DEFINE u == PrecedencePair(e)[1]
           v == PrecedencePair(e)[2]
           R == {v} \cup ReachableFrom(Pairs(es), v)
           ds == es \cup {e}
<1>1. /\ u # v /\ PrecedencePair(e) = <<u, v>> /\ v \in Node /\ R \in SUBSET Node /\ v \in R
      /\ Ordering(e) => u \notin R
  BY DEF PrecedencePair, AllEdges, ReachableFrom, WouldCloseCycle
<1>2. \A i, j : ComesBefore(ds, i, j) /\ ~ComesBefore(es, i, j) => Ordering(e) /\ i = u /\ j = v
  BY <1>1, WhatComesBeforeNow
<1>3. ASSUME NEW i \in R, NEW j \in Node, ComesBefore(es, i, j) PROVE j \in R
  <2>1. CASE i = j
    BY <2>1
  <2>2. CASE i # j
    <3>1. <<i, j>> \in Pairs(es)
      BY <1>3, <2>2, PairsSayWhatComesBefore
    <3> QED BY <1>3, <3>1, OneStepMore
  <2> QED BY <2>1, <2>2
<1> HIDE DEF R, u, v, ds
<1>4. CASE f = e
  <2>1. Ordering(e) /\ m = u /\ n = v
    BY <1>1, <1>4 DEF ComesBefore, Ordering, OrderingTypes, PrecedencePair
  <2>2. \A i \in R, j \in Node : ComesBefore(ds, i, j) => j \in R
    BY <1>1, <1>2, <1>3, <2>1
  <2> QED BY <1>1, <2>1, <2>2 DEF KeptApart, ds
<1>5. CASE f # e
  <2>1. PICK S \in SUBSET Node :
          n \in S /\ m \notin S /\ \A i \in S, j \in Node : ComesBefore(es, i, j) => j \in S
    BY <1>5 DEF KeptApart
  <2>2. ComesBefore(es, m, n)
    BY <1>5 DEF ComesBefore
  <2>3. CASE ~Ordering(e)
    <3>1. \A i \in S, j \in Node : ComesBefore(ds, i, j) => j \in S
      BY <1>2, <2>1, <2>3
    <3> QED BY <2>1, <3>1 DEF KeptApart, ds
  <2>4. CASE Ordering(e) /\ m \in R
    <3> DEFINE T == S \cap R
    <3>1. n \in T /\ m \notin T /\ T \in SUBSET Node
      BY <1>3, <2>1, <2>2, <2>4
    <3>2. \A i \in T, j \in Node : ComesBefore(ds, i, j) => j \in T
      BY <1>1, <1>2, <1>3, <2>1, <2>4
    <3> HIDE DEF T
    <3> QED BY <3>1, <3>2 DEF KeptApart, ds
  <2>5. CASE Ordering(e) /\ m \notin R
    <3> DEFINE T == S \cup R
    <3>1. n \in T /\ m \notin T /\ T \in SUBSET Node
      BY <1>1, <2>1, <2>5
    <3>2. \A i \in T, j \in Node : ComesBefore(ds, i, j) => j \in T
      BY <1>1, <1>2, <1>3, <2>1
    <3> HIDE DEF T
    <3> QED BY <3>1, <3>2 DEF KeptApart, ds
  <2> QED BY <2>3, <2>4, <2>5
<1> QED BY <1>4, <1>5
-----------------------------------------------------------------------------
\* An event that add_edge may append keeps the log well-formed, and whoever was
\* refused remains so.
LEMMA WellFormedGrows ==
  ASSUME NEW l, WellFormed(l), NEW e \in AllEdges, e.src # e.dst, NEW x,
         \/ /\ x = EdgeEvent(e)
            /\ Ordering(e) => ~WouldCloseCycle(Pairs(EdgesIn(l)), PrecedencePair(e))
         \/ x = CycleEvent(e) /\ Flagged(e, l)
  PROVE  /\ WellFormed(Append(l, x))
         /\ \A f : Flagged(f, l) => Flagged(f, Append(l, x))
<1> DEFINE k == Append(l, x)
<1>1. l \in Seq(Entry) /\ x \in Entry
  BY DEF WellFormed, Entry
<1>2. /\ k \in Seq(Entry)
      /\ x = EdgeEvent(e) => EdgesIn(k) = EdgesIn(l) \cup {e}
      /\ x = CycleEvent(e) => EdgesIn(k) = EdgesIn(l)
  BY <1>1, AppendedEdges DEF EdgeEvent, CycleEvent
<1>3. EdgesIn(l) \in SUBSET AllEdges
  BY <1>1 DEF EdgesIn, Entry, EdgeEvent, CycleEvent
<1>4. NoCircularWait(EdgesIn(k)) /\ \A f \in EdgesIn(k) : f.src # f.dst
  BY <1>2, <1>3, NewEdge DEF WellFormed
<1>5. ASSUME NEW f, Flagged(f, l) PROVE Flagged(f, k)
  <2>1. RefusedBy(f, k)
    BY <1>2, <1>5, RefusalStays DEF Flagged
  <2>2. x = EdgeEvent(e) => e # f
    BY <1>5 DEF Flagged, RefusedBy, EdgeEvent, CycleEvent
  <2> QED BY <1>2, <1>5, <2>1, <2>2 DEF Flagged
<1>6. ASSUME NEW i \in DOMAIN k, k[i].kind = "cycle" PROVE Flagged(k[i].edge, k)
  <2>1. \/ i \in DOMAIN l /\ k[i] = l[i]
        \/ k[i] = x
    BY <1>1
  <2>2. CASE i \in DOMAIN l /\ k[i] = l[i]
    BY <1>5, <1>6, <2>2 DEF WellFormed
  <2>3. CASE k[i] = x
    BY <1>5, <1>6, <2>3 DEF EdgeEvent, CycleEvent
  <2> QED BY <2>1, <2>2, <2>3
<1> HIDE DEF k
<1>7. WellFormed(k)
  BY <1>2, <1>4, <1>6 DEF WellFormed
<1> QED BY <1>5, <1>7 DEF k
-----------------------------------------------------------------------------
LEMMA LogOfEntries ==
  ASSUME NEW l \in Seq(AnyEntry), NEW i \in DOMAIN l
  PROVE  l[i].kind \in {"edge", "cycle"} /\ l[i].edge \in AllEdges
BY EntryHasAnEdge

\* What a line adds to the edges, and to the stored ones.
LEMMA EdgesOfOneMore ==
  ASSUME NEW l \in Seq(AnyEntry), NEW e \in AllEdges, NEW x,
         x = EdgeEvent(e) \/ x = CycleEvent(e)
  PROVE  /\ x = EdgeEvent(e) => /\ EdgesIn(Append(l, x)) = EdgesIn(l) \cup {e}
                                /\ StoredIn(Append(l, x)) = StoredIn(l) \cup {e}
         /\ x = CycleEvent(e) => /\ EdgesIn(Append(l, x)) = EdgesIn(l)
                                 /\ StoredIn(Append(l, x)) = StoredIn(l)
<1>1. /\ DOMAIN Append(l, x) = 1 .. Len(l) + 1
      /\ DOMAIN l = 1 .. Len(l)
      /\ \A i \in 1 .. Len(l) : Append(l, x)[i] = l[i]
      /\ Append(l, x)[Len(l) + 1] = x
      /\ Len(l) \in Nat
  OBVIOUS
<1>2. \A i : i \in 1 .. Len(l) + 1 <=> i \in 1 .. Len(l) \/ i = Len(l) + 1
  BY <1>1
<1> DEFINE k == Append(l, x)
<1> HIDE DEF k
<1>3. CASE x = EdgeEvent(e)
  <2>1. x.kind = "edge" /\ x.edge = e /\ x.key[1] # "forged"
    BY <1>3 DEF EdgeEvent
  <2>2. x # CycleEvent(e)
    BY <2>1 DEF CycleEvent
  <2> QED BY <1>1, <1>2, <2>1, <2>2 DEF EdgesIn, StoredIn
<1>4. CASE x = CycleEvent(e)
  <2>1. x.kind # "edge"
    BY <1>4 DEF CycleEvent
  <2>2. x # EdgeEvent(e)
    BY <2>1 DEF EdgeEvent
  <2> QED BY <1>1, <1>2, <2>1, <2>2 DEF EdgesIn, StoredIn
<1> QED BY <1>3, <1>4

\* A stored edge is an edge of the log.
LEMMA StoredIsThere ==
  ASSUME NEW l
  PROVE  StoredIn(l) \subseteq EdgesIn(l)
BY DEF StoredIn, EdgesIn

\* A new line hides no forged one.
LEMMA LineGrows ==
  ASSUME NEW l, Plausible(l), NEW e \in AllEdges, e.src # e.dst, NEW x,
         \/ /\ x = EdgeEvent(e)
            /\ Ordering(e) => ~WouldCloseCycle(Pairs(EdgesIn(l)), PrecedencePair(e))
         \/ x = CycleEvent(e) /\ (Written(l) => Flagged(e, l))
  PROVE  Grows(l, Append(l, x))
<1> DEFINE k == Append(l, x)
<1>1. l \in Seq(AnyEntry) /\ x \in AnyEntry
  BY DEF Plausible, AnyEntry, Entry
<1>2. /\ k \in Seq(AnyEntry) /\ DOMAIN l \subseteq DOMAIN k
      /\ \A i \in DOMAIN l : k[i] = l[i]
  BY <1>1
<1>3. Written(k) => Written(l)
  BY <1>2 DEF Written
<1>4. Written(k) => WellFormed(k) /\ \A f : Flagged(f, l) => Flagged(f, k)
  BY <1>3, WellFormedGrows DEF Plausible
<1>5. Parted(k)
  <2>1. EdgesIn(l) \in SUBSET AllEdges
    BY <1>1, EdgesInAreEdges
  <2>2. CASE x = CycleEvent(e)
    BY <1>1, <2>2, EdgesOfOneMore DEF Plausible, Parted
  <2>3. CASE x = EdgeEvent(e)
    <3>1. EdgesIn(k) = EdgesIn(l) \cup {e} /\ StoredIn(k) = StoredIn(l) \cup {e}
      BY <1>1, <2>3, EdgesOfOneMore
    <3>2. Ordering(e) => ~WouldCloseCycle(Pairs(EdgesIn(l)), PrecedencePair(e))
      BY <2>3 DEF EdgeEvent, CycleEvent
    <3> HIDE DEF k
    <3>3. ASSUME NEW f \in StoredIn(k), NEW m \in Node, NEW n \in Node,
                 ComesBefore({f}, m, n)
          PROVE  KeptApart(EdgesIn(l) \cup {e}, m, n)
      <4>1. f # e => f \in StoredIn(l)
        BY <3>1, <3>3
      <4>2. f # e => KeptApart(EdgesIn(l), m, n)
        BY <3>3, <4>1 DEF Plausible, Parted
      <4>3. f \in EdgesIn(l) \cup {e}
        BY <4>1, StoredIsThere
      <4> QED BY <2>1, <3>2, <3>3, <4>2, <4>3, NewEdgeParts
    <3> QED BY <3>1, <3>3 DEF Parted
  <2> QED BY <2>2, <2>3
<1> QED BY <1>2, <1>3, <1>4, <1>5 DEF Grows

LEMMA SameGrows ==
  ASSUME NEW l, Plausible(l)
  PROVE  Grows(l, l)
BY DEF Plausible, Grows

LEMMA InitInv ==
  ASSUME \A l \in InitialLogs : Plausible(l), Init
  PROVE  Inv
<1>1. Plausible(log) /\ log \in Seq(AnyEntry)
  BY DEF Init, Plausible
<1>2. /\ pc \in [Process -> {"idle", "appending", "flagging"}]
      /\ job \in [Process -> AllEdges \cup {NoJob}]
      /\ \A p \in Process : pc[p] = "idle"
  BY DEF Init
<1>3. TypeOK
  BY <1>1, <1>2, LogOfEntries DEF TypeOK
<1> QED BY <1>1, <1>2, <1>3 DEF Inv

\* What a step of p leaves of the invariant to show: the log and p's own state.
LEMMA StepOfOne ==
  ASSUME Inv, NEW p \in Process,
         pc' \in [Process -> {"idle", "appending", "flagging"}],
         job' \in [Process -> AllEdges \cup {NoJob}],
         \A q \in Process \ {p} : pc'[q] = pc[q] /\ job'[q] = job[q],
         pc'[p] # "idle" => job'[p] \in Edges /\ job'[p].src # job'[p].dst,
         pc'[p] = "flagging" /\ Written(log') => Flagged(job'[p], log'),
         Grows(log, log')
  PROVE  Inv'
<1>1. \A q \in Process :
        /\ pc'[q] \in {"idle", "appending", "flagging"}
        /\ pc'[q] # "idle" => job'[q] \in Edges /\ job'[q].src # job'[q].dst
  BY DEF Inv, TypeOK
<1>2. Written(log') => \A q \in Process : pc'[q] = "flagging" => Flagged(job'[q], log')
  BY DEF Inv, Grows
<1>3. \A i \in DOMAIN log' :
        log'[i].kind \in {"edge", "cycle"} /\ log'[i].edge \in AllEdges
  BY LogOfEntries DEF Grows
<1>4. TypeOK'
  BY <1>1, <1>3 DEF TypeOK
<1>5. Plausible(log)'
  BY DEF Grows, Plausible, Parted, StoredIn, KeptApart, Written, WellFormed, Flagged, RefusedBy
<1> QED BY <1>2, <1>4, <1>5 DEF Inv, Flagged, RefusedBy, Written

\* The call of p ends.
LEMMA ReturnKeepsInv ==
  ASSUME Inv, NEW p \in Process, NEW s, Return(p, s), Grows(log, log')
  PROVE  Inv'
<1>1. /\ pc' \in [Process -> {"idle", "appending", "flagging"}]
      /\ job' \in [Process -> AllEdges \cup {NoJob}]
      /\ \A q \in Process \ {p} : pc'[q] = pc[q] /\ job'[q] = job[q]
      /\ pc'[p] = "idle"
  BY DEF Inv, Return
<1> QED BY <1>1, StepOfOne

\* Calls, and ends of calls that record nothing.
LEMMA QuietStep ==
  ASSUME Inv, NEW p \in Process, CallAddEdge(p) \/ Timeout(p) \/ Crash(p)
  PROVE  Inv'
<1>1. Grows(log, log')
  BY SameGrows DEF Inv, CallAddEdge, Timeout, Crash
<1>2. CASE CallAddEdge(p)
  <2>1. PICK e \in Edges : e.src # e.dst /\ job' = [job EXCEPT ![p] = e]
    BY <1>2 DEF CallAddEdge
  <2>2. pc' = [pc EXCEPT ![p] = "appending"] /\ e \in AllEdges
    BY <1>2, EdgesAssumption DEF CallAddEdge
  <2>3. /\ pc' \in [Process -> {"idle", "appending", "flagging"}]
        /\ job' \in [Process -> AllEdges \cup {NoJob}]
        /\ \A q \in Process \ {p} : pc'[q] = pc[q] /\ job'[q] = job[q]
        /\ pc'[p] = "appending" /\ job'[p] = e
    BY <2>1, <2>2 DEF Inv
  <2> QED BY <1>1, <2>1, <2>3, StepOfOne
<1>3. CASE Timeout(p) \/ Crash(p)
  BY <1>1, <1>3, ReturnKeepsInv DEF Timeout, Crash
<1> QED BY <1>2, <1>3

LEMMA AppendEdgeKeepsInv ==
  ASSUME Inv, NEW p \in Process, AppendEdge(p)
  PROVE  Inv'
<1> DEFINE e == job[p]
<1>1. pc[p] = "appending" /\ e \in Edges /\ e \in AllEdges /\ e.src # e.dst
  BY EdgesAssumption DEF Inv, TypeOK, AppendEdge
<1>2. Plausible(log)
  BY DEF Inv
<1>3. CASE Record(EdgeEvent(e), ClosesNoCycle(e)) /\ Return(p, "added")
  <2>1. log' = Append(log, EdgeEvent(e))
    BY <1>3 DEF Record
  <2>2. Ordering(e) => ~WouldCloseCycle(Pairs(EdgesIn(log)), PrecedencePair(e))
    BY <1>3 DEF Record, ClosesNoCycle
  <2>3. Grows(log, log')
    BY <1>1, <1>2, <2>1, <2>2, LineGrows
  <2> QED BY <1>3, <2>3, ReturnKeepsInv
<1>4. CASE Recorded(EdgeEvent(e)) /\ Return(p, "deduped")
  <2>1. Grows(log, log')
    BY <1>2, <1>4, SameGrows DEF Recorded
  <2> QED BY <1>4, <2>1, ReturnKeepsInv
<1>5. CASE /\ Refused(EdgeEvent(e), ClosesNoCycle(e))
           /\ pc' = [pc EXCEPT ![p] = "flagging"]
           /\ UNCHANGED <<job, result>>
  <2>1. log' = log /\ EdgeEvent(e).key \notin Keys(log) /\ ~ClosesNoCycle(e)
    BY <1>5 DEF Refused
  <2>2. Written(log) => Flagged(e, log)
    <3>1. Written(log) => log \in Seq(Entry)
      BY <1>2 DEF Plausible, WellFormed
    <3> QED BY <2>1, <3>1, EdgeHasItsKey DEF Flagged, RefusedBy, ClosesNoCycle
  <2>3. /\ pc' \in [Process -> {"idle", "appending", "flagging"}]
        /\ \A q \in Process \ {p} : pc'[q] = pc[q]
        /\ job' = job /\ job \in [Process -> AllEdges \cup {NoJob}]
    BY <1>5 DEF Inv
  <2>4. Grows(log, log')
    BY <1>2, <2>1, SameGrows
  <2> QED BY <1>1, <2>1, <2>2, <2>3, <2>4, StepOfOne
<1> QED BY <1>3, <1>4, <1>5 DEF AppendEdge

LEMMA FlagCycleKeepsInv ==
  ASSUME Inv, NEW p \in Process, FlagCycle(p)
  PROVE  Inv'
<1>1. /\ pc[p] = "flagging" /\ (Written(log) => Flagged(job[p], log))
      /\ job[p] \in AllEdges /\ job[p].src # job[p].dst
  BY EdgesAssumption DEF Inv, TypeOK, FlagCycle
<1>2. Plausible(log)
  BY DEF Inv
<1>3. log' = Append(log, CycleEvent(job[p])) \/ log' = log
  BY DEF FlagCycle, Record, Recorded
<1>4. Grows(log, log')
  BY <1>1, <1>2, <1>3, LineGrows, SameGrows
<1> QED BY <1>4, ReturnKeepsInv DEF FlagCycle

\* The invariant holds from every log to start from.
LEMMA SpecInv ==
  ASSUME \A l \in InitialLogs : Plausible(l)
  PROVE  Spec => []Inv
<1>1. Init => Inv
  BY InitInv
<1>2. Inv /\ [Next]_vars => Inv'
  <2> SUFFICES ASSUME Inv, [Next]_vars PROVE Inv'
    OBVIOUS
  <2>1. CASE UNCHANGED vars
    BY <2>1 DEF Inv, TypeOK, Plausible, Parted, Written, WellFormed, Flagged, RefusedBy, vars
  <2>2. ASSUME NEW p \in Process, CallAddEdge(p) \/ Timeout(p) \/ Crash(p) PROVE Inv'
    BY <2>2, QuietStep
  <2>3. ASSUME NEW p \in Process, AppendEdge(p) PROVE Inv'
    BY <2>3, AppendEdgeKeepsInv
  <2>4. ASSUME NEW p \in Process, FlagCycle(p) PROVE Inv'
    BY <2>4, FlagCycleKeepsInv
  <2> QED BY <2>1, <2>2, <2>3, <2>4 DEF Next
<1> QED BY <1>1, <1>2, PTL DEF Spec

\* The empty log is one of them.
LEMMA EmptyLogIsPlausible == Plausible(<<>>)
BY DEF Plausible, Parted, WellFormed, NoCircularWait, ComesBefore, EdgesIn, StoredIn

\* So is a log with any edge in it that somebody forged.
LEMMA ForgedLogIsPlausible ==
  ASSUME NEW l \in Seq({ForgedEdge(e) : e \in AllEdges}), l # <<>>
  PROVE  Plausible(l)
<1>1. l \in Seq(AnyEntry) /\ 1 \in DOMAIN l /\ l[1] \in {ForgedEdge(e) : e \in AllEdges}
  BY DEF AnyEntry
<1>2. l[1].key[1] = "forged"
  BY <1>1 DEF ForgedEdge
<1>3. StoredIn(l) = {}
  <2>1. \A i \in DOMAIN l : l[i].key[1] = "forged"
    BY DEF ForgedEdge
  <2> QED BY <2>1 DEF StoredIn
<1> QED BY <1>1, <1>2, <1>3 DEF Plausible, Parted, Written

\* The log holds edges and flags, and processes work on legal edges (add_edge's
\* own argument check).
THEOREM TypeCorrect ==
  ASSUME \A l \in InitialLogs : Plausible(l)
  PROVE  Spec => []TypeOK
<1>1. Inv => TypeOK
  BY DEF Inv
<1> QED BY <1>1, SpecInv, PTL

\* No edge that add_edge stores ever lies on a circle, however many processes add
\* edges at the same time, and whatever forged edges, circles of them included, the
\* log began with: _no_cycle_precondition runs under the lock, against every
\* persisted edge, and covers both ordering types.  Without forged edges, nodes
\* never wait for each other in a circle at all.
THEOREM NeverCircular ==
  ASSUME \A l \in InitialLogs : Plausible(l)
  PROVE  Spec => []OrderingIsAcyclic
<1>1. Inv => OrderingIsAcyclic
  BY DEF Inv, Plausible, Parted, Written, Unforged, WellFormed, OrderingIsAcyclic
<1> QED BY <1>1, SpecInv, PTL

\* A flagged edge is never stored, although _flag_cycle writes the flag in an
\* append of its own, after other processes may have added edges.
THEOREM FlagsAreFinal ==
  ASSUME \A l \in InitialLogs : Plausible(l)
  PROVE  Spec => []FlaggedIsNeverStored
<1>1. Inv => FlaggedIsNeverStored
  BY DEF Inv, Plausible, Written, Unforged, WellFormed, Flagged, FlaggedIsNeverStored
<1> QED BY <1>1, SpecInv, PTL
-----------------------------------------------------------------------------
(***************************************************************************)
(* resolve_graph, event by event: the function that its fold is defined    *)
(* with, and induction over the length of the log.                         *)
(***************************************************************************)
\* Induction over the naturals, for a set instead of a predicate.
LEMMA SetInduction ==
  ASSUME NEW T, 0 \in T, \A k \in Nat : k \in T => k + 1 \in T
  PROVE  Nat \subseteq T
<1> SUFFICES ASSUME NEW m \in Nat \ T PROVE FALSE
  OBVIOUS
<1>1. PICK x \in Nat \ T : \A y \in Nat \ T : ~ (<<y, x>> \in OpToRel(<, Nat))
  BY NatLessThanWellFounded, WFMin
<1>2. \A y \in Nat \ T : ~ (y < x)
  BY <1>1 DEF OpToRel
<1>3. x # 0 /\ x - 1 \in Nat /\ x - 1 \in T
  BY <1>2
<1> QED BY <1>3

NoGraph == [edges |-> {}, pairs |-> {}]

IsFold(it, l, D) ==
  it = [s \in SUBSET D |->
          IF s = {} THEN NoGraph ELSE ResolveStep(it[s \ {Max(s)}], l[Max(s)])]

LEMMA ResolvedIsFold ==
  ASSUME NEW l
  PROVE  Resolved(l) = (CHOOSE it : IsFold(it, l, DOMAIN l))[DOMAIN l]
BY DEF Resolved, FoldLeft, MapThenFoldSet, IsFold, NoGraph

LEMMA MaxOfSet ==
  ASSUME NEW k \in Nat, NEW s \in SUBSET (1 .. k), k \in s
  PROVE  Max(s) = k
<1>1. \A y \in s : y \in Nat /\ k >= y
  OBVIOUS
<1>2. \A x \in s : (\A y \in s : x >= y) => x = k
  BY <1>1
<1> QED BY <1>1, <1>2 DEF Max

LEMMA NextInterval ==
  ASSUME NEW k \in Nat
  PROVE  /\ Max(1 .. k + 1) = k + 1
         /\ (1 .. k + 1) \ {k + 1} = 1 .. k
         /\ k + 1 \in 1 .. k + 1
         /\ \A i : i \in 1 .. k + 1 <=> i \in 1 .. k \/ i = k + 1
<1>1. /\ k + 1 \in 1 .. k + 1
      /\ \A i : i \in 1 .. k + 1 <=> i \in 1 .. k \/ i = k + 1
  OBVIOUS
<1>2. k + 1 \notin 1 .. k
  OBVIOUS
<1>3. (1 .. k + 1) \ {k + 1} = 1 .. k
  BY <1>1, <1>2
<1>4. k + 1 \in Nat /\ 1 .. k + 1 \in SUBSET (1 .. k + 1)
  OBVIOUS
<1> QED BY <1>1, <1>3, <1>4, MaxOfSet

LEMMA FoldExists ==
  ASSUME NEW l, NEW N \in Nat
  PROVE  \E it : IsFold(it, l, 1 .. N)
<1> DEFINE T == {k \in Nat : \E it : IsFold(it, l, 1 .. k)}
<1>1. 0 \in T
  <2> DEFINE it == [s \in SUBSET (1 .. 0) |-> NoGraph]
  <2>1. IsFold(it, l, 1 .. 0)
    BY DEF IsFold
  <2> QED BY <2>1
<1>2. ASSUME NEW k \in Nat, k \in T PROVE k + 1 \in T
  <2>1. PICK it : IsFold(it, l, 1 .. k)
    BY <1>2
  <2> DEFINE jt == [s \in SUBSET (1 .. k + 1) |->
                      IF k + 1 \in s THEN ResolveStep(it[s \ {k + 1}], l[k + 1]) ELSE it[s]]
  <2>2. ASSUME NEW s \in SUBSET (1 .. k + 1)
        PROVE  jt[s] = IF s = {} THEN NoGraph ELSE ResolveStep(jt[s \ {Max(s)}], l[Max(s)])
    <3>1. CASE k + 1 \in s
      <4>1. Max(s) = k + 1 /\ s \ {k + 1} \in SUBSET (1 .. k)
        BY <3>1, MaxOfSet, NextInterval
      <4>2. jt[s \ {k + 1}] = it[s \ {k + 1}]
        BY <4>1
      <4> QED BY <3>1, <4>1, <4>2
    <3>2. CASE k + 1 \notin s
      <4>1. s \in SUBSET (1 .. k) /\ s \ {Max(s)} \in SUBSET (1 .. k)
        BY <3>2, NextInterval
      <4>2. jt[s] = it[s] /\ jt[s \ {Max(s)}] = it[s \ {Max(s)}]
        BY <3>2, <4>1
      <4>3. it[s] = IF s = {} THEN NoGraph ELSE ResolveStep(it[s \ {Max(s)}], l[Max(s)])
        BY <2>1, <4>1 DEF IsFold
      <4> QED BY <4>2, <4>3
    <3> QED BY <3>1, <3>2
  <2>3. IsFold(jt, l, 1 .. k + 1)
    <3> HIDE DEF jt
    <3>1. jt = [s \in SUBSET (1 .. k + 1) |-> jt[s]]
      BY DEF jt
    <3> QED BY <2>2, <3>1 DEF IsFold
  <2> QED BY <2>3
<1> HIDE DEF T
<1>3. N \in T
  BY <1>1, <1>2, SetInduction
<1> QED BY <1>3 DEF T

LEMMA FoldStep ==
  ASSUME NEW l, NEW D, NEW it, IsFold(it, l, D), NEW k \in Nat, 1 .. k + 1 \subseteq D
  PROVE  it[1 .. k + 1] = ResolveStep(it[1 .. k], l[k + 1])
<1> DEFINE s == 1 .. k + 1
<1>1. s \in SUBSET D /\ s # {} /\ Max(s) = k + 1 /\ s \ {k + 1} = 1 .. k
  BY NextInterval
<1> HIDE DEF s
<1>2. it[s] = ResolveStep(it[s \ {Max(s)}], l[Max(s)])
  BY <1>1 DEF IsFold
<1> QED BY <1>1, <1>2 DEF s

\* The graphs that resolve_graph passes through, one after each event.
Passes(g, l) ==
  /\ g[0] = NoGraph /\ g[Len(l)] = Resolved(l)
  /\ \A k \in Nat : k + 1 <= Len(l) => g[k + 1] = ResolveStep(g[k], l[k + 1])

LEMMA ResolvedStepwise ==
  ASSUME NEW S, NEW l \in Seq(S)
  PROVE  \E g : Passes(g, l)
<1> DEFINE N == Len(l)
           it == CHOOSE f : IsFold(f, l, 1 .. N)
           g == [k \in Nat |-> it[1 .. k]]
<1>1. N \in Nat /\ DOMAIN l = 1 .. N
  OBVIOUS
<1>2. Resolved(l) = it[1 .. N]
  BY <1>1, ResolvedIsFold
<1> HIDE DEF N
<1>3. IsFold(it, l, 1 .. N)
  BY <1>1, FoldExists
<1> HIDE DEF it
<1>4. g[0] = NoGraph
  <2>1. 1 .. 0 = {}
    OBVIOUS
  <2>2. it[{}] = NoGraph
    BY <1>3 DEF IsFold
  <2> QED BY <2>1, <2>2
<1>5. ASSUME NEW k \in Nat, k + 1 <= N PROVE g[k + 1] = ResolveStep(g[k], l[k + 1])
  <2>1. 1 .. k + 1 \subseteq 1 .. N
    BY <1>1, <1>5
  <2>2. it[1 .. k + 1] = ResolveStep(it[1 .. k], l[k + 1])
    BY <1>3, <2>1, FoldStep
  <2> QED BY <2>2
<1>6. g[N] = Resolved(l)
  BY <1>1, <1>2
<1> HIDE DEF g
<1>7. Passes(g, l)
  BY <1>4, <1>5, <1>6 DEF Passes, N
<1> QED BY <1>7
-----------------------------------------------------------------------------
\* What holds of every graph on the way.
Sane(g) ==
  /\ g.edges \in SUBSET AllEdges /\ g.pairs = Pairs(g.edges)
  /\ NoCircularWait(g.edges)

LEMMA StepIsSane ==
  ASSUME NEW g, Sane(g), NEW ev \in AnyEntry
  PROVE  Sane(ResolveStep(g, ev))
<1> DEFINE e == ev.edge
           h == [edges |-> g.edges \cup {e}, pairs |-> g.pairs \cup Pairs({e})]
<1>1. e \in AllEdges
  BY EntryHasAnEdge
<1>2. CASE ResolveStep(g, ev) = g
  BY <1>2
<1>3. CASE /\ e.src # e.dst
           /\ Ordering(e) => ~WouldCloseCycle(g.pairs, PrecedencePair(e))
           /\ ResolveStep(g, ev) = h
  <2>1. NoCircularWait(g.edges \cup {e})
    BY <1>1, <1>3, NewEdge DEF Sane
  <2>2. Pairs(g.edges \cup {e}) = Pairs(g.edges) \cup Pairs({e})
    BY DEF Pairs
  <2>3. h.edges = g.edges \cup {e} /\ h.pairs = g.pairs \cup Pairs({e})
    OBVIOUS
  <2>4. g.edges \cup {e} \in SUBSET AllEdges
    BY <1>1 DEF Sane
  <2> HIDE DEF h
  <2>5. Sane(h)
    BY <2>1, <2>2, <2>3, <2>4 DEF Sane
  <2> QED BY <1>3, <2>5
<1> QED BY <1>2, <1>3 DEF ResolveStep

\* Readers resolve no cycle, whatever edges the log holds.
LEMMA ResolvedIsSane ==
  ASSUME NEW l \in Seq(AnyEntry)
  PROVE  Sane(Resolved(l))
<1>1. PICK g : Passes(g, l)
  BY ResolvedStepwise
<1> DEFINE T == {k \in Nat : k <= Len(l) => Sane(g[k])}
<1>2. 0 \in T
  <2>1. NoGraph.edges = {} /\ NoGraph.pairs = {}
    BY DEF NoGraph
  <2>2. Sane(NoGraph)
    BY <2>1 DEF Sane, Pairs, NoCircularWait, ComesBefore
  <2> QED BY <1>1, <2>2 DEF Passes
<1>3. ASSUME NEW k \in Nat, k \in T PROVE k + 1 \in T
  <2> SUFFICES ASSUME k + 1 <= Len(l) PROVE Sane(g[k + 1])
    OBVIOUS
  <2>1. k <= Len(l) /\ l[k + 1] \in AnyEntry
    OBVIOUS
  <2>2. Sane(g[k])
    BY <1>3, <2>1
  <2>3. g[k + 1] = ResolveStep(g[k], l[k + 1])
    BY <1>1 DEF Passes
  <2> QED BY <2>1, <2>2, <2>3, StepIsSane
<1> HIDE DEF T
<1>4. Nat \subseteq T
  BY <1>2, <1>3, SetInduction
<1>5. Len(l) \in Nat
  OBVIOUS
<1>6. Sane(g[Len(l)])
  BY <1>4, <1>5 DEF T
<1> QED BY <1>1, <1>6 DEF Passes
-----------------------------------------------------------------------------
\* Only a successor of v, or of what can be reached from v, can be reached.
LEMMA HasAPredecessor ==
  ASSUME NEW P, NEW v, NEW n \in ReachableFrom(P, v),
         \A x \in P : x[2] \in Node
  PROVE  \E x \in P : x[2] = n /\ (x[1] = v \/ x[1] \in ReachableFrom(P, v))
<1> DEFINE R == ReachableFrom(P, v)
           S == R \ {n}
<1> SUFFICES ASSUME \A x \in P : x[2] = n => x[1] # v /\ x[1] \notin R
             PROVE  FALSE
  OBVIOUS
<1>1. \A x \in P : x[1] = v \/ x[1] \in R => x[2] \in R
  BY DEF ReachableFrom, Closed
<1>2. R \in SUBSET Node
  BY DEF ReachableFrom
<1> HIDE DEF R
<1>3. Closed(P, v, S)
  BY <1>1 DEF Closed
<1>4. n \in S
  BY <1>2, <1>3 DEF R, ReachableFrom
<1> QED BY <1>4

LEMMA PairIsOfNodes ==
  ASSUME NEW es \in SUBSET AllEdges, NEW x \in Pairs(es)
  PROVE  x[1] \in Node /\ x[2] \in Node /\ ComesBefore(es, x[1], x[2])
<1>1. PICK e \in es : Ordering(e) /\ e.src # e.dst /\ x = PrecedencePair(e)
  BY DEF Pairs
<1>2. e.src \in Node /\ e.dst \in Node /\ e.type \in OrderingTypes
  BY <1>1 DEF AllEdges, Ordering
<1>3. CASE e.type = "blocked-by"
  <2>1. x[1] = e.dst /\ x[2] = e.src
    BY <1>1, <1>3 DEF PrecedencePair
  <2> QED BY <1>1, <1>2, <1>3, <2>1 DEF ComesBefore
<1>4. CASE e.type = "feeds-into"
  <2>1. x[1] = e.src /\ x[2] = e.dst
    BY <1>1, <1>4 DEF PrecedencePair
  <2> QED BY <1>1, <1>2, <1>4, <2>1 DEF ComesBefore
<1> QED BY <1>2, <1>3, <1>4 DEF OrderingTypes

\* The check of _would_close_cycle is necessary, too: it refuses no edge of an
\* order without circles.
LEMMA NotRefused ==
  ASSUME NEW es \in SUBSET AllEdges, NEW e \in AllEdges, e.src # e.dst, Ordering(e),
         NoCircularWait(es \cup {e})
  PROVE  ~WouldCloseCycle(Pairs(es), PrecedencePair(e))
<1> DEFINE u == PrecedencePair(e)[1]
           v == PrecedencePair(e)[2]
           R == ReachableFrom(Pairs(es), v)
           S == R \cup {v}
           fs == es \cup {e}
<1> SUFFICES ASSUME u \in R PROVE FALSE
  BY DEF WouldCloseCycle
<1>1. PrecedencePair(e) \in Pairs(fs) /\ Pairs(es) \subseteq Pairs(fs) /\ fs \in SUBSET AllEdges
  BY DEF Pairs
<1>2. v \in Node /\ ComesBefore(fs, u, v)
  BY <1>1, PairIsOfNodes
<1>3. \A x \in Pairs(es) : x[2] \in Node /\ ComesBefore(fs, x[1], x[2])
  BY <1>1, PairIsOfNodes
<1> HIDE DEF fs
<1>4. S \in SUBSET Node /\ S # {} /\ R \subseteq S /\ v \in S
  BY <1>2 DEF ReachableFrom
<1>5. ASSUME NEW n \in S PROVE \E m \in S : ComesBefore(fs, m, n)
  <2>1. CASE n = v
    BY <1>2, <1>4, <2>1
  <2>2. CASE n \in R
    <3>1. PICK x \in Pairs(es) : x[2] = n /\ (x[1] = v \/ x[1] \in R)
      BY <1>3, <2>2, HasAPredecessor
    <3>2. x[1] \in S /\ ComesBefore(fs, x[1], n)
      BY <1>3, <3>1
    <3> QED BY <3>2
  <2> QED BY <2>1, <2>2
<1> HIDE DEF S
<1> QED BY <1>4, <1>5 DEF NoCircularWait, fs

\* A smaller order has no more circles.
LEMMA FewerEdges ==
  ASSUME NEW es, NEW fs, es \subseteq fs, NoCircularWait(fs)
  PROVE  NoCircularWait(es)
BY DEF NoCircularWait, ComesBefore

EdgesTo(l, k) == {l[i].edge : i \in {j \in 1 .. k : l[j].kind = "edge"}}

\* Of a log that add_edge wrote, readers resolve every edge.
LEMMA ResolvedIsStored ==
  ASSUME NEW l, WellFormed(l)
  PROVE  Resolved(l).edges = EdgesIn(l)
<1>1. l \in Seq(Entry) /\ l \in Seq(AnyEntry) /\ Len(l) \in Nat /\ DOMAIN l = 1 .. Len(l)
  BY DEF WellFormed, AnyEntry
<1>2. PICK g : Passes(g, l)
  BY <1>1, ResolvedStepwise
<1> DEFINE T == {k \in Nat : k <= Len(l) =>
                   g[k].edges = EdgesTo(l, k) /\ g[k].pairs = Pairs(EdgesTo(l, k))}
<1>3. 0 \in T
  <2>1. EdgesTo(l, 0) = {} /\ Pairs({}) = {}
    BY DEF EdgesTo, Pairs
  <2>2. g[0].edges = {} /\ g[0].pairs = {}
    BY <1>2 DEF Passes, NoGraph
  <2> QED BY <2>1, <2>2
<1>4. ASSUME NEW k \in Nat, k \in T PROVE k + 1 \in T
  <2> SUFFICES ASSUME k + 1 <= Len(l)
               PROVE  /\ g[k + 1].edges = EdgesTo(l, k + 1)
                      /\ g[k + 1].pairs = Pairs(EdgesTo(l, k + 1))
    OBVIOUS
  <2> DEFINE ev == l[k + 1]
             e == ev.edge
             es == EdgesTo(l, k)
  <2>1. /\ g[k].edges = es /\ g[k].pairs = Pairs(es)
        /\ g[k + 1] = ResolveStep(g[k], ev)
    BY <1>2, <1>4 DEF Passes
  <2>2. ev \in AnyEntry /\ e \in AllEdges /\ k + 1 \in DOMAIN l
    BY <1>1, EntryHasAnEdge
  <2>3. \A i : i \in 1 .. k + 1 <=> i \in 1 .. k \/ i = k + 1
    OBVIOUS
  <2>4. CASE ev.kind # "edge"
    <3>1. EdgesTo(l, k + 1) = es
      BY <2>3, <2>4 DEF EdgesTo
    <3> QED BY <2>1, <2>4, <3>1 DEF ResolveStep
  <2>5. CASE ev.kind = "edge"
    <3>1. EdgesTo(l, k + 1) = es \cup {e}
      BY <2>3, <2>5 DEF EdgesTo
    <3>2. es \cup {e} \subseteq EdgesIn(l)
      <4>1. \A i \in 1 .. k : i \in DOMAIN l
        BY <1>1
      <4> QED BY <2>2, <2>5, <4>1 DEF EdgesIn, EdgesTo
    <3> HIDE DEF ev, es
    <3>3. es \in SUBSET AllEdges
      BY <1>1, <3>2, EdgesInAreEdges
    <3>4. e.src # e.dst /\ NoCircularWait(es \cup {e})
      BY <3>2, FewerEdges DEF WellFormed
    <3>5. Ordering(e) => ~WouldCloseCycle(Pairs(es), PrecedencePair(e))
      BY <2>2, <3>3, <3>4, NotRefused
    <3>6. ResolveStep(g[k], ev) = [edges |-> es \cup {e}, pairs |-> Pairs(es) \cup Pairs({e})]
      BY <2>1, <2>5, <3>4, <3>5 DEF ResolveStep
    <3>7. Pairs(es \cup {e}) = Pairs(es) \cup Pairs({e})
      BY DEF Pairs
    <3>8. g[k + 1] = [edges |-> es \cup {e}, pairs |-> Pairs(es) \cup Pairs({e})]
      BY <2>1, <3>6
    <3>9. g[k + 1].edges = es \cup {e} /\ g[k + 1].pairs = Pairs(es) \cup Pairs({e})
      BY <3>8
    <3> QED BY <3>1, <3>7, <3>9
  <2> QED BY <2>4, <2>5
<1> HIDE DEF T
<1>5. Nat \subseteq T
  BY <1>3, <1>4, SetInduction
<1>6. g[Len(l)].edges = EdgesTo(l, Len(l))
  BY <1>1, <1>5 DEF T
<1>7. EdgesTo(l, Len(l)) = EdgesIn(l)
  BY <1>1 DEF EdgesTo, EdgesIn
<1> QED BY <1>2, <1>6, <1>7 DEF Passes

\* resolve_graph hands readers an order without circles, forged edges or not; and
\* of a log that add_edge wrote it drops no edge.
THEOREM ReadersOrder ==
  ASSUME \A l \in InitialLogs : Plausible(l)
  PROVE  Spec => []ReadersKeepTheStoredOrder
<1>1. Inv => ReadersKeepTheStoredOrder
  <2> SUFFICES ASSUME Inv PROVE ReadersKeepTheStoredOrder
    OBVIOUS
  <2>1. log \in Seq(AnyEntry) /\ (Unforged => WellFormed(log))
    BY DEF Inv, Plausible, Written, Unforged
  <2>2. NoCircularWait(Resolved(log).edges)
    BY <2>1, ResolvedIsSane DEF Sane
  <2>3. Unforged => Resolved(log).edges = EdgesIn(log)
    BY <2>1, ResolvedIsStored
  <2> QED BY <2>2, <2>3 DEF ReadersKeepTheStoredOrder
<1> QED BY <1>1, SpecInv, PTL
-----------------------------------------------------------------------------
(***************************************************************************)
(* Loops.  A recursion that takes one step after the other until it is     *)
(* done defines a function, whether it ends or not; and if it ends, then   *)
(* in a state that every invariant of the steps holds of.                  *)
(***************************************************************************)
Runs(f, D, step, done) ==
  f = [s \in D |-> IF s \in done THEN s ELSE f[step[s]]]

LEMMA RunsExist ==
  ASSUME NEW D, NEW step \in [D -> D], NEW done \in SUBSET D
  PROVE  \E f : Runs(f, D, step, done)
<1> DEFINE Closed1(S) == \A x \in S \ done : step[x] \in S
           Orbit(s) == {x \in D : \A S \in SUBSET D : s \in S /\ Closed1(S) => x \in S}
           f == [s \in D |-> IF s \in done THEN s ELSE CHOOSE x : x \in Orbit(s) \cap done]
<1>1. ASSUME NEW s \in D, s \notin done PROVE f[s] = f[step[s]]
  <2> DEFINE t == step[s]
  <2>1. t \in D
    OBVIOUS
  <2>2. Orbit(s) \cap done = Orbit(t) \cap done
    <3>1. ASSUME NEW x \in Orbit(s) \cap done PROVE x \in Orbit(t)
      <4> SUFFICES ASSUME NEW S \in SUBSET D, t \in S, Closed1(S) PROVE x \in S
        BY <3>1
      <4>1. Closed1(S \cup {s}) /\ S \cup {s} \in SUBSET D /\ s \in S \cup {s}
        OBVIOUS
      <4>2. x \in S \cup {s}
        BY <3>1, <4>1
      <4> QED BY <1>1, <3>1, <4>2
    <3>2. ASSUME NEW x \in Orbit(t) PROVE x \in Orbit(s)
      <4> SUFFICES ASSUME NEW S \in SUBSET D, s \in S, Closed1(S) PROVE x \in S
        BY <3>2
      <4>1. t \in S
        BY <1>1
      <4> QED BY <3>2, <4>1
    <3> QED BY <3>1, <3>2
  <2> HIDE DEF Orbit
  <2>3. CASE t \in done
    <3>1. Orbit(t) \cap done = {t}
      <4>1. \A x \in Orbit(t) : x \in {t}
        <5>1. Closed1({t}) /\ {t} \in SUBSET D
          BY <2>1, <2>3
        <5> QED BY <5>1 DEF Orbit
      <4>2. t \in Orbit(t)
        BY <2>1 DEF Orbit
      <4> QED BY <2>3, <4>1, <4>2
    <3>2. (CHOOSE x : x \in Orbit(s) \cap done) = t
      BY <2>2, <3>1
    <3> QED BY <1>1, <2>1, <2>3, <3>2
  <2>4. CASE t \notin done
    BY <1>1, <2>1, <2>2, <2>4
  <2> QED BY <2>3, <2>4
<1> HIDE DEF Orbit
<1>2. f = [s \in D |-> IF s \in done THEN s ELSE f[step[s]]]
  <2>1. \A s \in D : f[s] = IF s \in done THEN s ELSE f[step[s]]
    BY <1>1
  <2>2. f = [s \in D |-> f[s]]
    OBVIOUS
  <2> HIDE DEF f
  <2> QED BY <2>1, <2>2
<1> HIDE DEF f
<1> QED BY <1>2 DEF Runs

LEMMA RunsEnd ==
  ASSUME NEW D, NEW step \in [D -> D], NEW done \in SUBSET D,
         \A S \in SUBSET (D \ done) : S # {} => \E x \in S : step[x] \notin S,
         NEW I \in SUBSET D, \A x \in I \ done : step[x] \in I,
         NEW f, Runs(f, D, step, done), NEW s \in I
  PROVE  f[s] \in I \cap done
<1> DEFINE S == {x \in I \ done : f[x] \notin I \cap done}
<1>1. \A x \in D : f[x] = IF x \in done THEN x ELSE f[step[x]]
  BY DEF Runs
<1>2. S = {}
  <2> SUFFICES ASSUME S # {} PROVE FALSE
    OBVIOUS
  <2>1. PICK x \in S : step[x] \notin S
    OBVIOUS
  <2>2. step[x] \in I /\ f[x] = f[step[x]] /\ f[x] \notin I \cap done
    BY <1>1, <2>1
  <2>3. step[x] \in done => f[step[x]] = step[x]
    BY <1>1, <2>2
  <2> QED BY <2>1, <2>2, <2>3
<1>3. s \in done => f[s] = s
  BY <1>1
<1> QED BY <1>2, <1>3
-----------------------------------------------------------------------------
\* Sequences of nodes, as the searches take them apart.
LEMMA FrontAndLast ==
  ASSUME NEW S, NEW q \in Seq(S), q # <<>>
  PROVE  /\ Front(q) \in Seq(S) /\ Last(q) \in S /\ Len(Front(q)) = Len(q) - 1
         /\ Len(q) \in Nat \ {0} /\ Range(q) = Range(Front(q)) \cup {Last(q)}
<1>1. /\ Len(q) \in Nat \ {0} /\ DOMAIN q = 1 .. Len(q) /\ Len(q) \in DOMAIN q
  OBVIOUS
<1>2. /\ Front(q) \in Seq(S) /\ Len(Front(q)) = Len(q) - 1
      /\ DOMAIN Front(q) = 1 .. Len(q) - 1
      /\ \A i \in 1 .. Len(q) - 1 : Front(q)[i] = q[i]
  BY <1>1 DEF Front
<1>3. \A i : i \in 1 .. Len(q) <=> i \in 1 .. Len(q) - 1 \/ i = Len(q)
  BY <1>1
<1> QED BY <1>1, <1>2, <1>3 DEF Last, Range

LEMMA HeadAndTail ==
  ASSUME NEW S, NEW q \in Seq(S), q # <<>>
  PROVE  /\ Tail(q) \in Seq(S) /\ Head(q) \in S /\ Len(Tail(q)) = Len(q) - 1
         /\ Len(q) \in Nat \ {0} /\ Range(q) = Range(Tail(q)) \cup {Head(q)}
<1>1. /\ Len(q) \in Nat \ {0} /\ DOMAIN q = 1 .. Len(q) /\ 1 \in DOMAIN q
      /\ Head(q) = q[1] /\ Head(q) \in S
  OBVIOUS
<1>2. /\ Tail(q) \in Seq(S) /\ Len(Tail(q)) = Len(q) - 1
      /\ DOMAIN Tail(q) = 1 .. Len(q) - 1
      /\ \A i \in 1 .. Len(q) - 1 : Tail(q)[i] = q[i + 1]
  BY <1>1
<1>3. \A x \in Range(q) : x \in Range(Tail(q)) \cup {Head(q)}
  <2> SUFFICES ASSUME NEW i \in 1 .. Len(q), i # 1 PROVE q[i] \in Range(Tail(q))
    BY <1>1 DEF Range
  <2>1. i - 1 \in 1 .. Len(q) - 1 /\ (i - 1) + 1 = i
    BY <1>1
  <2>2. Tail(q)[i - 1] = q[i]
    BY <1>2, <2>1
  <2> QED BY <1>2, <2>1, <2>2 DEF Range
<1>4. \A x \in Range(Tail(q)) : x \in Range(q)
  <2> SUFFICES ASSUME NEW i \in 1 .. Len(q) - 1 PROVE Tail(q)[i] \in Range(q)
    BY <1>2 DEF Range
  <2>1. i + 1 \in DOMAIN q
    BY <1>1
  <2> QED BY <1>2, <2>1 DEF Range
<1> QED BY <1>1, <1>2, <1>3, <1>4 DEF Range

LEMMA ConcatRange ==
  ASSUME NEW S, NEW q \in Seq(S), NEW r \in Seq(S)
  PROVE  q \o r \in Seq(S) /\ Range(q \o r) = Range(q) \cup Range(r)
<1> DEFINE c == q \o r
<1>1. /\ c \in Seq(S) /\ Len(c) = Len(q) + Len(r) /\ Len(q) \in Nat /\ Len(r) \in Nat
      /\ DOMAIN q = 1 .. Len(q) /\ DOMAIN r = 1 .. Len(r) /\ DOMAIN c = 1 .. Len(q) + Len(r)
      /\ \A i \in 1 .. Len(q) : c[i] = q[i]
      /\ \A i \in Len(q) + 1 .. Len(q) + Len(r) : c[i] = r[i - Len(q)]
  OBVIOUS
<1> HIDE DEF c
<1>2. ASSUME NEW i \in DOMAIN c PROVE c[i] \in Range(q) \cup Range(r)
  <2>1. CASE i \in 1 .. Len(q)
    BY <1>1, <2>1 DEF Range
  <2>2. CASE i \notin 1 .. Len(q)
    <3>1. i \in Len(q) + 1 .. Len(q) + Len(r) /\ i - Len(q) \in DOMAIN r
      BY <1>1, <2>2
    <3> QED BY <1>1, <3>1 DEF Range
  <2> QED BY <2>1, <2>2
<1>3. ASSUME NEW i \in DOMAIN q PROVE q[i] \in Range(c)
  <2>1. i \in DOMAIN c
    BY <1>1
  <2> QED BY <1>1, <2>1 DEF Range
<1>4. ASSUME NEW i \in DOMAIN r PROVE r[i] \in Range(c)
  <2>1. i + Len(q) \in DOMAIN c /\ c[i + Len(q)] = r[i]
    BY <1>1
  <2> QED BY <2>1 DEF Range
<1>5. c \in Seq(S) /\ Range(c) = Range(q) \cup Range(r)
  BY <1>1, <1>2, <1>3, <1>4 DEF Range
<1> QED BY <1>5 DEF c

\* A nonempty set of natural numbers has a least one.
LEMMA LeastNatural ==
  ASSUME NEW T, T \subseteq Nat, T # {}
  PROVE  \E x \in T : \A y \in T : x <= y
<1>1. PICK x \in T : \A y \in T : ~ (<<y, x>> \in OpToRel(<, Nat))
  BY NatLessThanWellFounded, WFMin
<1>2. \A y \in T : ~ (y < x)
  BY <1>1 DEF OpToRel
<1> QED BY <1>2
-----------------------------------------------------------------------------
(***************************************************************************)
(* The search with a stack.                                                *)
(***************************************************************************)
Lists == [Node -> Seq(Node)]

Searched == {s \in Searches : s.stack = <<>>}

\* One turn of the loop of _reachable_from.
LEMMA SearchTurn ==
  ASSUME NEW adj \in Lists, NEW s \in Searches \ Searched
  PROVE  LET n == Last(s.stack)
             t == SearchStep(adj, s)
         IN  /\ n \in Node /\ t \in Searches /\ Range(s.stack) = Range(Front(s.stack)) \cup {n}
             /\ Len(s.stack) \in Nat \ {0}
             /\ n \in s.seen => /\ t.seen = s.seen /\ Len(t.stack) = Len(s.stack) - 1
                                /\ Range(t.stack) = Range(Front(s.stack))
             /\ n \notin s.seen => /\ t.seen = s.seen \cup {n}
                                   /\ Range(t.stack) = Range(Front(s.stack)) \cup Range(adj[n])
<1> DEFINE n == Last(s.stack)
           q == s.stack
           t == SearchStep(adj, s)
<1>1. q \in Seq(Node) /\ q # <<>> /\ s.seen \in SUBSET Node
      /\ s = [seen |-> s.seen, stack |-> q]
  BY DEF Searches, Searched
<1>2. /\ Front(q) \in Seq(Node) /\ n \in Node /\ Len(Front(q)) = Len(q) - 1
      /\ Len(q) \in Nat \ {0} /\ Range(q) = Range(Front(q)) \cup {n}
  BY <1>1, FrontAndLast
<1>3. CASE n \in s.seen
  <2>1. t = [seen |-> s.seen, stack |-> Front(q)]
    BY <1>1, <1>3 DEF SearchStep
  <2>2. t \in Searches /\ t.seen = s.seen /\ t.stack = Front(q)
    BY <1>1, <1>2, <2>1 DEF Searches
  <2> QED BY <1>2, <1>3, <2>2
<1>4. CASE n \notin s.seen
  <2>1. adj[n] \in Seq(Node)
    BY <1>2 DEF Lists
  <2>2. Front(q) \o adj[n] \in Seq(Node)
        /\ Range(Front(q) \o adj[n]) = Range(Front(q)) \cup Range(adj[n])
    BY <1>2, <2>1, ConcatRange
  <2>3. t = [seen |-> s.seen \cup {n}, stack |-> Front(q) \o adj[n]]
    BY <1>4 DEF SearchStep
  <2>4. t \in Searches /\ t.seen = s.seen \cup {n} /\ t.stack = Front(q) \o adj[n]
    BY <1>1, <1>2, <2>2, <2>3 DEF Searches
  <2> QED BY <1>2, <1>4, <2>2, <2>4
<1> QED BY <1>3, <1>4

\* It ends: a turn sees one node more, or shortens the stack.
LEMMA SearchEnds ==
  ASSUME IsFiniteSet(Node), NEW adj \in Lists,
         NEW S \in SUBSET (Searches \ Searched), S # {}
  PROVE  \E s \in S : SearchStep(adj, s) \notin S
<1> DEFINE Unseen(s) == Cardinality(Node \ s.seen)
<1>1. \A s \in Searches : IsFiniteSet(Node \ s.seen) /\ Unseen(s) \in Nat
  BY FS_Difference, FS_CardinalityType DEF Searches
<1>2. PICK x \in S : \A y \in S : Unseen(x) <= Unseen(y)
  <2> DEFINE T == {Unseen(s) : s \in S}
  <2>1. T \subseteq Nat /\ T # {}
    BY <1>1
  <2> HIDE DEF T
  <2>2. PICK k \in T : \A m \in T : k <= m
    BY <2>1, LeastNatural
  <2> QED BY <2>2 DEF T
<1>3. PICK z \in S : /\ Unseen(z) = Unseen(x)
                     /\ \A y \in S : Unseen(y) = Unseen(x) => Len(z.stack) <= Len(y.stack)
  <2> DEFINE U == {s \in S : Unseen(s) = Unseen(x)}
             T == {Len(s.stack) : s \in U}
  <2>1. \A s \in S : Len(s.stack) \in Nat
    BY DEF Searches
  <2>2. T \subseteq Nat /\ T # {}
    BY <2>1
  <2> HIDE DEF T
  <2>3. PICK k \in T : \A m \in T : k <= m
    BY <2>2, LeastNatural
  <2> QED BY <2>3 DEF T
<1> DEFINE t == SearchStep(adj, z)
           n == Last(z.stack)
<1>4. z \in S /\ z \in Searches \ Searched
  OBVIOUS
<1>5. /\ n \in Node /\ t \in Searches /\ Len(z.stack) \in Nat \ {0}
      /\ n \in z.seen => t.seen = z.seen /\ Len(t.stack) = Len(z.stack) - 1
      /\ n \notin z.seen => t.seen = z.seen \cup {n}
  BY <1>4, SearchTurn
<1> HIDE DEF t, n
<1>6. CASE n \in z.seen
  <2>1. Unseen(t) = Unseen(z)
    BY <1>5, <1>6
  <2> HIDE DEF Unseen
  <2>2. t \notin S
    <3> SUFFICES ASSUME t \in S PROVE FALSE
      OBVIOUS
    <3>1. Len(z.stack) <= Len(t.stack)
      BY <1>3, <2>1
    <3>2. Len(t.stack) = Len(z.stack) - 1 /\ Len(z.stack) \in Nat
      BY <1>5, <1>6
    <3> QED BY <3>1, <3>2
  <2> QED BY <1>4, <2>2 DEF t
<1>7. CASE n \notin z.seen
  <2>1. Node \ t.seen = (Node \ z.seen) \ {n} /\ n \in Node \ z.seen
    BY <1>5, <1>7
  <2>2. IsFiniteSet(Node \ z.seen)
    BY <1>1, <1>4
  <2>3. Cardinality((Node \ z.seen) \ {n}) = Cardinality(Node \ z.seen) - 1
    BY <2>1, <2>2, FS_RemoveElement
  <2>4. Unseen(t) = Unseen(z) - 1
    BY <2>1, <2>3
  <2>5. Unseen(z) \in Nat /\ Unseen(z) = Unseen(x)
    BY <1>1, <1>3, <1>4
  <2> HIDE DEF Unseen
  <2>6. t \notin S
    BY <1>2, <2>4, <2>5
  <2> QED BY <1>4, <2>6 DEF t
<1> QED BY <1>6, <1>7

\* What the search returns: what it has seen and what is on its stack, and all
\* that they lead to.
Bounds(S, adj, seen, stack) ==
  seen \subseteq S /\ Range(stack) \subseteq S /\ \A m \in S \ seen : Range(adj[m]) \subseteq S

LEMMA SearchFinds ==
  ASSUME IsFiniteSet(Node), NEW adj \in Lists, NEW seen \in SUBSET Node, NEW stack \in Seq(Node)
  PROVE  /\ Search(adj, seen, stack) \in SUBSET Node
         /\ Bounds(Search(adj, seen, stack), adj, seen, stack)
         /\ \A S \in SUBSET Node :
              Bounds(S, adj, seen, stack) => Search(adj, seen, stack) \subseteq S
<1> DEFINE step == [s \in Searches |-> IF s \in Searched THEN s ELSE SearchStep(adj, s)]
           f == CHOOSE g : g = [s \in Searches |->
                                  IF s.stack = <<>> THEN s ELSE g[SearchStep(adj, s)]]
           start == [seen |-> seen, stack |-> stack]
           Known(s) == s.seen \cup Range(s.stack)
           I == {s \in Searches :
                   /\ seen \subseteq s.seen /\ Range(stack) \subseteq Known(s)
                   /\ \A m \in s.seen \ seen : Range(adj[m]) \subseteq Known(s)
                   /\ \A S \in SUBSET Node : Bounds(S, adj, seen, stack) => Known(s) \subseteq S}
<1>1. Search(adj, seen, stack) = f[start].seen
  BY DEF Search
<1>2. step \in [Searches -> Searches] /\ Searched \in SUBSET Searches
  BY SearchTurn DEF Searched
<1>3. \A g : Runs(g, Searches, step, Searched)
        <=> g = [s \in Searches |-> IF s.stack = <<>> THEN s ELSE g[SearchStep(adj, s)]]
  BY DEF Runs, Searched
<1>4. Runs(f, Searches, step, Searched)
  <2>1. \E g : Runs(g, Searches, step, Searched)
    <3> HIDE DEF step
    <3> QED BY <1>2, RunsExist
  <2> HIDE DEF step
  <2> QED BY <1>3, <2>1
<1> HIDE DEF f
<1>5. \A S \in SUBSET (Searches \ Searched) : S # {} => \E x \in S : step[x] \notin S
  BY SearchEnds
<1>6. start \in I
  <2>1. start \in Searches /\ start.seen = seen /\ start.stack = stack
    BY DEF Searches
  <2> HIDE DEF start
  <2> QED BY <2>1 DEF Bounds
<1>7. ASSUME NEW s \in I \ Searched PROVE step[s] \in I
  <2> DEFINE t == SearchStep(adj, s)
             n == Last(s.stack)
  <2>1. step[s] = t /\ s \in Searches \ Searched
    BY <1>7
  <2>2. /\ n \in Node /\ t \in Searches /\ Range(s.stack) = Range(Front(s.stack)) \cup {n}
        /\ n \in s.seen => t.seen = s.seen /\ Range(t.stack) = Range(Front(s.stack))
        /\ n \notin s.seen => /\ t.seen = s.seen \cup {n}
                              /\ Range(t.stack) = Range(Front(s.stack)) \cup Range(adj[n])
    BY <2>1, SearchTurn
  <2> HIDE DEF t, n
  <2>3. CASE n \in s.seen
    <3>1. Known(t) = Known(s) /\ t.seen = s.seen
      BY <2>2, <2>3
    <3>2. t \in I
      BY <2>2, <3>1, <1>7
    <3> QED BY <2>1, <3>2
  <2>4. CASE n \notin s.seen
    <3>1. Known(t) = Known(s) \cup Range(adj[n]) /\ t.seen = s.seen \cup {n}
      BY <2>2, <2>4
    <3>2. n \in Known(s) /\ n \notin seen
      BY <1>7, <2>2, <2>4
    <3>3. \A S \in SUBSET Node : Bounds(S, adj, seen, stack) => Known(t) \subseteq S
      BY <1>7, <3>1, <3>2 DEF Bounds
    <3>4. \A m \in t.seen \ seen : Range(adj[m]) \subseteq Known(t)
      BY <1>7, <3>1
    <3>5. seen \subseteq t.seen /\ Range(stack) \subseteq Known(t)
      BY <1>7, <3>1
    <3> HIDE DEF Known
    <3>6. t \in I
      BY <2>2, <3>3, <3>4, <3>5
    <3> QED BY <2>1, <3>6
  <2> QED BY <2>3, <2>4
<1>8. f[start] \in I \cap Searched
  <2> HIDE DEF step, start, I
  <2>1. I \in SUBSET Searches
    BY DEF I
  <2> QED BY <1>2, <1>4, <1>5, <1>6, <1>7, <2>1, RunsEnd
<1> DEFINE s == f[start]
<1>9. s \in I /\ s.stack = <<>> /\ s.seen \in SUBSET Node
  BY <1>8 DEF Searched, Searches
<1> HIDE DEF s, start
<1>10. Range(<<>>) = {}
  BY DEF Range
<1>11. Known(s) = s.seen
  BY <1>9, <1>10
<1>12. s.seen \in SUBSET Node /\ Bounds(s.seen, adj, seen, stack)
       /\ \A S \in SUBSET Node : Bounds(S, adj, seen, stack) => s.seen \subseteq S
  BY <1>9, <1>11 DEF Bounds
<1> QED BY <1>1, <1>12 DEF s
-----------------------------------------------------------------------------
(***************************************************************************)
(* The queries.                                                            *)
(***************************************************************************)
\* The adjacency lists hold the successors, and each of them once.
LEMMA OrderingsOfASet ==
  ASSUME NEW S, IsFiniteSet(S), NEW q \in SetToSeqs(S)
  PROVE  /\ q \in Seq(S) /\ Range(q) = S
         /\ \A i, j \in DOMAIN q : q[i] = q[j] => i = j
<1> DEFINE c == Cardinality(S)
<1>1. c \in Nat
  BY FS_CardinalityType
<1>2. q \in [1 .. c -> S] /\ \A i, j \in 1 .. c : i # j => q[i] # q[j]
  BY DEF SetToSeqs
<1>3. q \in Injection(1 .. c, S)
  BY <1>2 DEF Injection, IsInjective
<1>4. IsFiniteSet(1 .. c) /\ Cardinality(1 .. c) = c
  BY <1>1, FS_Interval
<1>5. q \in Surjection(1 .. c, S)
  BY <1>3, <1>4, FS_Injection
<1>6. Range(q) = S
  BY <1>2, <1>5 DEF Surjection, Range
<1> QED BY <1>1, <1>2, <1>6

LEMMA ListsHoldSuccessors ==
  ASSUME IsFiniteSet(Node), NEW pairs, NEW adj \in Adjacencies(pairs)
  PROVE  /\ adj \in Lists
         /\ \A n \in Node : Range(adj[n]) = After(pairs, n)
         /\ \A n \in Node : \A i, j \in DOMAIN adj[n] : adj[n][i] = adj[n][j] => i = j
<1>1. ASSUME NEW n \in Node
      PROVE  /\ adj[n] \in Seq(Node) /\ Range(adj[n]) = After(pairs, n)
             /\ \A i, j \in DOMAIN adj[n] : adj[n][i] = adj[n][j] => i = j
  <2>1. adj[n] \in SetToSeqs(After(pairs, n))
    BY DEF Adjacencies
  <2>2. After(pairs, n) \in SUBSET Node /\ IsFiniteSet(After(pairs, n))
    <3>1. After(pairs, n) \in SUBSET Node
      BY DEF After
    <3> QED BY <3>1, FS_Subset
  <2>3. adj[n] \in Seq(After(pairs, n)) /\ Range(adj[n]) = After(pairs, n)
        /\ \A i, j \in DOMAIN adj[n] : adj[n][i] = adj[n][j] => i = j
    BY <2>1, <2>2, OrderingsOfASet
  <2> QED BY <2>2, <2>3
<1>2. adj = [n \in Node |-> adj[n]]
  BY DEF Adjacencies
<1> QED BY <1>1, <1>2 DEF Lists

\* The stack search returns what can be reached.
LEMMA StackSearchIsExact ==
  ASSUME IsFiniteSet(Node), NEW pairs, pairs \subseteq Node \X Node,
         NEW adj \in Lists, NEW n \in Node,
         \A m \in Node : Range(adj[m]) = After(pairs, m)
  PROVE  StackSearch(adj, n) = ReachableFrom(pairs, n)
<1> DEFINE F == Search(adj, {}, adj[n])
<1>1. adj[n] \in Seq(Node) /\ {} \in SUBSET Node
  BY DEF Lists
<1>2. /\ F \in SUBSET Node /\ Bounds(F, adj, {}, adj[n])
      /\ \A S \in SUBSET Node : Bounds(S, adj, {}, adj[n]) => F \subseteq S
  BY <1>1, SearchFinds
<1>3. ASSUME NEW S \in SUBSET Node
      PROVE  Closed(pairs, n, S) <=> Bounds(S, adj, {}, adj[n])
  <2>1. ASSUME Closed(pairs, n, S), NEW m \in Node, m = n \/ m \in S, NEW k \in After(pairs, m)
        PROVE  k \in S
    <3>1. <<m, k>> \in pairs
      BY DEF After
    <3> QED BY <2>1, <3>1 DEF Closed
  <2>2. ASSUME Bounds(S, adj, {}, adj[n]), NEW x \in pairs, x[1] = n \/ x[1] \in S
        PROVE  x[2] \in S
    <3>1. x = <<x[1], x[2]>> /\ x[1] \in Node /\ x[2] \in Node
      OBVIOUS
    <3>2. x[2] \in After(pairs, x[1])
      BY <3>1 DEF After
    <3> QED BY <2>2, <3>1, <3>2 DEF Bounds
  <2>3. Closed(pairs, n, S) => Bounds(S, adj, {}, adj[n])
    BY <2>1 DEF Bounds
  <2>4. Bounds(S, adj, {}, adj[n]) => Closed(pairs, n, S)
    BY <2>2 DEF Closed
  <2> QED BY <2>3, <2>4
<1> HIDE DEF F
<1>4. F = ReachableFrom(pairs, n)
  BY <1>2, <1>3 DEF ReachableFrom
<1> QED BY <1>4 DEF StackSearch, F

LEMMA PrecedencePairsAreOfNodes ==
  ASSUME NEW es \in SUBSET AllEdges
  PROVE  /\ PrecedencePairs(es) \subseteq Node \X Node
         /\ Reversed(PrecedencePairs(es)) \subseteq Node \X Node
         /\ \A x \in PrecedencePairs(es) :
              x[1] \in Nodes(es) /\ x[2] \in Nodes(es) /\ ComesBefore(es, x[1], x[2])
<1>1. ASSUME NEW x \in PrecedencePairs(es)
      PROVE  /\ x \in Node \X Node /\ x[1] \in Nodes(es) /\ x[2] \in Nodes(es)
             /\ ComesBefore(es, x[1], x[2])
  <2>1. PICK e \in es : Ordering(e) /\ x = PrecedencePair(e)
    BY DEF PrecedencePairs
  <2>2. e.src \in Node /\ e.dst \in Node /\ e.type \in OrderingTypes
    BY <2>1 DEF AllEdges, Ordering
  <2>3. e.src \in Nodes(es) /\ e.dst \in Nodes(es)
    BY DEF Nodes
  <2>4. CASE e.type = "blocked-by"
    <3>1. x = <<e.dst, e.src>>
      BY <2>1, <2>4 DEF PrecedencePair
    <3> QED BY <2>2, <2>3, <2>4, <3>1 DEF ComesBefore
  <2>5. CASE e.type = "feeds-into"
    <3>1. x = <<e.src, e.dst>>
      BY <2>1, <2>5 DEF PrecedencePair
    <3> QED BY <2>2, <2>3, <2>5, <3>1 DEF ComesBefore
  <2> QED BY <2>2, <2>4, <2>5 DEF OrderingTypes
<1>2. ASSUME NEW x \in PrecedencePairs(es) PROVE <<x[2], x[1]>> \in Node \X Node
  BY <1>1
<1> QED BY <1>1, <1>2 DEF Reversed

\* A finite order without circles: whoever waits, waits for something ready.
LEMMA SomethingIsReady ==
  ASSUME NEW es \in SUBSET AllEdges, NoCircularWait(es), NEW n \in Nodes(es), n \notin ReadySet(es)
  PROVE  ReachableFrom(Reversed(PrecedencePairs(es)), n) \cap ReadySet(es) # {}
<1> DEFINE P == PrecedencePairs(es)
           B == ReachableFrom(Reversed(P), n)
<1> SUFFICES ASSUME B \cap ReadySet(es) = {} PROVE FALSE
  OBVIOUS
<1>1. B \in SUBSET Node
  BY DEF ReachableFrom
<1>2. ASSUME NEW m \in Nodes(es), m \notin ReadySet(es), m = n \/ m \in B
      PROVE  \E k \in B : ComesBefore(es, k, m)
  <2>1. PICK x \in P : x[2] = m
    BY <1>2 DEF ReadySet
  <2>2. <<m, x[1]>> \in Reversed(P)
    BY <2>1 DEF Reversed
  <2>3. x[1] \in Node /\ ComesBefore(es, x[1], m)
    BY <2>1, PrecedencePairsAreOfNodes
  <2>4. x[1] \in B
    <3> HIDE DEF P
    <3> QED BY <1>2, <2>2, <2>3, OneStepMore
  <2> QED BY <2>3, <2>4
<1>3. ASSUME NEW m \in B PROVE m \in Nodes(es)
  <2>1. \A y \in Reversed(P) : y[2] \in Node
    BY PrecedencePairsAreOfNodes
  <2>2. PICK y \in Reversed(P) : y[2] = m
    <3> HIDE DEF P
    <3> QED BY <2>1, HasAPredecessor
  <2>3. PICK x \in P : y = <<x[2], x[1]>>
    BY DEF Reversed
  <2> QED BY <2>2, <2>3, PrecedencePairsAreOfNodes
<1> HIDE DEF B
<1>4. \A m \in B : \E k \in B : ComesBefore(es, k, m)
  BY <1>2, <1>3
<1>5. B # {}
  BY <1>2
<1> QED BY <1>1, <1>4, <1>5 DEF NoCircularWait

LEMMA NothingBlocksTheReady ==
  ASSUME NEW es \in SUBSET AllEdges, NEW n \in ReadySet(es)
  PROVE  ReachableFrom(Reversed(PrecedencePairs(es)), n) = {}
<1>1. \A x \in PrecedencePairs(es) : x[2] # n
  BY DEF ReadySet
<1>2. \A y \in Reversed(PrecedencePairs(es)) : y[1] # n
  BY <1>1 DEF Reversed
<1>3. Closed(Reversed(PrecedencePairs(es)), n, {})
  BY <1>2 DEF Closed
<1> QED BY <1>3 DEF ReachableFrom

\* A cluster is the least set around a node that cuts no edge.
LEMMA ClusterIsExact ==
  ASSUME IsFiniteSet(Node), NEW es \in SUBSET AllEdges, NEW adj \in Adjacencies(Undirected(es)),
         NEW n \in Node, NEW m \in Node
  PROVE  m \in RelatedCluster(adj, n) <=>
           \A S \in SUBSET Node :
             n \in S /\ m \notin S => \E e \in es : (e.src \in S) # (e.dst \in S)
<1> DEFINE F == Search(adj, {n}, adj[n])
           P == Undirected(es)
           Whole(S) == n \in S /\ \A e \in es : e.src \in S <=> e.dst \in S
<1>1. adj \in Lists /\ \A k \in Node : Range(adj[k]) = After(P, k)
  BY ListsHoldSuccessors
<1>2. adj[n] \in Seq(Node) /\ {n} \in SUBSET Node
  BY <1>1 DEF Lists
<1>3. /\ F \in SUBSET Node /\ Bounds(F, adj, {n}, adj[n])
      /\ \A S \in SUBSET Node : Bounds(S, adj, {n}, adj[n]) => F \subseteq S
  BY <1>1, <1>2, SearchFinds
<1>4. /\ \A e \in es : <<e.src, e.dst>> \in P /\ <<e.dst, e.src>> \in P
      /\ \A x, y : <<x, y>> \in P =>
           \E e \in es : (x = e.src /\ y = e.dst) \/ (x = e.dst /\ y = e.src)
  <2>1. ASSUME NEW x, NEW y, <<x, y>> \in P
        PROVE  \E e \in es : (x = e.src /\ y = e.dst) \/ (x = e.dst /\ y = e.src)
    <3>1. PICK e \in es : <<x, y>> \in {<<e.src, e.dst>>, <<e.dst, e.src>>}
      BY <2>1 DEF Undirected
    <3>2. (x = e.src /\ y = e.dst) \/ (x = e.dst /\ y = e.src)
      BY <3>1
    <3> QED BY <3>2
  <2>2. \A e \in es : <<e.src, e.dst>> \in P /\ <<e.dst, e.src>> \in P
    BY DEF Undirected
  <2> HIDE DEF P
  <2> QED BY <2>1, <2>2
<1>5. \A e \in es : e.src \in Node /\ e.dst \in Node
  BY DEF AllEdges
<1>6. ASSUME NEW S \in SUBSET Node, Bounds(S, adj, {n}, adj[n]) PROVE Whole(S)
  <2>1. n \in S /\ \A k \in S : After(P, k) \subseteq S
    BY <1>1, <1>6 DEF Bounds
  <2>2. ASSUME NEW e \in es PROVE e.src \in S <=> e.dst \in S
    <3>1. <<e.src, e.dst>> \in P /\ <<e.dst, e.src>> \in P
      BY <1>4
    <3> HIDE DEF P
    <3>2. e.dst \in After(P, e.src) /\ e.src \in After(P, e.dst)
      BY <1>5, <3>1 DEF After
    <3> QED BY <2>1, <3>2
  <2> QED BY <2>1, <2>2
<1>7. ASSUME NEW S \in SUBSET Node, Whole(S) PROVE Bounds(S, adj, {n}, adj[n])
  <2>1. ASSUME NEW k \in S, NEW j \in After(P, k) PROVE j \in S
    <3>1. <<k, j>> \in P
      BY DEF After
    <3> HIDE DEF P
    <3> QED BY <1>4, <1>7, <3>1
  <2> HIDE DEF P
  <2> QED BY <1>1, <1>7, <2>1 DEF Bounds
<1> HIDE DEF F, P
<1>8. Whole(F) /\ \A S \in SUBSET Node : Whole(S) => F \subseteq S
  BY <1>3, <1>6, <1>7
<1>9. m \in F <=> \A S \in SUBSET Node :
        n \in S /\ m \notin S => \E e \in es : (e.src \in S) # (e.dst \in S)
  <2>1. ASSUME m \in F, NEW S \in SUBSET Node, n \in S, m \notin S
        PROVE  \E e \in es : (e.src \in S) # (e.dst \in S)
    <3>1. ~Whole(S)
      BY <1>8, <2>1
    <3>2. PICK e \in es : ~(e.src \in S <=> e.dst \in S)
      BY <2>1, <3>1
    <3>3. (e.src \in S) # (e.dst \in S)
      BY <3>2, Zenon
    <3> QED BY <3>3
  <2>2. ASSUME m \notin F
        PROVE  \E S \in SUBSET Node :
                 n \in S /\ m \notin S /\ ~ \E e \in es : (e.src \in S) # (e.dst \in S)
    <3>1. F \in SUBSET Node /\ n \in F /\ \A e \in es : e.src \in F <=> e.dst \in F
      BY <1>3, <1>8
    <3>2. \A e \in es : (e.src \in F) = (e.dst \in F)
      BY <3>1
    <3> QED BY <2>2, <3>1, <3>2
  <2> QED BY <2>1, <2>2
<1> QED BY <1>9 DEF RelatedCluster, F

\* Whatever is on the log, forged cycles included: the guards' search, the blockers
\* and the clusters are exactly what the edges lead to.
THEOREM QueriesAreExact ==
  ASSUME IsFiniteSet(Node), \A l \in InitialLogs : Plausible(l)
  PROVE  Spec => []TraversalsAreExact
<1>1. Inv => TraversalsAreExact
  <2> SUFFICES ASSUME Inv PROVE TraversalsAreExact
    OBVIOUS
  <2>1. log \in Seq(AnyEntry)
    BY DEF Inv, Plausible
  <2>2. EdgesIn(log) \in SUBSET AllEdges
    BY <2>1, EdgesInAreEdges
  <2> DEFINE es == Resolved(log).edges
  <2>3. es \in SUBSET AllEdges /\ NoCircularWait(es)
    BY <2>1, ResolvedIsSane DEF Sane
  <2>4. SearchIsExact
    <3> DEFINE P == PrecedencePairs(EdgesIn(log))
    <3>1. P \subseteq Node \X Node
      BY <2>2, PrecedencePairsAreOfNodes
    <3> HIDE DEF P
    <3>2. ASSUME NEW adj \in Adjacencies(P), NEW n \in Node
          PROVE  StackSearch(adj, n) = ReachableFrom(P, n)
      <4>1. adj \in Lists /\ \A m \in Node : Range(adj[m]) = After(P, m)
        BY ListsHoldSuccessors
      <4> QED BY <3>1, <4>1, StackSearchIsExact
    <3> QED BY <3>2 DEF SearchIsExact, P
  <2>5. SomethingReadyUnblocks
    <3> DEFINE R == Reversed(PrecedencePairs(es))
    <3>1. R \subseteq Node \X Node
      BY <2>3, PrecedencePairsAreOfNodes
    <3>2. \A n \in Nodes(es) : n \in Node
      BY <2>3 DEF Nodes, AllEdges
    <3>3. \A n \in Nodes(es) :
            IF n \in ReadySet(es) THEN ReachableFrom(R, n) = {}
            ELSE ReachableFrom(R, n) \cap ReadySet(es) # {}
      BY <2>3, SomethingIsReady, NothingBlocksTheReady
    <3> HIDE DEF R, es
    <3>4. ASSUME NEW reverse \in Adjacencies(R), NEW n \in Nodes(es)
          PROVE  TransitiveBlockers(reverse, n) = ReachableFrom(R, n)
      <4>1. reverse \in Lists /\ \A m \in Node : Range(reverse[m]) = After(R, m)
        BY ListsHoldSuccessors
      <4> QED BY <3>1, <3>2, <4>1, StackSearchIsExact DEF TransitiveBlockers
    <3> QED BY <3>3, <3>4 DEF SomethingReadyUnblocks, R, es
  <2>6. ClustersAreComponents
    <3> HIDE DEF es
    <3>1. \A adj \in Adjacencies(Undirected(es)) : \A n, m \in Node :
            m \in RelatedCluster(adj, n) <=>
              \A S \in SUBSET Node :
                n \in S /\ m \notin S => \E e \in es : (e.src \in S) # (e.dst \in S)
      BY <2>3, ClusterIsExact
    <3> QED BY <3>1 DEF ClustersAreComponents, es
  <2> QED BY <2>4, <2>5, <2>6 DEF TraversalsAreExact
<1> QED BY <1>1, SpecInv, PTL
-----------------------------------------------------------------------------
(***************************************************************************)
(* The reduction.                                                          *)
(***************************************************************************)
LEMMA OneLess ==
  ASSUME NEW S, NEW q \in Seq(S), NEW i \in DOMAIN q,
         \A j, k \in DOMAIN q : q[j] = q[k] => j = k
  PROVE  RemoveAt(q, i) \in Seq(S) /\ Range(RemoveAt(q, i)) = Range(q) \ {q[i]}
<1> DEFINE a == SubSeq(q, 1, i - 1)
           b == SubSeq(q, i + 1, Len(q))
<1>1. Len(q) \in Nat /\ DOMAIN q = 1 .. Len(q) /\ i \in 1 .. Len(q)
  OBVIOUS
<1>2. /\ a \in Seq(S) /\ DOMAIN a = 1 .. i - 1 /\ \A j \in 1 .. i - 1 : a[j] = q[j]
  BY <1>1
<1>3. /\ b \in Seq(S) /\ DOMAIN b = 1 .. Len(q) - i
      /\ \A j \in 1 .. Len(q) - i : b[j] = q[i + j]
  BY <1>1
<1>4. RemoveAt(q, i) = a \o b
  BY DEF RemoveAt
<1> HIDE DEF a, b
<1>5. RemoveAt(q, i) \in Seq(S) /\ Range(RemoveAt(q, i)) = Range(a) \cup Range(b)
  BY <1>2, <1>3, <1>4, ConcatRange
<1>6. ASSUME NEW j \in DOMAIN a PROVE a[j] \in Range(q) \ {q[i]}
  <2>1. j \in DOMAIN q /\ j # i /\ a[j] = q[j]
    BY <1>1, <1>2
  <2> QED BY <1>1, <2>1 DEF Range
<1>7. ASSUME NEW j \in DOMAIN b PROVE b[j] \in Range(q) \ {q[i]}
  <2>1. i + j \in DOMAIN q /\ i + j # i /\ b[j] = q[i + j]
    BY <1>1, <1>3
  <2> QED BY <1>1, <2>1 DEF Range
<1>8. ASSUME NEW j \in DOMAIN q, j # i PROVE q[j] \in Range(a) \cup Range(b)
  <2>1. CASE j < i
    <3>1. j \in DOMAIN a /\ a[j] = q[j]
      BY <1>1, <1>2, <2>1
    <3> QED BY <3>1 DEF Range
  <2>2. CASE j > i
    <3>1. j - i \in DOMAIN b /\ b[j - i] = q[j]
      BY <1>1, <1>3, <2>2
    <3> QED BY <3>1 DEF Range
  <2> QED BY <1>1, <1>8, <2>1, <2>2
<1>9. Range(a) \cup Range(b) = Range(q) \ {q[i]}
  <2>1. \A y \in Range(a) \cup Range(b) : y \in Range(q) \ {q[i]}
    BY <1>6, <1>7 DEF Range
  <2>2. \A y \in Range(q) \ {q[i]} : y \in Range(a) \cup Range(b)
    BY <1>8 DEF Range
  <2> QED BY <2>1, <2>2
<1> QED BY <1>5, <1>9

LEMMA ListsWithoutAPair ==
  ASSUME IsFiniteSet(Node), NEW P, P \subseteq Node \X Node, NEW adj \in Adjacencies(P), NEW x \in P
  PROVE  StackSearch(Without(adj, x), x[1]) = ReachableFrom(P \ {x}, x[1])
<1> DEFINE q == adj[x[1]]
           i == CHOOSE j \in DOMAIN q : q[j] = x[2]
           wo == Without(adj, x)
<1>1. x = <<x[1], x[2]>> /\ x[1] \in Node /\ x[2] \in Node
  OBVIOUS
<1>2. /\ adj \in Lists
      /\ \A n \in Node : Range(adj[n]) = After(P, n)
      /\ q \in Seq(Node) /\ \A j, k \in DOMAIN q : q[j] = q[k] => j = k
  BY <1>1, ListsHoldSuccessors DEF Lists
<1>3. x[2] \in Range(q)
  <2>1. x[2] \in After(P, x[1])
    BY <1>1 DEF After
  <2> QED BY <1>1, <1>2, <2>1
<1>4. i \in DOMAIN q /\ q[i] = x[2]
  <2>1. \E j \in DOMAIN q : q[j] = x[2]
    BY <1>3 DEF Range
  <2> HIDE DEF q
  <2> QED BY <2>1
<1>5. wo = [adj EXCEPT ![x[1]] = RemoveAt(q, i)]
  BY DEF Without
<1> HIDE DEF i, q
<1>6. RemoveAt(q, i) \in Seq(Node) /\ Range(RemoveAt(q, i)) = Range(q) \ {x[2]}
  BY <1>2, <1>4, OneLess
<1>7. wo \in Lists /\ wo[x[1]] = RemoveAt(q, i) /\ \A n \in Node \ {x[1]} : wo[n] = adj[n]
  BY <1>1, <1>2, <1>5, <1>6 DEF Lists
<1>8. ASSUME NEW n \in Node PROVE Range(wo[n]) = After(P \ {x}, n)
  <2>1. CASE n = x[1]
    <3>1. Range(wo[n]) = After(P, n) \ {x[2]}
      BY <1>1, <1>2, <1>6, <1>7, <2>1 DEF q
    <3>2. \A m : <<n, m>> = x <=> m = x[2]
      BY <1>1, <2>1
    <3> QED BY <3>1, <3>2 DEF After
  <2>2. CASE n # x[1]
    <3>1. \A m : <<n, m>> # x
      BY <1>1, <2>2
    <3> QED BY <1>2, <1>7, <2>2, <3>1 DEF After
  <2> QED BY <2>1, <2>2
<1> HIDE DEF wo
<1>9. P \ {x} \subseteq Node \X Node
  OBVIOUS
<1> QED BY <1>1, <1>7, <1>8, <1>9, StackSearchIsExact DEF wo

LEMMA ReachableOnwards ==
  ASSUME NEW P, NEW v, NEW m, m \in ReachableFrom(P, v)
  PROVE  ReachableFrom(P, m) \subseteq ReachableFrom(P, v)
<1>1. ASSUME NEW S \in SUBSET Node, Closed(P, v, S) PROVE Closed(P, m, S)
  BY <1>1 DEF ReachableFrom, Closed
<1> QED BY <1>1 DEF ReachableFrom

\* In an order without circles nothing is reached from itself.
LEMMA NotFromItself ==
  ASSUME NEW es \in SUBSET AllEdges, NoCircularWait(es), NEW n
  PROVE  n \notin ReachableFrom(PrecedencePairs(es), n)
<1> DEFINE P == PrecedencePairs(es)
           R == ReachableFrom(P, n)
<1> SUFFICES ASSUME n \in R PROVE FALSE
  OBVIOUS
<1>1. \A x \in P : x[2] \in Node /\ ComesBefore(es, x[1], x[2])
  BY PrecedencePairsAreOfNodes
<1> HIDE DEF P
<1>2. R \in SUBSET Node /\ R # {}
  BY DEF ReachableFrom
<1>3. \A m \in R : \E k \in R : ComesBefore(es, k, m)
  BY <1>1, HasAPredecessor
<1> HIDE DEF R
<1> QED BY <1>2, <1>3 DEF NoCircularWait

\* What lies between the ends of a pair.
Between(P, x) ==
  {m \in Node : /\ m = x[1] \/ m \in ReachableFrom(P, x[1])
                /\ m = x[2] \/ x[2] \in ReachableFrom(P, m)}

LEMMA SmallerBetween ==
  ASSUME IsFiniteSet(Node), NEW P, P \subseteq Node \X Node,
         \A n : n \notin ReachableFrom(P, n),
         NEW x \in P, NEW y \in P, x # y,
         y[1] = x[1] \/ y[1] \in ReachableFrom(P, x[1]),
         y[2] = x[2] \/ x[2] \in ReachableFrom(P, y[2])
  PROVE  Cardinality(Between(P, y)) < Cardinality(Between(P, x))
<1>1. /\ x = <<x[1], x[2]>> /\ x[1] \in Node /\ x[2] \in Node
      /\ y = <<y[1], y[2]>> /\ y[1] \in Node /\ y[2] \in Node
  OBVIOUS
<1>2. ASSUME NEW z \in P, z = <<z[1], z[2]>>, z[2] \in Node PROVE z[2] \in ReachableFrom(P, z[1])
  <2>1. <<z[1], z[2]>> \in P
    BY <1>2
  <2> QED BY <1>2, <2>1, OneStepMore
<1>3. \A u, v, w : v \in ReachableFrom(P, u) /\ w \in ReachableFrom(P, v) => w \in ReachableFrom(P, u)
  BY ReachableOnwards
<1>4. /\ x[2] \in ReachableFrom(P, x[1]) /\ y[2] \in ReachableFrom(P, y[1])
  BY <1>1, <1>2
<1>5. Between(P, y) \subseteq Between(P, x)
  BY <1>3 DEF Between
<1>6. x[1] \in Between(P, x) /\ x[2] \in Between(P, x)
  BY <1>1, <1>4 DEF Between
<1>7. x[1] # y[1] => x[1] \notin Between(P, y)
  BY <1>3 DEF Between
<1>8. x[2] # y[2] => x[2] \notin Between(P, y)
  BY <1>3 DEF Between
<1>9. x[1] # y[1] \/ x[2] # y[2]
  BY <1>1
<1>10. Between(P, y) # Between(P, x)
  BY <1>6, <1>7, <1>8, <1>9
<1>11. IsFiniteSet(Between(P, x))
  <2>1. Between(P, x) \subseteq Node
    BY DEF Between
  <2> QED BY <2>1, FS_Subset
<1>12. Between(P, y) \subseteq Between(P, x) /\ Between(P, y) # Between(P, x)
  BY <1>5, <1>10
<1>13. /\ Cardinality(Between(P, y)) \in Nat /\ Cardinality(Between(P, x)) \in Nat
       /\ Cardinality(Between(P, y)) <= Cardinality(Between(P, x))
       /\ Cardinality(Between(P, y)) # Cardinality(Between(P, x))
  BY <1>11, <1>12, FS_Subset, FS_CardinalityType
<1> QED BY <1>13

\* The pairs that the others do not imply.
Needed(P) == {x \in P : x[2] \notin ReachableFrom(P \ {x}, x[1])}

LEMMA NeededReachesAll ==
  ASSUME IsFiniteSet(Node), NEW P, P \subseteq Node \X Node,
         \A n : n \notin ReachableFrom(P, n), NEW n \in Node
  PROVE  ReachableFrom(Needed(P), n) = ReachableFrom(P, n)
<1> DEFINE K == Needed(P)
           Bad == {x \in P : x[2] \notin ReachableFrom(K, x[1])}
           Size(x) == Cardinality(Between(P, x))
<1>1. K \subseteq P
  BY DEF Needed
<1>2. \A m : ReachableFrom(K, m) \subseteq ReachableFrom(P, m)
  BY <1>1, ReachableGrows
<1>3. \A z \in P : z = <<z[1], z[2]>> /\ z[1] \in Node /\ z[2] \in Node
  OBVIOUS
<1>4. \A z \in K : z[2] \in ReachableFrom(K, z[1])
  <2> SUFFICES ASSUME NEW z \in K PROVE z[2] \in ReachableFrom(K, z[1])
    OBVIOUS
  <2>1. <<z[1], z[2]>> \in K /\ z[2] \in Node
    BY <1>1, <1>3
  <2> HIDE DEF K
  <2> QED BY <2>1, OneStepMore
<1>5. Bad = {}
  <2> SUFFICES ASSUME Bad # {} PROVE FALSE
    OBVIOUS
  <2>1. \A x \in Bad : Size(x) \in Nat
    <3>1. \A x : Between(P, x) \subseteq Node
      BY DEF Between
    <3> QED BY <3>1, FS_Subset, FS_CardinalityType
  <2>2. PICK x \in Bad : \A y \in Bad : Size(x) <= Size(y)
    <3> DEFINE T == {Size(y) : y \in Bad}
    <3>1. T \subseteq Nat /\ T # {}
      BY <2>1
    <3> HIDE DEF T
    <3>2. PICK k \in T : \A m \in T : k <= m
      BY <3>1, LeastNatural
    <3> QED BY <3>2 DEF T
  <2> DEFINE a == x[1]
             b == x[2]
             Leads(m) == m = b \/ b \in ReachableFrom(P, m)
             S == {m \in Node : m \in ReachableFrom(K, a) \/ ~Leads(m)}
  <2>3. x \in P /\ x = <<a, b>> /\ a \in Node /\ b \in Node /\ b \notin ReachableFrom(K, a)
    BY <1>3
  <2>4. b \in ReachableFrom(P \ {x}, a)
    BY <1>4, <2>3 DEF Needed
  <2>5. ASSUME NEW y \in P \ {x}, y[1] = a \/ y[1] \in S PROVE y[2] \in S
    <3> DEFINE c == y[1]
               d == y[2]
    <3>1. y \in P /\ y = <<c, d>> /\ c \in Node /\ d \in Node
      BY <1>3
    <3> SUFFICES ASSUME Leads(d) PROVE d \in ReachableFrom(K, a)
      BY <3>1
    <3>2. d \in ReachableFrom(P, c)
      BY <3>1, OneStepMore
    <3>3. Leads(c)
      BY <3>2, ReachableOnwards
    <3>4. c = a \/ c \in ReachableFrom(K, a)
      BY <2>5, <3>3
    <3>5. c = a \/ c \in ReachableFrom(P, a)
      BY <1>2, <3>4
    <3>6. Size(y) < Size(x)
      BY <2>3, <3>1, <3>5, SmallerBetween
    <3>7. y \notin Bad
      <4>1. Size(x) \in Nat /\ (y \in Bad => Size(y) \in Nat)
        BY <2>1
      <4> HIDE DEF Size, Bad
      <4> QED BY <2>2, <3>6, <4>1
    <3>8. d \in ReachableFrom(K, c)
      BY <3>1, <3>7
    <3> HIDE DEF K
    <3> QED BY <3>4, <3>8, ReachableOnwards
  <2>6. Closed(P \ {x}, a, S)
    BY <2>5 DEF Closed
  <2>7. b \in S
    <3>1. S \in SUBSET Node
      OBVIOUS
    <3> HIDE DEF S
    <3> QED BY <2>4, <2>6, <3>1 DEF ReachableFrom
  <2> QED BY <2>3, <2>7
<1>6. Closed(P, n, ReachableFrom(K, n))
  <2> SUFFICES ASSUME NEW x \in P, x[1] = n \/ x[1] \in ReachableFrom(K, n)
               PROVE  x[2] \in ReachableFrom(K, n)
    BY DEF Closed
  <2>1. x[2] \in ReachableFrom(K, x[1])
    BY <1>5
  <2> HIDE DEF K
  <2> QED BY <2>1, ReachableOnwards
<1>7. ReachableFrom(P, n) \subseteq ReachableFrom(K, n)
  <2>1. ReachableFrom(K, n) \in SUBSET Node
    BY DEF ReachableFrom
  <2> HIDE DEF K
  <2> QED BY <1>6, <2>1 DEF ReachableFrom
<1> QED BY <1>2, <1>7

\* transitive_reduction keeps the order, and no more than it takes.
LEMMA ReductionIsExact ==
  ASSUME IsFiniteSet(Node), NEW es \in SUBSET AllEdges, NoCircularWait(es),
         NEW adj \in Adjacencies(PrecedencePairs(es))
  PROVE  OrderIsKept(es, adj)
<1> DEFINE P == PrecedencePairs(es)
           kept == TransitiveReduction(es, adj)
           K == PrecedencePairs(kept)
<1>1. P \subseteq Node \X Node
  BY PrecedencePairsAreOfNodes
<1>2. \A n : n \notin ReachableFrom(P, n)
  BY NotFromItself
<1>3. \A x \in P : StackSearch(Without(adj, x), x[1]) = ReachableFrom(P \ {x}, x[1])
  <2> HIDE DEF P
  <2>1. adj \in Adjacencies(P)
    BY DEF P
  <2> QED BY <1>1, <2>1, ListsWithoutAPair
<1>4. \A e \in es : Ordering(e) => PrecedencePair(e) \in P
  BY DEF PrecedencePairs
<1>5. kept = {e \in es : Ordering(e) => PrecedencePair(e) \in Needed(P)}
  BY <1>3, <1>4 DEF TransitiveReduction, Needed
<1>6. K = Needed(P)
  <2>1. ASSUME NEW x \in K PROVE x \in Needed(P)
    BY <1>5 DEF PrecedencePairs
  <2>2. ASSUME NEW x \in Needed(P) PROVE x \in K
    <3>1. PICK e \in es : Ordering(e) /\ x = PrecedencePair(e)
      BY DEF Needed, PrecedencePairs
    <3> QED BY <1>5, <3>1 DEF PrecedencePairs
  <2> QED BY <2>1, <2>2
<1>7. {e \in es : ~Ordering(e)} \subseteq kept
  BY <1>5
<1> HIDE DEF P, kept, K
<1>8. \A n \in Node : ReachableFrom(K, n) = ReachableFrom(P, n)
  BY <1>1, <1>2, <1>6, NeededReachesAll
<1>9. \A x \in K : x[2] \notin ReachableFrom(K \ {x}, x[1])
  <2> SUFFICES ASSUME NEW x \in K PROVE x[2] \notin ReachableFrom(K \ {x}, x[1])
    OBVIOUS
  <2>1. K \ {x} \subseteq P \ {x} /\ x[2] \notin ReachableFrom(P \ {x}, x[1])
    BY <1>6 DEF Needed
  <2> QED BY <2>1, ReachableGrows
<1> QED BY <1>7, <1>8, <1>9 DEF OrderIsKept, P, kept, K
-----------------------------------------------------------------------------
(***************************************************************************)
(* The depth-first search: what a step does to each part of the state.     *)
(***************************************************************************)
Colours == {"white", "gray", "black"}

Whole(s) == s = [k \in {"colour", "path", "rest", "roots", "cycles"} |-> s[k]]

Typed(s) ==
  /\ s.colour \in [Node -> Colours] /\ s.path \in Seq(Node) /\ s.rest \in Lists
  /\ s.roots \in Seq(Node) /\ s.cycles \in SUBSET Seq(Node)

LEMMA DfsParts ==
  ASSUME NEW s \in Dfs
  PROVE  /\ Whole(s) /\ Typed(s)
         /\ \A n \in Node : s.colour[n] = "gray" => n \in Range(s.path)
BY DEF Dfs, Whole, Typed, Colours, Lists

LEMMA WholeIsDfs ==
  ASSUME NEW s, Whole(s), Typed(s), \A n \in Node : s.colour[n] = "gray" => n \in Range(s.path)
  PROVE  s \in Dfs
<1>1. s = [colour |-> s.colour, path |-> s.path, rest |-> s.rest, roots |-> s.roots,
           cycles |-> s.cycles]
  BY DEF Whole
<1>2. s \in [colour : [Node -> Colours], path : Seq(Node), rest : Lists,
             roots : Seq(Node), cycles : SUBSET Seq(Node)]
  BY <1>1 DEF Typed
<1> QED BY <1>2 DEF Dfs, Colours, Lists

Grayed(colour, n) == [colour EXCEPT ![n] = "gray"]

LEMMA EnterIs ==
  ASSUME NEW s, Whole(s), NEW n
  PROVE  LET t == Enter(s, n)
         IN  /\ Whole(t)
             /\ t.colour = Grayed(s.colour, n) /\ t.path = Append(s.path, n)
             /\ t.rest = s.rest /\ t.roots = s.roots /\ t.cycles = s.cycles
BY DEF Enter, Whole, Grayed

LEMMA LeaveIs ==
  ASSUME NEW s, Whole(s)
  PROVE  LET t == Leave(s)
         IN  /\ Whole(t)
             /\ t.colour = [s.colour EXCEPT ![Last(s.path)] = "black"] /\ t.path = Front(s.path)
             /\ t.rest = s.rest /\ t.roots = s.roots /\ t.cycles = s.cycles
BY DEF Leave, Whole

LEMMA LookIs ==
  ASSUME NEW s, Whole(s), NEW n, s.colour[n] # "white"
  PROVE  LET t == Look(s, n)
             i == CHOOSE j \in DOMAIN s.path : s.path[j] = n
         IN  /\ Whole(t)
             /\ t.colour = s.colour /\ t.path = s.path /\ t.rest = s.rest /\ t.roots = s.roots
             /\ t.cycles = IF s.colour[n] = "gray"
                           THEN s.cycles \cup {SubSeq(s.path, i, Len(s.path))}
                           ELSE s.cycles
BY DEF Look, Whole

LEMMA RootTaken ==
  ASSUME NEW s, Whole(s)
  PROVE  LET t == [s EXCEPT !.roots = Tail(@)]
         IN  /\ Whole(t)
             /\ t.colour = s.colour /\ t.path = s.path /\ t.rest = s.rest
             /\ t.roots = Tail(s.roots) /\ t.cycles = s.cycles
BY DEF Whole

LEMMA NextTaken ==
  ASSUME NEW s, Whole(s), NEW n
  PROVE  LET t == [s EXCEPT !.rest[n] = Tail(@)]
         IN  /\ Whole(t)
             /\ t.colour = s.colour /\ t.path = s.path
             /\ t.rest = [s.rest EXCEPT ![n] = Tail(s.rest[n])]
             /\ t.roots = s.roots /\ t.cycles = s.cycles
BY DEF Whole

\* The six ways to take a step.
Stays(s, t) == t.colour = s.colour /\ t.path = s.path

Enters(s, t, n) ==
  /\ n \in Node /\ s.colour[n] = "white"
  /\ t.colour = Grayed(s.colour, n) /\ t.path = Append(s.path, n)
  /\ t.cycles = s.cycles

Starts(s, t) ==
  /\ s.path = <<>> /\ s.roots # <<>> /\ t.roots = Tail(s.roots) /\ t.rest = s.rest
  /\ \/ Enters(s, t, Head(s.roots))
     \/ Stays(s, t) /\ s.colour[Head(s.roots)] # "white" /\ t.cycles = s.cycles

Leaves(s, t) ==
  /\ s.path # <<>> /\ s.rest[Last(s.path)] = <<>>
  /\ t.colour = [s.colour EXCEPT ![Last(s.path)] = "black"] /\ t.path = Front(s.path)
  /\ t.rest = s.rest /\ t.roots = s.roots /\ t.cycles = s.cycles

Looks(s, t) ==
  LET n == Last(s.path)
      m == Head(s.rest[n])
  IN  /\ s.path # <<>> /\ s.rest[n] # <<>>
      /\ t.rest = [s.rest EXCEPT ![n] = Tail(s.rest[n])] /\ t.roots = s.roots
      /\ \/ Enters(s, t, m)
         \/ /\ Stays(s, t) /\ s.colour[m] = "gray"
            /\ \E i \in DOMAIN s.path :
                 s.path[i] = m /\ t.cycles = s.cycles \cup {SubSeq(s.path, i, Len(s.path))}
         \/ Stays(s, t) /\ s.colour[m] = "black" /\ t.cycles = s.cycles

DfsDone == {s \in Dfs : s.path = <<>> /\ s.roots = <<>>}

LEMMA OneMore ==
  ASSUME NEW S, NEW q \in Seq(S), NEW x \in S
  PROVE  /\ Append(q, x) \in Seq(S) /\ Range(Append(q, x)) = Range(q) \cup {x}
         /\ DOMAIN Append(q, x) = 1 .. Len(q) + 1 /\ Append(q, x)[Len(q) + 1] = x
         /\ \A i \in 1 .. Len(q) : Append(q, x)[i] = q[i]
         /\ \A i : i \in 1 .. Len(q) + 1 <=> i \in 1 .. Len(q) \/ i = Len(q) + 1
<1> DEFINE r == Append(q, x)
<1>1. /\ r \in Seq(S) /\ DOMAIN r = 1 .. Len(q) + 1 /\ r[Len(q) + 1] = x
      /\ DOMAIN q = 1 .. Len(q) /\ Len(q) \in Nat
      /\ \A i \in 1 .. Len(q) : r[i] = q[i]
  OBVIOUS
<1>2. \A i : i \in 1 .. Len(q) + 1 <=> i \in 1 .. Len(q) \/ i = Len(q) + 1
  BY <1>1
<1> HIDE DEF r
<1>3. Range(r) = Range(q) \cup {x}
  BY <1>1, <1>2 DEF Range
<1> QED BY <1>1, <1>2, <1>3 DEF r

LEMMA EnterIsDfs ==
  ASSUME NEW s, Whole(s), Typed(s), NEW n \in Node,
         \A m \in Node : s.colour[m] = "gray" => m \in Range(s.path)
  PROVE  Enter(s, n) \in Dfs
<1> DEFINE t == Enter(s, n)
<1>1. /\ Whole(t)
      /\ t.colour = Grayed(s.colour, n) /\ t.path = Append(s.path, n)
      /\ t.rest = s.rest /\ t.roots = s.roots /\ t.cycles = s.cycles
  BY EnterIs
<1> HIDE DEF t
<1>2. t.path \in Seq(Node) /\ Range(t.path) = Range(s.path) \cup {n}
  BY <1>1, OneMore DEF Typed
<1>3. t.colour \in [Node -> Colours]
  BY <1>1 DEF Typed, Colours, Grayed
<1>4. Typed(t)
  BY <1>1, <1>2, <1>3 DEF Typed
<1>5. \A m \in Node : t.colour[m] = "gray" => m \in Range(t.path)
  BY <1>1, <1>2 DEF Typed, Grayed
<1>6. t \in Dfs
  BY <1>1, <1>4, <1>5, WholeIsDfs
<1> QED BY <1>6 DEF t

LEMMA DfsTurn ==
  ASSUME NEW s \in Dfs \ DfsDone
  PROVE  LET t == DfsStep(s)
         IN  t \in Dfs /\ (Starts(s, t) \/ Leaves(s, t) \/ Looks(s, t))
<1> DEFINE t == DfsStep(s)
           n == Last(s.path)
<1>1. /\ Whole(s) /\ Typed(s)
      /\ \A m \in Node : s.colour[m] = "gray" => m \in Range(s.path)
  BY DfsParts
<1>2. CASE s.path = <<>>
  <2> DEFINE m == Head(s.roots)
             u == [s EXCEPT !.roots = Tail(@)]
  <2>1. s.roots \in Seq(Node) /\ s.roots # <<>>
    BY <1>1, <1>2 DEF Typed, DfsDone
  <2>2. m \in Node /\ Tail(s.roots) \in Seq(Node)
    BY <2>1, HeadAndTail
  <2>3. /\ Whole(u) /\ u.colour = s.colour /\ u.path = s.path /\ u.rest = s.rest
        /\ u.roots = Tail(s.roots) /\ u.cycles = s.cycles
    BY <1>1, RootTaken
  <2>4. t = IF s.colour[m] = "white" THEN Enter(u, m) ELSE u
    BY <1>2 DEF DfsStep
  <2> HIDE DEF u, m, t
  <2>5. Typed(u)
    BY <1>1, <2>2, <2>3 DEF Typed
  <2>6. u \in Dfs
    BY <1>1, <2>3, <2>5, WholeIsDfs
  <2>7. Enter(u, m) \in Dfs
    BY <1>1, <2>2, <2>3, <2>5, EnterIsDfs
  <2>8. CASE s.colour[m] = "white"
    <3>0. Whole(u) /\ t = Enter(u, m)
      BY <2>3, <2>4, <2>8
    <3>1. /\ t.colour = Grayed(u.colour, m) /\ t.path = Append(u.path, m)
          /\ t.rest = u.rest /\ t.roots = u.roots /\ t.cycles = u.cycles
      BY <3>0, EnterIs, Zenon
    <3>2. Enters(s, t, m)
      BY <2>2, <2>3, <2>8, <3>1 DEF Enters
    <3>3. Starts(s, t)
      BY <1>2, <2>1, <2>3, <3>1, <3>2 DEF Starts, m
    <3> QED BY <2>4, <2>7, <2>8, <3>3 DEF t
  <2>9. CASE s.colour[m] # "white"
    <3>1. t = u
      BY <2>4, <2>9
    <3>2. Starts(s, t)
      BY <1>2, <2>1, <2>3, <2>9, <3>1 DEF Starts, Stays, m
    <3> QED BY <2>6, <3>1, <3>2 DEF t
  <2> QED BY <2>8, <2>9
<1>3. ASSUME s.path # <<>>
      PROVE  /\ n \in Node /\ Front(s.path) \in Seq(Node) /\ s.rest[n] \in Seq(Node)
             /\ Range(s.path) = Range(Front(s.path)) \cup {n}
  <2>1. s.path \in Seq(Node)
    BY <1>1 DEF Typed
  <2>2. /\ n \in Node /\ Front(s.path) \in Seq(Node)
        /\ Range(s.path) = Range(Front(s.path)) \cup {n}
    BY <1>3, <2>1, FrontAndLast
  <2>3. s.rest[n] \in Seq(Node)
    BY <1>1, <2>2 DEF Typed, Lists
  <2> QED BY <2>2, <2>3
<1>4. CASE s.path # <<>> /\ s.rest[n] = <<>>
  <2>1. t = Leave(s)
    BY <1>4 DEF DfsStep
  <2> HIDE DEF t
  <2>2. /\ Whole(t) /\ t.colour = [s.colour EXCEPT ![n] = "black"] /\ t.path = Front(s.path)
        /\ t.rest = s.rest /\ t.roots = s.roots /\ t.cycles = s.cycles
    BY <1>1, <2>1, LeaveIs
  <2>3. Leaves(s, t)
    BY <1>4, <2>2 DEF Leaves
  <2> HIDE DEF n
  <2>4. t.colour \in [Node -> Colours]
    BY <1>1, <2>2 DEF Typed, Colours
  <2>5. Typed(t)
    BY <1>1, <1>3, <1>4, <2>2, <2>4 DEF Typed
  <2>6. \A m \in Node : t.colour[m] = "gray" => m \in Range(t.path)
    BY <1>1, <1>3, <1>4, <2>2 DEF Typed
  <2>7. t \in Dfs
    BY <2>2, <2>5, <2>6, WholeIsDfs
  <2> QED BY <2>3, <2>7 DEF t
<1>5. CASE s.path # <<>> /\ s.rest[n] # <<>>
  <2> DEFINE m == Head(s.rest[n])
             u == [s EXCEPT !.rest[n] = Tail(@)]
  <2>1. m \in Node /\ Tail(s.rest[n]) \in Seq(Node)
    BY <1>3, <1>5, HeadAndTail
  <2>2. /\ Whole(u) /\ u.colour = s.colour /\ u.path = s.path
        /\ u.rest = [s.rest EXCEPT ![n] = Tail(s.rest[n])]
        /\ u.roots = s.roots /\ u.cycles = s.cycles
    BY <1>1, NextTaken
  <2>3. t = Look(u, m)
    BY <1>5 DEF DfsStep
  <2> HIDE DEF u, m, t, n
  <2>4. u.rest \in Lists
    BY <1>1, <1>3, <1>5, <2>1, <2>2 DEF Typed, Lists
  <2>5. Typed(u)
    BY <1>1, <2>2, <2>4 DEF Typed
  <2>6. CASE s.colour[m] = "white"
    <3>1. t = Enter(u, m)
      BY <2>2, <2>3, <2>6 DEF Look
    <3>0. Whole(u)
      BY <2>2
    <3>2. /\ t.colour = Grayed(u.colour, m) /\ t.path = Append(u.path, m)
          /\ t.rest = u.rest /\ t.roots = u.roots /\ t.cycles = u.cycles
      BY <3>0, <3>1, EnterIs, Zenon
    <3>3. Enters(s, t, m)
      BY <2>1, <2>2, <2>6, <3>2 DEF Enters
    <3>4. Looks(s, t)
      BY <1>5, <2>2, <3>2, <3>3 DEF Looks, m, n
    <3>5. t \in Dfs
      BY <1>1, <2>1, <2>2, <2>5, <3>1, EnterIsDfs
    <3> QED BY <3>4, <3>5 DEF t
  <2>7. CASE s.colour[m] # "white"
    <3> DEFINE i == CHOOSE j \in DOMAIN u.path : u.path[j] = m
               c == SubSeq(u.path, i, Len(u.path))
    <3>0. Whole(u) /\ u.colour[m] # "white"
      BY <2>2, <2>7
    <3>1. /\ Whole(t) /\ t.colour = u.colour /\ t.path = u.path /\ t.rest = u.rest
          /\ t.roots = u.roots
          /\ t.cycles = IF u.colour[m] = "gray" THEN u.cycles \cup {c} ELSE u.cycles
      BY <2>3, <3>0, LookIs, Zenon
    <3>2. Stays(s, t)
      BY <2>2, <3>1 DEF Stays
    <3> HIDE DEF c
    <3>3. CASE s.colour[m] = "gray"
      <4>1. \E j \in DOMAIN u.path : u.path[j] = m
        BY <1>1, <2>1, <2>2, <3>3 DEF Range
      <4>2. i \in DOMAIN s.path /\ s.path[i] = m /\ c = SubSeq(s.path, i, Len(s.path))
        BY <2>2, <4>1 DEF c
      <4> HIDE DEF i
      <4>3. c \in Seq(Node)
        <5>1. s.path \in Seq(Node) /\ i \in 1 .. Len(s.path)
          BY <1>1, <4>2 DEF Typed
        <5> QED BY <4>2, <5>1
      <4>4. Typed(t)
        BY <2>2, <2>5, <3>1, <3>3, <4>3 DEF Typed
      <4>5. t \in Dfs
        BY <1>1, <2>2, <3>1, <4>4, WholeIsDfs
      <4>6. t.cycles = s.cycles \cup {SubSeq(s.path, i, Len(s.path))}
        BY <2>2, <3>1, <3>3, <4>2
      <4>7. Looks(s, t)
        BY <1>5, <2>2, <3>1, <3>2, <3>3, <4>2, <4>6 DEF Looks, m, n
      <4> QED BY <4>5, <4>7 DEF t
    <3>4. CASE s.colour[m] # "gray"
      <4>1. s.colour[m] = "black"
        BY <1>1, <2>1, <2>7, <3>4 DEF Typed, Colours
      <4>2. Typed(t)
        BY <2>2, <2>5, <3>1, <3>4 DEF Typed
      <4>3. t \in Dfs
        BY <1>1, <2>2, <3>1, <4>2, WholeIsDfs
      <4>4. t.cycles = s.cycles
        BY <2>2, <3>1, <3>4
      <4>5. Looks(s, t)
        BY <1>5, <2>2, <3>1, <3>2, <4>1, <4>4 DEF Looks, m, n
      <4> QED BY <4>3, <4>5 DEF t
    <3> QED BY <3>3, <3>4
  <2> QED BY <2>6, <2>7
<1> QED BY <1>2, <1>4, <1>5
-----------------------------------------------------------------------------
\* The search ends: with every step there are fewer roots, or as many and fewer
\* white nodes, or the path is shorter, or its last iterator.
LEMMA LeastMember ==
  ASSUME NEW S, S # {}, NEW f, \A s \in S : f[s] \in Nat
  PROVE  \E x \in S : \A y \in S : f[x] <= f[y]
<1> DEFINE T == {f[s] : s \in S}
<1>1. T \subseteq Nat /\ T # {}
  OBVIOUS
<1> HIDE DEF T
<1>2. PICK k \in T : \A m \in T : k <= m
  BY <1>1, LeastNatural
<1> QED BY <1>2 DEF T

LexLeast(x, S, f, g, h, k) ==
  /\ x \in S
  /\ \A y \in S :
       /\ f[x] <= f[y]
       /\ f[x] = f[y] => /\ g[x] <= g[y]
                         /\ g[x] = g[y] => /\ h[x] <= h[y]
                                           /\ h[x] = h[y] => k[x] <= k[y]

LEMMA LeastOfFour ==
  ASSUME NEW S, S # {}, NEW f, NEW g, NEW h, NEW k,
         \A s \in S : f[s] \in Nat /\ g[s] \in Nat /\ h[s] \in Nat /\ k[s] \in Nat
  PROVE  \E x : LexLeast(x, S, f, g, h, k)
<1>1. PICK a \in S : \A y \in S : f[a] <= f[y]
  BY LeastMember
<1> DEFINE A == {y \in S : f[y] = f[a]}
<1>2. PICK b \in A : \A y \in A : g[b] <= g[y]
  <2>1. A # {} /\ \A y \in A : g[y] \in Nat
    OBVIOUS
  <2> HIDE DEF A
  <2> QED BY <2>1, LeastMember
<1> DEFINE B == {y \in A : g[y] = g[b]}
<1>3. PICK c \in B : \A y \in B : h[c] <= h[y]
  <2>1. B # {} /\ \A y \in B : h[y] \in Nat
    OBVIOUS
  <2> HIDE DEF B
  <2> QED BY <2>1, LeastMember
<1> DEFINE C == {y \in B : h[y] = h[c]}
<1>4. PICK d \in C : \A y \in C : k[d] <= k[y]
  <2>1. C # {} /\ \A y \in C : k[y] \in Nat
    OBVIOUS
  <2> HIDE DEF C
  <2> QED BY <2>1, LeastMember
<1>5. /\ d \in S /\ f[d] = f[a] /\ g[d] = g[b] /\ h[d] = h[c]
      /\ \A y \in S : f[y] = f[d] => y \in A
      /\ \A y \in A : g[y] = g[d] => y \in B
      /\ \A y \in B : h[y] = h[d] => y \in C
  OBVIOUS
<1> HIDE DEF A, B, C
<1>6. ASSUME NEW y \in S
      PROVE  /\ f[d] <= f[y]
             /\ f[d] = f[y] => /\ g[d] <= g[y]
                               /\ g[d] = g[y] => /\ h[d] <= h[y]
                                                 /\ h[d] = h[y] => k[d] <= k[y]
  BY <1>1, <1>2, <1>3, <1>4, <1>5
<1> QED BY <1>5, <1>6 DEF LexLeast

White(s) == {n \in Node : s.colour[n] = "white"}
LastRest(s) == IF s.path = <<>> THEN 0 ELSE Len(s.rest[Last(s.path)])

LEMMA EntersGetsOn ==
  ASSUME IsFiniteSet(Node), NEW s \in Dfs, NEW t, NEW n, Enters(s, t, n)
  PROVE  Cardinality(White(t)) < Cardinality(White(s))
<1>1. n \in Node /\ s.colour \in [Node -> Colours]
  BY DfsParts DEF Enters, Typed
<1>2. White(t) = White(s) \ {n} /\ n \in White(s) /\ White(s) \subseteq Node
  <2>1. /\ s.colour[n] = "white" /\ t.colour[n] = "gray"
        /\ \A m \in Node : m # n => t.colour[m] = s.colour[m]
    BY <1>1 DEF Enters, Grayed
  <2> QED BY <1>1, <2>1 DEF White
<1>3. IsFiniteSet(White(s)) /\ Cardinality(White(s)) \in Nat
  BY <1>2, FS_Subset, FS_CardinalityType
<1>4. Cardinality(White(s) \ {n}) = Cardinality(White(s)) - 1
  BY <1>2, <1>3, FS_RemoveElement
<1> QED BY <1>2, <1>3, <1>4

LEMMA DfsEnds ==
  ASSUME IsFiniteSet(Node), NEW S \in SUBSET (Dfs \ DfsDone), S # {}
  PROVE  \E s \in S : DfsStep(s) \notin S
<1> DEFINE f == [s \in Dfs |-> Len(s.roots)]
           g == [s \in Dfs |-> Cardinality(White(s))]
           h == [s \in Dfs |-> Len(s.path)]
           k == [s \in Dfs |-> LastRest(s)]
<1>1. \A s \in Dfs : f[s] \in Nat /\ g[s] \in Nat /\ h[s] \in Nat /\ k[s] \in Nat
  <2> SUFFICES ASSUME NEW s \in Dfs
               PROVE  /\ Len(s.roots) \in Nat /\ Cardinality(White(s)) \in Nat
                      /\ Len(s.path) \in Nat /\ LastRest(s) \in Nat
    OBVIOUS
  <2>1. Typed(s)
    BY DfsParts
  <2>2. White(s) \subseteq Node
    BY DEF White
  <2>3. IsFiniteSet(White(s)) /\ Cardinality(White(s)) \in Nat
    BY <2>2, FS_Subset, FS_CardinalityType
  <2>4. s.path # <<>> => s.rest[Last(s.path)] \in Seq(Node)
    BY <2>1, FrontAndLast DEF Typed, Lists
  <2> QED BY <2>1, <2>3, <2>4 DEF Typed, LastRest
<1>2. PICK x : LexLeast(x, S, f, g, h, k)
  <2>1. \A s \in S : f[s] \in Nat /\ g[s] \in Nat /\ h[s] \in Nat /\ k[s] \in Nat
    BY <1>1
  <2> HIDE DEF f, g, h, k
  <2> QED BY <2>1, LeastOfFour
<1> HIDE DEF f, g, h, k
<1>9. x \in S
  BY <1>2 DEF LexLeast
<1> DEFINE t == DfsStep(x)
<1>3. x \in Dfs \ DfsDone /\ x \in Dfs /\ Typed(x) /\ t \in Dfs
      /\ (Starts(x, t) \/ Leaves(x, t) \/ Looks(x, t))
  BY <1>9, DfsTurn, DfsParts
<1> SUFFICES ASSUME t \in S PROVE FALSE
  BY <1>9
<1> HIDE DEF t
<1>4. /\ f[x] <= f[t]
      /\ f[x] = f[t] => /\ g[x] <= g[t]
                        /\ g[x] = g[t] => /\ h[x] <= h[t]
                                          /\ h[x] = h[t] => k[x] <= k[t]
  BY <1>2 DEF LexLeast
<1>5. /\ f[x] = Len(x.roots) /\ g[x] = Cardinality(White(x)) /\ h[x] = Len(x.path)
      /\ f[t] = Len(t.roots) /\ g[t] = Cardinality(White(t)) /\ h[t] = Len(t.path)
      /\ k[x] = LastRest(x) /\ k[t] = LastRest(t)
      /\ f[x] \in Nat /\ g[x] \in Nat /\ h[x] \in Nat /\ k[x] \in Nat
      /\ f[t] \in Nat /\ g[t] \in Nat /\ h[t] \in Nat /\ k[t] \in Nat
  BY <1>1, <1>3 DEF f, g, h, k
<1>6. CASE Starts(x, t)
  <2>1. x.roots \in Seq(Node) /\ x.roots # <<>> /\ t.roots = Tail(x.roots)
    BY <1>3, <1>6 DEF Starts, Typed
  <2>2. Len(Tail(x.roots)) = Len(x.roots) - 1
    BY <2>1, HeadAndTail
  <2>3. f[t] = f[x] - 1
    BY <1>5, <2>1, <2>2
  <2> QED BY <1>4, <1>5, <2>3
<1>7. CASE Leaves(x, t)
  <2>1. t.roots = x.roots /\ t.path = Front(x.path) /\ x.path # <<>> /\ x.path \in Seq(Node)
    BY <1>3, <1>7 DEF Leaves, Typed
  <2>2. Len(Front(x.path)) = Len(x.path) - 1 /\ Last(x.path) \in Node
    BY <2>1, FrontAndLast
  <2>3. White(t) \subseteq White(x)
    BY <1>3, <1>7, <2>2 DEF Leaves, White, Typed
  <2>4. g[t] <= g[x]
    <3>1. White(x) \subseteq Node
      BY DEF White
    <3>2. IsFiniteSet(White(x))
      BY <3>1, FS_Subset
    <3> QED BY <1>5, <2>3, <3>2, FS_Subset
  <2>5. f[t] = f[x] /\ h[t] = h[x] - 1
    BY <1>5, <2>1, <2>2
  <2> QED BY <1>4, <1>5, <2>4, <2>5
<1>8. CASE Looks(x, t)
  <2> DEFINE n == Last(x.path)
             m == Head(x.rest[n])
  <2>1. /\ x.path # <<>> /\ x.path \in Seq(Node) /\ x.rest[n] # <<>> /\ t.roots = x.roots
        /\ t.rest = [x.rest EXCEPT ![n] = Tail(x.rest[n])]
        /\ Enters(x, t, m) \/ Stays(x, t)
    BY <1>3, <1>8 DEF Looks, Typed
  <2>2. n \in Node
    BY <2>1, FrontAndLast
  <2>3. CASE Enters(x, t, m)
    <3> HIDE DEF m, n
    <3>1. g[t] < g[x] /\ f[t] = f[x]
      BY <1>3, <1>5, <2>1, <2>3, EntersGetsOn
    <3> QED BY <1>4, <1>5, <3>1
  <2>4. CASE Stays(x, t)
    <3>1. x.rest[n] \in Seq(Node)
      BY <1>3, <2>2 DEF Typed, Lists
    <3>2. Len(Tail(x.rest[n])) = Len(x.rest[n]) - 1 /\ Len(x.rest[n]) \in Nat
      BY <2>1, <3>1, HeadAndTail
    <3>3. t.rest[n] = Tail(x.rest[n]) /\ t.path = x.path
      BY <1>3, <2>1, <2>2, <2>4 DEF Typed, Lists, Stays
    <3>4. k[t] = k[x] - 1
      BY <1>5, <2>1, <3>2, <3>3 DEF LastRest
    <3>5. f[t] = f[x] /\ h[t] = h[x] /\ g[t] = g[x]
      <4>1. White(t) = White(x)
        BY <2>4 DEF Stays, White
      <4> QED BY <1>5, <2>1, <3>3, <4>1
    <3> QED BY <1>4, <1>5, <3>4, <3>5
  <2> QED BY <2>1, <2>3, <2>4
<1> QED BY <1>3, <1>6, <1>7, <1>8
-----------------------------------------------------------------------------
\* What holds of the search all along.  The path is the gray nodes, and leads
\* along pairs; iterators yield successors, those of a white node all of them.
PathIsGray(s) ==
  /\ \A n \in Node : n \in Range(s.path) => s.colour[n] = "gray"
  /\ \A i, j \in DOMAIN s.path : s.path[i] = s.path[j] => i = j

PathIsChain(s, P) ==
  \A i \in DOMAIN s.path : i + 1 \in DOMAIN s.path => <<s.path[i], s.path[i + 1]>> \in P

Pending(s, P) ==
  \A n \in Node : /\ Range(s.rest[n]) \subseteq After(P, n)
                  /\ s.colour[n] = "white" => Range(s.rest[n]) = After(P, n)

Circle(c, P) ==
  /\ c \in Seq(Node) /\ c # <<>>
  /\ \A i \in DOMAIN c : <<c[i], c[IF i = Len(c) THEN 1 ELSE i + 1]>> \in P
  /\ \A i, j \in DOMAIN c : c[i] = c[j] => i = j

\* As long as no cycle was found, whatever a node has led to is black, on the
\* path right after it, or still to come, and the black nodes are in order.
Ordered(S, P) ==
  \A T \in SUBSET S : T # {} => \E n \in T : \A m \in T : <<m, n>> \notin P

Black(s) == {n \in Node : s.colour[n] = "black"}

BlackIsDone(s, P) ==
  /\ Ordered(Black(s), P)
  /\ \A n \in Black(s) : After(P, n) \subseteq Black(s)

PathIsOpen(s, P) ==
  \A i \in DOMAIN s.path : \A m \in After(P, s.path[i]) :
    \/ m \in Range(s.rest[s.path[i]]) \/ m \in Black(s)
    \/ i + 1 \in DOMAIN s.path /\ m = s.path[i + 1]

Searching(s, P, V) ==
  /\ s \in Dfs /\ PathIsGray(s) /\ PathIsChain(s, P) /\ Pending(s, P)
  /\ \A c \in s.cycles : Circle(c, P)
  /\ \A n \in V : n \in Range(s.roots) \/ s.colour[n] # "white"
  /\ s.cycles = {} => BlackIsDone(s, P) /\ PathIsOpen(s, P)

\* A node joins the path, as a root or from its end.
LEMMA EntersKeepsPath ==
  ASSUME NEW P, NEW s \in Dfs, PathIsGray(s), PathIsChain(s, P),
         NEW n, NEW t, Enters(s, t, n),
         s.path = <<>> \/ <<Last(s.path), n>> \in P
  PROVE  /\ PathIsGray(t) /\ PathIsChain(t, P) /\ Black(t) = Black(s)
         /\ DOMAIN s.path = 1 .. Len(s.path) /\ DOMAIN t.path = 1 .. Len(s.path) + 1
         /\ Len(s.path) \in Nat
         /\ t.path[Len(s.path) + 1] = n /\ \A i \in DOMAIN s.path : t.path[i] = s.path[i]
         /\ \A m \in Node : t.colour[m] = "white" => m # n /\ s.colour[m] = "white"
         /\ \A m \in Node : s.colour[m] # "white" => t.colour[m] # "white"
         /\ n \notin Range(s.path)
<1>1. /\ n \in Node /\ s.path \in Seq(Node) /\ s.colour \in [Node -> Colours]
      /\ t.path = Append(s.path, n) /\ s.colour[n] = "white"
  BY DfsParts DEF Enters, Typed
<1>2. t.colour[n] = "gray" /\ \A m \in Node : m # n => t.colour[m] = s.colour[m]
  BY <1>1 DEF Enters, Grayed
<1>3. /\ Range(t.path) = Range(s.path) \cup {n}
      /\ DOMAIN t.path = 1 .. Len(s.path) + 1 /\ t.path[Len(s.path) + 1] = n
      /\ \A i \in 1 .. Len(s.path) : t.path[i] = s.path[i]
      /\ \A i : i \in 1 .. Len(s.path) + 1 <=> i \in 1 .. Len(s.path) \/ i = Len(s.path) + 1
      /\ DOMAIN s.path = 1 .. Len(s.path) /\ Len(s.path) \in Nat
  BY <1>1, OneMore
<1>4. n \notin Range(s.path) /\ Black(t) = Black(s)
  BY <1>1, <1>2 DEF PathIsGray, Black
<1>5. \A m \in Node : m \in Range(t.path) => t.colour[m] = "gray"
  BY <1>2, <1>3, <1>4 DEF PathIsGray
<1>6. \A i, j \in DOMAIN t.path : t.path[i] = t.path[j] => i = j
  <2>1. \A i \in 1 .. Len(s.path) : s.path[i] \in Range(s.path)
    BY <1>3 DEF Range
  <2> QED BY <1>3, <1>4, <2>1 DEF PathIsGray
<1>7. ASSUME NEW i \in DOMAIN t.path, i + 1 \in DOMAIN t.path
      PROVE  <<t.path[i], t.path[i + 1]>> \in P
  <2>1. i \in DOMAIN s.path
    BY <1>3, <1>7
  <2>2. CASE i + 1 \in DOMAIN s.path
    BY <1>3, <2>1, <2>2 DEF PathIsChain
  <2>3. CASE i + 1 \notin DOMAIN s.path
    <3>1. i = Len(s.path) /\ s.path # <<>>
      BY <1>3, <1>7, <2>1, <2>3
    <3>2. t.path[i] = Last(s.path) /\ t.path[i + 1] = n
      BY <1>3, <2>1, <3>1 DEF Last
    <3> QED BY <3>1, <3>2
  <2> QED BY <2>2, <2>3
<1>8. PathIsGray(t) /\ PathIsChain(t, P)
  BY <1>5, <1>6, <1>7 DEF PathIsGray, PathIsChain
<1>9. /\ \A m \in Node : t.colour[m] = "white" => m # n /\ s.colour[m] = "white"
      /\ \A m \in Node : s.colour[m] # "white" => t.colour[m] # "white"
  BY <1>2
<1> QED BY <1>1, <1>3, <1>4, <1>8, <1>9

LEMMA StartsKeeps ==
  ASSUME NEW P, NEW V \in SUBSET Node, NEW s, Searching(s, P, V), NEW t \in Dfs, Starts(s, t)
  PROVE  Searching(t, P, V)
<1> DEFINE n == Head(s.roots)
<1>1. /\ s.path = <<>> /\ s.roots # <<>> /\ s.roots \in Seq(Node) /\ t.roots = Tail(s.roots)
      /\ t.rest = s.rest /\ t.cycles = s.cycles /\ s \in Dfs
  BY DfsParts DEF Starts, Enters, Searching, Typed
<1>2. Range(s.roots) = Range(t.roots) \cup {n}
  BY <1>1, HeadAndTail
<1> HIDE DEF n
<1>3. CASE Enters(s, t, n)
  <2>1. /\ PathIsGray(t) /\ PathIsChain(t, P) /\ Black(t) = Black(s)
        /\ DOMAIN t.path = 1 .. Len(s.path) + 1 /\ t.path[Len(s.path) + 1] = n
        /\ \A m \in Node : t.colour[m] = "white" => m # n /\ s.colour[m] = "white"
        /\ \A m \in Node : s.colour[m] # "white" => t.colour[m] # "white"
    <3>1. PathIsGray(s) /\ PathIsChain(s, P)
      BY DEF Searching
    <3>2. s \in Dfs /\ (s.path = <<>> \/ <<Last(s.path), n>> \in P)
      BY <1>1
    <3> QED BY <1>3, <3>1, <3>2, EntersKeepsPath
  <2>2. n \in Node /\ s.colour[n] = "white" /\ t.colour[n] # "white"
    BY <1>3, <2>1 DEF Enters
  <2>3. Pending(t, P)
    BY <1>1, <2>1 DEF Pending, Searching
  <2>4. \A m \in V : m \in Range(t.roots) \/ t.colour[m] # "white"
    BY <1>2, <2>1, <2>2 DEF Searching
  <2>5. PathIsOpen(t, P)
    <3>1. DOMAIN t.path = {1} /\ t.path[1] = n
      BY <1>1, <2>1
    <3>2. After(P, n) = Range(t.rest[n])
      BY <1>1, <2>2 DEF Pending, Searching
    <3> QED BY <3>1, <3>2 DEF PathIsOpen
  <2>6. t.cycles = {} => BlackIsDone(t, P)
    BY <1>1, <2>1 DEF BlackIsDone, Searching
  <2> QED BY <1>1, <2>1, <2>3, <2>4, <2>5, <2>6 DEF Searching
<1>4. CASE Stays(s, t) /\ s.colour[n] # "white"
  <2>1. t.colour = s.colour /\ t.path = s.path
    BY <1>4 DEF Stays
  <2>2. /\ PathIsGray(t) /\ PathIsChain(t, P) /\ Pending(t, P) /\ Black(t) = Black(s)
        /\ t.cycles = {} => BlackIsDone(t, P) /\ PathIsOpen(t, P)
    BY <1>1, <2>1 DEF Searching, PathIsGray, PathIsChain, Pending, Black, BlackIsDone, PathIsOpen
  <2>3. \A m \in V : m \in Range(t.roots) \/ t.colour[m] # "white"
    BY <1>2, <1>4, <2>1 DEF Searching
  <2> QED BY <1>1, <2>2, <2>3 DEF Searching
<1> QED BY <1>3, <1>4 DEF Starts, n

\* Backing out of a node that has nothing left to yield.
LEMMA LeavesKeeps ==
  ASSUME NEW P, NEW V \in SUBSET Node, NEW s, Searching(s, P, V), NEW t \in Dfs, Leaves(s, t)
  PROVE  Searching(t, P, V)
<1> DEFINE n == Last(s.path)
           k == Len(s.path)
<1>1. /\ s.path # <<>> /\ s.path \in Seq(Node) /\ s.colour \in [Node -> Colours]
      /\ s.rest[n] = <<>> /\ t.path = Front(s.path) /\ t.rest = s.rest /\ t.roots = s.roots
      /\ t.cycles = s.cycles /\ s \in Dfs
  BY DfsParts DEF Leaves, Searching, Typed
<1>2. /\ n \in Node /\ k \in Nat \ {0} /\ DOMAIN s.path = 1 .. k /\ s.path[k] = n
      /\ DOMAIN t.path = 1 .. k - 1 /\ \A i \in 1 .. k - 1 : t.path[i] = s.path[i]
  BY <1>1 DEF Last, Front
<1>3. t.colour[n] = "black" /\ \A m \in Node : m # n => t.colour[m] = s.colour[m]
  BY <1>1, <1>2 DEF Leaves
<1> HIDE DEF n, k
<1>4. \A i \in 1 .. k - 1 : i \in DOMAIN s.path /\ i # k /\ t.path[i] # n
  BY <1>2 DEF Searching, PathIsGray
<1>5. PathIsGray(t) /\ PathIsChain(t, P)
  <2>1. ASSUME NEW i \in DOMAIN t.path PROVE t.colour[t.path[i]] = "gray"
    <3>1. i \in DOMAIN s.path /\ t.path[i] = s.path[i] /\ t.path[i] # n
      BY <1>2, <1>4, <2>1
    <3>2. s.path[i] \in Node /\ s.path[i] \in Range(s.path)
      BY <1>1, <3>1 DEF Range
    <3> QED BY <1>3, <3>1, <3>2 DEF Searching, PathIsGray
  <2>2. \A i, j \in DOMAIN t.path : t.path[i] = t.path[j] => i = j
    BY <1>2, <1>4 DEF Searching, PathIsGray
  <2>3. \A i \in DOMAIN t.path : i + 1 \in DOMAIN t.path => <<t.path[i], t.path[i + 1]>> \in P
    BY <1>2, <1>4 DEF Searching, PathIsChain
  <2> QED BY <2>1, <2>2, <2>3 DEF PathIsGray, PathIsChain, Range
<1>6. s.colour[n] = "gray"
  <2>1. n \in Range(s.path)
    BY <1>2 DEF Range
  <2> QED BY <1>2, <2>1 DEF Searching, PathIsGray
<1>7. Pending(t, P) /\ \A m \in V : m \in Range(t.roots) \/ t.colour[m] # "white"
  <2>1. \A m \in Node : t.colour[m] = "white" <=> s.colour[m] = "white"
    BY <1>2, <1>3, <1>6
  <2> QED BY <1>1, <2>1 DEF Searching, Pending
<1>8. Black(t) = Black(s) \cup {n} /\ n \notin Black(s)
  BY <1>2, <1>3, <1>6 DEF Black
<1>9. ASSUME t.cycles = {} PROVE BlackIsDone(t, P) /\ PathIsOpen(t, P)
  <2>1. BlackIsDone(s, P) /\ PathIsOpen(s, P)
    BY <1>1, <1>9 DEF Searching
  <2>2. After(P, n) \subseteq Black(s)
    <3>1. k \in DOMAIN s.path /\ k + 1 \notin DOMAIN s.path /\ Range(s.rest[n]) = {}
      BY <1>1, <1>2 DEF Range
    <3> QED BY <1>2, <2>1, <3>1 DEF PathIsOpen
  <2>3. Ordered(Black(t), P)
    <3> SUFFICES ASSUME NEW T \in SUBSET Black(t), T # {}
                 PROVE  \E x \in T : \A m \in T : <<m, x>> \notin P
      BY DEF Ordered
    <3>1. CASE n \notin T
      BY <1>8, <2>1, <3>1 DEF BlackIsDone, Ordered
    <3>2. CASE n \in T
      <4>1. ASSUME NEW m \in T, <<m, n>> \in P PROVE FALSE
        <5>1. n \in After(P, m)
          BY <1>2, <4>1 DEF After
        <5> QED BY <1>8, <2>1, <2>2, <5>1 DEF BlackIsDone
      <4> QED BY <3>2, <4>1
    <3> QED BY <3>1, <3>2
  <2>4. \A m \in Black(t) : After(P, m) \subseteq Black(t)
    BY <1>8, <2>1, <2>2 DEF BlackIsDone
  <2>5. PathIsOpen(t, P)
    <3> SUFFICES ASSUME NEW i \in DOMAIN t.path, NEW m \in After(P, t.path[i])
                 PROVE  \/ m \in Range(t.rest[t.path[i]]) \/ m \in Black(t)
                        \/ i + 1 \in DOMAIN t.path /\ m = t.path[i + 1]
      BY DEF PathIsOpen
    <3>1. i \in DOMAIN s.path /\ t.path[i] = s.path[i]
      BY <1>2, <1>4
    <3>2. \/ m \in Range(s.rest[s.path[i]]) \/ m \in Black(s)
          \/ i + 1 \in DOMAIN s.path /\ m = s.path[i + 1]
      BY <2>1, <3>1 DEF PathIsOpen
    <3>3. CASE i + 1 \in DOMAIN s.path /\ m = s.path[i + 1]
      <4>1. i + 1 \in DOMAIN t.path \/ i + 1 = k
        BY <1>2, <3>3
      <4> QED BY <1>2, <1>8, <3>3, <4>1
    <3> QED BY <1>1, <1>8, <3>1, <3>2, <3>3
  <2> QED BY <2>3, <2>4, <2>5 DEF BlackIsDone
<1>10. \A c \in t.cycles : Circle(c, P)
  BY <1>1 DEF Searching
<1> QED BY <1>5, <1>7, <1>9, <1>10 DEF Searching

\* The path from a gray node on, which its last node leads back to.
LEMMA PathFromIsCircle ==
  ASSUME NEW P, NEW p \in Seq(Node), NEW i \in DOMAIN p,
         \A j \in DOMAIN p : j + 1 \in DOMAIN p => <<p[j], p[j + 1]>> \in P,
         \A j, h \in DOMAIN p : p[j] = p[h] => j = h,
         <<Last(p), p[i]>> \in P
  PROVE  Circle(SubSeq(p, i, Len(p)), P)
<1> DEFINE c == SubSeq(p, i, Len(p))
           k == Len(p)
<1>1. k \in Nat /\ DOMAIN p = 1 .. k /\ i \in 1 .. k /\ Last(p) = p[k]
  BY DEF Last
<1>2. /\ c \in Seq(Node) /\ Len(c) = k - i + 1 /\ DOMAIN c = 1 .. k - i + 1
      /\ \A j \in 1 .. k - i + 1 : c[j] = p[i + j - 1]
  BY <1>1
<1> HIDE DEF c, k
<1>3. c # <<>>
  BY <1>1, <1>2
<1>4. ASSUME NEW j \in DOMAIN c
      PROVE  <<c[j], c[IF j = Len(c) THEN 1 ELSE j + 1]>> \in P
  <2>1. CASE j = Len(c)
    <3>1. /\ j \in 1 .. k - i + 1 /\ 1 \in 1 .. k - i + 1
          /\ i + j - 1 = k /\ i + 1 - 1 = i
      BY <1>1, <1>2, <2>1
    <3>2. c[j] = p[k] /\ c[1] = p[i]
      BY <1>2, <3>1
    <3> QED BY <1>1, <2>1, <3>2
  <2>2. CASE j # Len(c)
    <3>1. /\ j \in 1 .. k - i + 1 /\ j + 1 \in 1 .. k - i + 1
          /\ i + j - 1 \in DOMAIN p /\ (i + j - 1) + 1 \in DOMAIN p
          /\ i + (j + 1) - 1 = (i + j - 1) + 1
      <4>1. j \in 1 .. k - i + 1 /\ j # k - i + 1 /\ i \in 1 .. k /\ k \in Nat
        BY <1>1, <1>2, <2>2
      <4>2. i + j - 1 \in 1 .. k /\ (i + j - 1) + 1 \in 1 .. k
        BY <4>1
      <4> QED BY <1>1, <4>1, <4>2
    <3>2. c[j] = p[i + j - 1] /\ c[j + 1] = p[(i + j - 1) + 1]
      BY <1>2, <3>1
    <3> QED BY <2>2, <3>1, <3>2
  <2> QED BY <2>1, <2>2
<1>5. ASSUME NEW j \in DOMAIN c, NEW h \in DOMAIN c, c[j] = c[h] PROVE j = h
  <2>1. i + j - 1 \in DOMAIN p /\ i + h - 1 \in DOMAIN p
    <3>1. j \in 1 .. k - i + 1 /\ h \in 1 .. k - i + 1
      BY <1>2
    <3>2. i + j - 1 \in 1 .. k /\ i + h - 1 \in 1 .. k
      BY <1>1, <3>1
    <3> QED BY <1>1, <3>2
  <2>2. p[i + j - 1] = p[i + h - 1]
    BY <1>2, <1>5
  <2>3. i + j - 1 = i + h - 1
    BY <2>1, <2>2
  <2> QED BY <1>1, <1>2, <2>3
<1>6. Circle(c, P)
  BY <1>2, <1>3, <1>4, <1>5 DEF Circle
<1> QED BY <1>6 DEF c, k

\* Looking at the next successor of the last node.
LEMMA LooksKeeps ==
  ASSUME NEW P, NEW V \in SUBSET Node, NEW s, Searching(s, P, V), NEW t \in Dfs, Looks(s, t)
  PROVE  Searching(t, P, V)
<1> DEFINE n == Last(s.path)
           m == Head(s.rest[n])
           k == Len(s.path)
<1>1. /\ s.path # <<>> /\ s.path \in Seq(Node) /\ s.colour \in [Node -> Colours]
      /\ s.rest \in Lists /\ s.rest[n] # <<>>
      /\ t.rest = [s.rest EXCEPT ![n] = Tail(s.rest[n])] /\ t.roots = s.roots /\ s \in Dfs
  BY DfsParts DEF Looks, Searching, Typed
<1>2. /\ n \in Node /\ k \in Nat \ {0} /\ DOMAIN s.path = 1 .. k /\ s.path[k] = n
      /\ n \in Range(s.path)
  BY <1>1 DEF Last, Range
<1>3. /\ m \in Node /\ t.rest[n] = Tail(s.rest[n])
      /\ Range(s.rest[n]) = Range(t.rest[n]) \cup {m}
      /\ \A x \in Node : x # n => t.rest[x] = s.rest[x]
  <2>1. s.rest[n] \in Seq(Node)
    BY <1>1, <1>2 DEF Lists
  <2>2. t.rest[n] = Tail(s.rest[n]) /\ \A x \in Node : x # n => t.rest[x] = s.rest[x]
    BY <1>1, <1>2 DEF Lists
  <2> QED BY <1>1, <2>1, <2>2, HeadAndTail
<1>4. <<n, m>> \in P /\ s.colour[n] = "gray"
  <2>1. m \in After(P, n)
    BY <1>2, <1>3 DEF Searching, Pending
  <2> QED BY <1>2, <2>1 DEF After, Searching, PathIsGray
<1>5. CASE Enters(s, t, m)
  <2> HIDE DEF k, n, m
  <2>1. /\ PathIsGray(t) /\ PathIsChain(t, P) /\ Black(t) = Black(s)
        /\ DOMAIN t.path = 1 .. k + 1 /\ t.path[k + 1] = m
        /\ \A i \in DOMAIN s.path : t.path[i] = s.path[i]
        /\ \A x \in Node : t.colour[x] = "white" => x # m /\ s.colour[x] = "white"
        /\ \A x \in Node : s.colour[x] # "white" => t.colour[x] # "white"
    <3>1. PathIsGray(s) /\ PathIsChain(s, P) /\ <<Last(s.path), m>> \in P
      BY <1>4 DEF Searching, n
    <3> QED BY <1>1, <1>5, <3>1, EntersKeepsPath DEF k
  <2>2. t.cycles = s.cycles /\ s.colour[m] = "white" /\ m # n
    BY <1>4, <1>5 DEF Enters
  <2>3. Pending(t, P)
    <3> SUFFICES ASSUME NEW x \in Node
                 PROVE  /\ Range(t.rest[x]) \subseteq After(P, x)
                        /\ t.colour[x] = "white" => Range(t.rest[x]) = After(P, x)
      BY DEF Pending
    <3>1. /\ Range(s.rest[x]) \subseteq After(P, x)
          /\ s.colour[x] = "white" => Range(s.rest[x]) = After(P, x)
      BY DEF Searching, Pending
    <3>2. Range(t.rest[x]) \subseteq Range(s.rest[x])
      BY <1>3
    <3>3. t.colour[x] = "white" => s.colour[x] = "white" /\ x # n
      BY <1>4, <2>1
    <3> QED BY <1>3, <3>1, <3>2, <3>3
  <2>4. ASSUME s.cycles = {} PROVE PathIsOpen(t, P)
    <3> SUFFICES ASSUME NEW i \in DOMAIN t.path, NEW j \in After(P, t.path[i])
                 PROVE  \/ j \in Range(t.rest[t.path[i]]) \/ j \in Black(t)
                        \/ i + 1 \in DOMAIN t.path /\ j = t.path[i + 1]
      BY DEF PathIsOpen
    <3>1. CASE i \in DOMAIN s.path
      <4>1. t.path[i] = s.path[i] /\ s.path[i] \in Node
        BY <1>1, <2>1, <3>1
      <4>2. \/ j \in Range(s.rest[s.path[i]]) \/ j \in Black(s)
            \/ i + 1 \in DOMAIN s.path /\ j = s.path[i + 1]
        BY <2>4, <3>1, <4>1 DEF Searching, PathIsOpen
      <4>3. CASE j \in Range(s.rest[s.path[i]])
        <5>1. CASE s.path[i] = n
          <6>1. i = k /\ i + 1 \in DOMAIN t.path
            <7>1. i = k
              BY <1>2, <3>1, <5>1 DEF Searching, PathIsGray
            <7> QED BY <1>2, <2>1, <7>1
          <6> QED BY <1>3, <2>1, <4>1, <4>3, <5>1, <6>1
        <5>2. CASE s.path[i] # n
          BY <1>3, <4>1, <4>3, <5>2
        <5> QED BY <5>1, <5>2
      <4>4. CASE i + 1 \in DOMAIN s.path /\ j = s.path[i + 1]
        <5>1. i + 1 \in DOMAIN t.path
          BY <1>2, <2>1, <4>4
        <5> QED BY <2>1, <4>4, <5>1
      <4> QED BY <2>1, <4>2, <4>3, <4>4
    <3>2. CASE i \notin DOMAIN s.path
      <4>1. t.path[i] = m
        BY <1>2, <2>1, <3>2
      <4>2. Range(t.rest[m]) = After(P, m)
        BY <1>3, <2>2 DEF Searching, Pending
      <4> QED BY <4>1, <4>2
    <3> QED BY <3>1, <3>2
  <2>5. s.cycles = {} => BlackIsDone(t, P)
    BY <2>1 DEF Searching, BlackIsDone
  <2>6. /\ \A c \in t.cycles : Circle(c, P)
        /\ \A x \in V : x \in Range(t.roots) \/ t.colour[x] # "white"
    BY <1>1, <2>1, <2>2 DEF Searching
  <2> QED BY <2>1, <2>2, <2>3, <2>4, <2>5, <2>6 DEF Searching
<1>6. ASSUME Stays(s, t)
      PROVE  /\ PathIsGray(t) /\ PathIsChain(t, P) /\ Pending(t, P) /\ Black(t) = Black(s)
             /\ \A x \in V : x \in Range(t.roots) \/ t.colour[x] # "white"
             /\ t.path = s.path
  <2> HIDE DEF k, n, m
  <2>1. t.colour = s.colour /\ t.path = s.path
    BY <1>6 DEF Stays
  <2>2. PathIsGray(t) /\ PathIsChain(t, P) /\ Black(t) = Black(s)
    BY <2>1 DEF Searching, PathIsGray, PathIsChain, Black
  <2>3. Pending(t, P)
    BY <1>3, <1>4, <2>1 DEF Searching, Pending
  <2> QED BY <1>1, <2>1, <2>2, <2>3 DEF Searching
<1>7. CASE /\ Stays(s, t)
           /\ \E i \in DOMAIN s.path :
                s.path[i] = m /\ t.cycles = s.cycles \cup {SubSeq(s.path, i, Len(s.path))}
  <2>1. PICK i \in DOMAIN s.path :
          s.path[i] = m /\ t.cycles = s.cycles \cup {SubSeq(s.path, i, Len(s.path))}
    BY <1>7
  <2> DEFINE c == SubSeq(s.path, i, Len(s.path))
  <2>2. Circle(c, P)
    <3>1. <<Last(s.path), s.path[i]>> \in P
      BY <1>4, <2>1
    <3> QED BY <1>1, <3>1, PathFromIsCircle DEF Searching, PathIsChain, PathIsGray
  <2>3. t.cycles = s.cycles \cup {c}
    BY <2>1
  <2> HIDE DEF c, k, n, m
  <2> QED BY <1>6, <1>7, <2>2, <2>3 DEF Searching
<1>8. CASE Stays(s, t) /\ s.colour[m] = "black" /\ t.cycles = s.cycles
  <2> HIDE DEF k, n, m
  <2>1. m \in Black(s)
    BY <1>3, <1>8 DEF Black
  <2>2. ASSUME s.cycles = {} PROVE PathIsOpen(t, P)
    <3> SUFFICES ASSUME NEW i \in DOMAIN t.path, NEW j \in After(P, t.path[i])
                 PROVE  \/ j \in Range(t.rest[t.path[i]]) \/ j \in Black(t)
                        \/ i + 1 \in DOMAIN t.path /\ j = t.path[i + 1]
      BY DEF PathIsOpen
    <3>1. t.path = s.path /\ Black(t) = Black(s) /\ s.path[i] \in Node
      BY <1>1, <1>6, <1>8
    <3>2. \/ j \in Range(s.rest[s.path[i]]) \/ j \in Black(s)
          \/ i + 1 \in DOMAIN s.path /\ j = s.path[i + 1]
      BY <2>2, <3>1 DEF Searching, PathIsOpen
    <3>3. j \in Range(s.rest[s.path[i]]) => j \in Range(t.rest[s.path[i]]) \/ j = m
      BY <1>3, <3>1
    <3> QED BY <2>1, <3>1, <3>2, <3>3
  <2>3. s.cycles = {} => BlackIsDone(t, P)
    BY <1>6, <1>8 DEF Searching, BlackIsDone
  <2> QED BY <1>6, <1>8, <2>2, <2>3 DEF Searching
<1> QED BY <1>5, <1>7, <1>8 DEF Looks
-----------------------------------------------------------------------------
\* The search ends, and then there is nothing on the path and no root left.
LEMMA DfsFinds ==
  ASSUME IsFiniteSet(Node), NEW P, NEW V \in SUBSET Node,
         NEW adj \in Lists, \A n \in Node : Range(adj[n]) = After(P, n),
         NEW roots \in Seq(Node), Range(roots) = V
  PROVE  \E s : /\ DetectCycles(adj, roots) = s.cycles
                /\ Searching(s, P, V) /\ s.path = <<>> /\ s.roots = <<>>
<1> DEFINE start == [colour |-> [n \in Node |-> "white"], path |-> <<>>,
                     rest |-> adj, roots |-> roots, cycles |-> {}]
           dfs == CHOOSE g : g = [s \in Dfs |-> IF s.path = <<>> /\ s.roots = <<>> THEN s
                                                ELSE g[DfsStep(s)]]
           step == [s \in Dfs |-> IF s \in DfsDone THEN s ELSE DfsStep(s)]
           I == {s \in Dfs : Searching(s, P, V)}
<1>1. DetectCycles(adj, roots) = dfs[start].cycles
  BY DEF DetectCycles
<1>2. step \in [Dfs -> Dfs] /\ DfsDone \in SUBSET Dfs
  BY DfsTurn DEF DfsDone
<1>3. \A g : Runs(g, Dfs, step, DfsDone)
        <=> g = [s \in Dfs |-> IF s.path = <<>> /\ s.roots = <<>> THEN s ELSE g[DfsStep(s)]]
  BY DEF Runs, DfsDone
<1>4. Runs(dfs, Dfs, step, DfsDone)
  <2>1. \E g : Runs(g, Dfs, step, DfsDone)
    <3> HIDE DEF step
    <3> QED BY <1>2, RunsExist
  <2> HIDE DEF step
  <2> QED BY <1>3, <2>1
<1> HIDE DEF dfs
<1>5. \A S \in SUBSET (Dfs \ DfsDone) : S # {} => \E x \in S : step[x] \notin S
  BY DfsEnds
<1>6. start \in I
  <2>1. /\ start.colour = [n \in Node |-> "white"] /\ start.path = <<>> /\ start.rest = adj
        /\ start.roots = roots /\ start.cycles = {}
    OBVIOUS
  <2>2. Range(<<>>) = {} /\ DOMAIN <<>> = {}
    BY DEF Range
  <2>3. start \in Dfs
    <3>1. Whole(start)
      BY DEF Whole
    <3> HIDE DEF start
    <3>2. Typed(start)
      BY <2>1 DEF Typed, Colours
    <3>3. \A n \in Node : start.colour[n] # "gray"
      BY <2>1
    <3> QED BY <3>1, <3>2, <3>3, WholeIsDfs
  <2> HIDE DEF start
  <2>4. PathIsGray(start) /\ PathIsChain(start, P) /\ PathIsOpen(start, P)
    BY <2>1, <2>2 DEF PathIsGray, PathIsChain, PathIsOpen
  <2>5. Pending(start, P)
    BY <2>1 DEF Pending
  <2>6. BlackIsDone(start, P)
    <3>1. Black(start) = {}
      BY <2>1 DEF Black
    <3> QED BY <3>1 DEF BlackIsDone, Ordered
  <2>7. Searching(start, P, V)
    BY <2>1, <2>3, <2>4, <2>5, <2>6 DEF Searching
  <2> QED BY <2>3, <2>7
<1>7. ASSUME NEW s \in I \ DfsDone PROVE step[s] \in I
  <2> DEFINE t == DfsStep(s)
  <2>1. step[s] = t /\ s \in Dfs \ DfsDone /\ Searching(s, P, V)
    BY <1>7
  <2>2. t \in Dfs /\ (Starts(s, t) \/ Leaves(s, t) \/ Looks(s, t))
    BY <2>1, DfsTurn
  <2> HIDE DEF t
  <2>3. Searching(t, P, V)
    BY <2>1, <2>2, StartsKeeps, LeavesKeeps, LooksKeeps
  <2> QED BY <2>1, <2>2, <2>3
<1>8. dfs[start] \in I \cap DfsDone
  <2> HIDE DEF step, start, I
  <2>1. I \in SUBSET Dfs
    BY DEF I
  <2> QED BY <1>2, <1>4, <1>5, <1>6, <1>7, <2>1, RunsEnd
<1> DEFINE s == dfs[start]
<1>9. Searching(s, P, V) /\ s.path = <<>> /\ s.roots = <<>>
  BY <1>8 DEF DfsDone
<1> HIDE DEF s, start
<1> QED BY <1>1, <1>9 DEF s

LEMMA CyclesAreExact ==
  ASSUME IsFiniteSet(Node), NEW es \in SUBSET AllEdges,
         NEW adj \in Adjacencies(PrecedencePairs(es)), NEW roots \in SetToSeqs(Nodes(es))
  PROVE  CyclesAreFound(es, adj, roots)
<1> DEFINE P == PrecedencePairs(es)
           V == Nodes(es)
<1>1. V \in SUBSET Node
  BY DEF Nodes, AllEdges
<1>2. /\ P \subseteq Node \X Node
      /\ \A x \in P : x[1] \in V /\ x[2] \in V /\ ComesBefore(es, x[1], x[2])
  BY PrecedencePairsAreOfNodes
<1>3. \A m, n : ComesBefore(es, m, n) => <<m, n>> \in P
  <2> SUFFICES ASSUME NEW m, NEW n, ComesBefore(es, m, n) PROVE <<m, n>> \in P
    OBVIOUS
  <2>1. PICK e \in es : \/ e.type = "blocked-by" /\ e.src = n /\ e.dst = m
                        \/ e.type = "feeds-into" /\ e.src = m /\ e.dst = n
    BY DEF ComesBefore
  <2>2. Ordering(e) /\ PrecedencePair(e) = <<m, n>>
    BY <2>1 DEF Ordering, OrderingTypes, PrecedencePair
  <2> QED BY <2>2 DEF PrecedencePairs
<1>4. /\ adj \in Lists /\ \A n \in Node : Range(adj[n]) = After(P, n)
      /\ roots \in Seq(Node) /\ Range(roots) = V
  <2>1. adj \in Lists /\ \A n \in Node : Range(adj[n]) = After(P, n)
    BY ListsHoldSuccessors
  <2>2. IsFiniteSet(V)
    BY <1>1, FS_Subset
  <2> HIDE DEF V
  <2>3. roots \in Seq(V) /\ Range(roots) = V
    <3>1. roots \in SetToSeqs(V)
      BY DEF V
    <3> QED BY <2>2, <3>1, OrderingsOfASet
  <2> QED BY <1>1, <2>1, <2>3
<1> HIDE DEF P, V
<1>5. PICK s : /\ DetectCycles(adj, roots) = s.cycles
               /\ Searching(s, P, V) /\ s.path = <<>> /\ s.roots = <<>>
  BY <1>1, <1>4, DfsFinds
<1>6. \A c \in s.cycles : Circle(c, P)
  BY <1>5 DEF Searching
<1>7. ASSUME NEW c \in s.cycles, NoCircularWait(es) PROVE FALSE
  <2>1. /\ c \in Seq(Node) /\ c # <<>>
        /\ \A i \in DOMAIN c : ComesBefore(es, c[i], c[IF i = Len(c) THEN 1 ELSE i + 1])
    <3>1. Circle(c, P)
      BY <1>6
    <3> QED BY <1>2, <3>1 DEF Circle
  <2>2. DOMAIN c = 1 .. Len(c) /\ Len(c) \in Nat \ {0}
    BY <2>1
  <2> DEFINE S == Range(c)
  <2>3. S \in SUBSET Node /\ S # {}
    BY <2>1, <2>2 DEF Range
  <2>4. PICK n \in S : \A m \in S : ~ComesBefore(es, m, n)
    <3> HIDE DEF S
    <3> QED BY <1>7, <2>3 DEF NoCircularWait
  <2>5. PICK j \in DOMAIN c : c[j] = n
    BY DEF Range
  <2>6. PICK i \in DOMAIN c : j = IF i = Len(c) THEN 1 ELSE i + 1
    <3>1. CASE j = 1
      BY <2>2, <3>1
    <3>2. CASE j # 1
      <4>1. j - 1 \in DOMAIN c /\ j - 1 # Len(c) /\ j = (j - 1) + 1
        BY <2>2, <3>2
      <4> QED BY <4>1
    <3> QED BY <3>1, <3>2
  <2>7. ComesBefore(es, c[i], n) /\ c[i] \in S
    BY <2>1, <2>5, <2>6 DEF Range
  <2> QED BY <2>4, <2>7
<1>8. ASSUME s.cycles = {} PROVE NoCircularWait(es)
  <2>1. BlackIsDone(s, P) /\ PathIsGray(s) /\ s \in Dfs
        /\ \A n \in V : n \in Range(s.roots) \/ s.colour[n] # "white"
    BY <1>5, <1>8 DEF Searching
  <2>2. V \subseteq Black(s)
    <3>1. Range(<<>>) = {}
      BY DEF Range
    <3>2. /\ \A n \in Node : s.colour[n] \in Colours
          /\ \A n \in Node : s.colour[n] = "gray" => n \in Range(s.path)
      BY <2>1, DfsParts DEF Typed
    <3> QED BY <1>1, <1>5, <2>1, <3>1, <3>2 DEF Black, Colours
  <2> SUFFICES ASSUME NEW S \in SUBSET Node, S # {}
               PROVE  \E n \in S : \A m \in S : ~ComesBefore(es, m, n)
    BY DEF NoCircularWait
  <2>3. CASE S \subseteq V
    <3>1. PICK n \in S : \A m \in S : <<m, n>> \notin P
      BY <2>1, <2>2, <2>3 DEF BlackIsDone, Ordered
    <3> QED BY <1>3, <3>1
  <2>4. CASE ~(S \subseteq V)
    <3>1. PICK n \in S : n \notin V
      BY <2>4
    <3>2. \A m \in S : ~ComesBefore(es, m, n)
      <4> SUFFICES ASSUME NEW m \in S, ComesBefore(es, m, n) PROVE FALSE
        OBVIOUS
      <4>1. <<m, n>> \in P
        BY <1>3
      <4> QED BY <1>2, <3>1, <4>1
    <3> QED BY <3>2
  <2> QED BY <2>3, <2>4
<1>9. \A c \in s.cycles : IsCircle(es, c)
  BY <1>2, <1>6 DEF Circle, IsCircle
<1> QED BY <1>5, <1>7, <1>8, <1>9 DEF CyclesAreFound

\* detect_cycles reports something exactly if nodes wait for one another in a circle,
\* and nothing but such circles, on stored graphs of any shape; and transitive_reduction keeps the order of the resolved edges, with none
\* to spare.
THEOREM ReportsAreExact ==
  ASSUME IsFiniteSet(Node), \A l \in InitialLogs : Plausible(l)
  PROVE  Spec => []OrderIsReportedExactly
<1>1. Inv => OrderIsReportedExactly
  <2> SUFFICES ASSUME Inv PROVE OrderIsReportedExactly
    OBVIOUS
  <2>1. log \in Seq(AnyEntry)
    BY DEF Inv, Plausible
  <2>2. EdgesIn(log) \in SUBSET AllEdges
    BY <2>1, EdgesInAreEdges
  <2>3. Resolved(log).edges \in SUBSET AllEdges /\ NoCircularWait(Resolved(log).edges)
    BY <2>1, ResolvedIsSane DEF Sane
  <2> QED BY <2>2, <2>3, CyclesAreExact, ReductionIsExact DEF OrderIsReportedExactly
<1> QED BY <1>1, SpecInv, PTL
=============================================================================
