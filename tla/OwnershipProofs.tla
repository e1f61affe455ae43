-------------------------- MODULE OwnershipProofs --------------------------
(***************************************************************************)
(* Theorems of Ownership, for any sessions and processes, any claims and   *)
(* any sound log to start from.                                            *)
(***************************************************************************)
EXTENDS OwnerFold, SequenceTheorems, FiniteSetTheorems, WellFoundedInduction,
        NaturalsInduction, TLAPS
-----------------------------------------------------------------------------
(***************************************************************************)
(* The newest of a set of positions, by the well-foundedness of < on the   *)
(* naturals.                                                               *)
(***************************************************************************)
Less == {x \in Nat \X Nat : x[1] < x[2]}

LEMMA LessIsWellFounded == IsWellFoundedOn(Less, Nat)
<1>1. OpToRel(<, Nat) = Less
  BY DEF OpToRel, Less
<1> QED BY <1>1, NatLessThanWellFounded

LEMMA HasNewest ==
  ASSUME NEW n \in Nat, NEW S \in SUBSET (1 .. n), S # {}
  PROVE  \E i \in S : \A j \in S : j <= i
<1> DEFINE T == {n - i : i \in S}
<1>1. \A i \in S : i \in Nat /\ n - i \in Nat
  OBVIOUS
<1>2. T \in SUBSET Nat /\ T # {}
  BY <1>1
<1>3. PICK x \in T : \A y \in T : <<y, x>> \notin Less
  <2> HIDE DEF T
  <2> QED BY <1>2, LessIsWellFounded, WFMin
<1>4. PICK i \in S : x = n - i
  BY <1>3
<1>5. ASSUME NEW j \in S PROVE j <= i
  <2>1. <<n - j, n - i>> \notin Less
    BY <1>3, <1>4
  <2>2. ~(n - j < n - i)
    BY <1>1, <2>1 DEF Less
  <2> QED BY <1>1, <2>2
<1> QED BY <1>5

LEMMA LatestIs ==
  ASSUME NEW n \in Nat, NEW S \in SUBSET (1 .. n)
  PROVE  /\ Latest(S) \in S \cup {0} /\ \A j \in S : j <= Latest(S)
         /\ Latest(S) = 0 <=> S = {}
<1>1. \E i \in S \cup {0} : \A j \in S : j <= i
  <2>1. CASE S = {}
    BY <2>1
  <2>2. CASE S # {}
    BY <2>2, HasNewest
  <2> QED BY <2>1, <2>2
<1>2. Latest(S) \in S \cup {0} /\ \A j \in S : j <= Latest(S)
  BY <1>1 DEF Latest
<1>3. \A j \in S : j >= 1
  OBVIOUS
<1>4. Latest(S) = 0 => S = {}
  <2> SUFFICES ASSUME Latest(S) = 0, NEW j \in S PROVE FALSE
    OBVIOUS
  <2> QED BY <1>2, <1>3
<1> QED BY <1>2, <1>4
-----------------------------------------------------------------------------
(***************************************************************************)
(* Events and logs.                                                        *)
(***************************************************************************)
LEMMA EventShape ==
  ASSUME NEW e \in Event
  PROVE  /\ e.type \in {"session_registered", "ownership_declared", "ownership_stood_down"}
         /\ e.node \in Node
         /\ e.type = "session_registered" =>
              e \in Registering /\ e.key = <<"register", e.node>>
         /\ e.type = "ownership_declared" =>
              e \in Declaring /\ e.key = <<"own", e.node, e.anchor>> /\ e.anchor \in Nat
         /\ e.type = "ownership_stood_down" =>
              /\ e \in StandingDown /\ e.from \in Nat /\ e.by \in Writers
              /\ e.claimant \in Node \cup {NoNode}
              /\ e.key = <<"standdown", e.node, e.from, e.by, e.claimant>>
BY DEF Event, KeyFits, ClaimKey, Registering, Declaring, StandingDown

LEMMA MadeRegistered ==
  ASSUME NEW n \in Node, NEW b \in BOOLEAN
  PROVE  /\ Registered(n, b) \in Event /\ Registered(n, b).type = "session_registered"
         /\ Registered(n, b).node = n /\ Registered(n, b).key = <<"register", n>>
         /\ Registered(n, b).eligible = b
BY DEF Registered, Event, KeyFits, Registering

LEMMA MadeDeclared ==
  ASSUME NEW n \in Node, NEW a \in Nat, NEW prior \in Node \cup {NoNode}, NEW b \in Bases
  PROVE  /\ Declared(n, a, prior, b) \in Event
         /\ Declared(n, a, prior, b).type = "ownership_declared"
         /\ Declared(n, a, prior, b).node = n /\ Declared(n, a, prior, b).anchor = a
         /\ Declared(n, a, prior, b).prior = prior /\ Declared(n, a, prior, b).basis = b
         /\ Declared(n, a, prior, b).key = <<"own", n, a>>
BY DEF Declared, Event, KeyFits, ClaimKey, Declaring

LEMMA MadeStoodDown ==
  ASSUME NEW n \in Node, NEW from \in Nat, NEW by \in Writers,
         NEW c \in Node \cup {NoNode}, NEW a \in Nat
  PROVE  /\ StoodDown(n, from, by, c, a) \in Event
         /\ StoodDown(n, from, by, c, a).type = "ownership_stood_down"
         /\ StoodDown(n, from, by, c, a).node = n /\ StoodDown(n, from, by, c, a).from = from
         /\ StoodDown(n, from, by, c, a).by = by /\ StoodDown(n, from, by, c, a).claimant = c
         /\ StoodDown(n, from, by, c, a).claim_key = <<"own", c, a>>
         /\ StoodDown(n, from, by, c, a).key = <<"standdown", n, from, by, c>>
BY DEF StoodDown, Event, KeyFits, ClaimKey, StandingDown

\* A log and the log with one more line.
LEMMA Extend ==
  ASSUME NEW l \in Seq(Event), NEW e \in Event
  PROVE  LET m == Append(l, e)
         IN  /\ m \in Seq(Event) /\ Len(l) \in Nat /\ DOMAIN l = 1 .. Len(l)
             /\ DOMAIN m = 1 .. Len(l) + 1
             /\ \A i \in DOMAIN l : i \in DOMAIN m /\ m[i] = l[i]
             /\ \A i \in DOMAIN l : i < Len(l) + 1 /\ i # Len(l) + 1
             /\ m[Len(l) + 1] = e
OBVIOUS

LEMMA ExtendTypes ==
  ASSUME NEW l \in Seq(Event), NEW e \in Event, NEW t
  PROVE  OfType(Append(l, e), t) = OfType(l, t) \cup {i \in {Len(l) + 1} : e.type = t}
BY Extend DEF OfType

\* What the sets of positions hold.
LEMMA Positions ==
  ASSUME NEW l \in Seq(Event)
  PROVE  /\ Len(l) \in Nat /\ DOMAIN l = 1 .. Len(l)
         /\ \A t : OfType(l, t) \in SUBSET (1 .. Len(l))
         /\ Registrations(l) \in SUBSET (1 .. Len(l))
         /\ Declarations(l) \in SUBSET (1 .. Len(l))
         /\ StandDowns(l) \in SUBSET (1 .. Len(l))
         /\ OwnershipEvents(l) \in SUBSET (1 .. Len(l))
         /\ StandDowns(l) \subseteq OfType(l, "ownership_stood_down")
BY DEF OfType, Registrations, Declarations, StandDowns, OwnershipEvents

\* What the fold says of a sound log.
LEMMA FoldIs ==
  ASSUME NEW l, Sound(l)
  PROVE  LET f == FoldOwner(l)
         IN  /\ f.anchor \in OwnershipEvents(l) \cup {0} /\ f.anchor \in Nat
             /\ \A e \in OwnershipEvents(l) : e <= f.anchor
             /\ f.anchor = 0 <=> OwnershipEvents(l) = {}
             /\ f.hasEvents <=> f.anchor # 0
             /\ f.owner # NoNode =>
                  /\ f.owner \in Node /\ f.declaring \in Declarations(l)
                  /\ l[f.declaring].node = f.owner /\ f.anchor = f.declaring
                  /\ \A s \in StandDowns(l) : l[s].from # f.declaring
             /\ f.owner = NoNode =>
                  \A d \in Declarations(l) : \E s \in StandDowns(l) : Ends(l, s, d)
<1> DEFINE f == FoldOwner(l)
           ended == StandDowns(l)
           D == Latest(Declarations(l))
           standing == D # 0 /\ ~ \E s \in ended : Ends(l, s, D)
           A == Latest(Declarations(l) \cup ended)
<1>1. /\ f.owner = (IF standing THEN l[D].node ELSE NoNode)
      /\ f.declaring = (IF standing THEN D ELSE 0)
      /\ f.anchor = A /\ f.hasEvents = (A # 0)
  BY DEF FoldOwner
<1>2. /\ l \in Seq(Event) /\ Succession(l)
      /\ \A s \in OfType(l, "ownership_stood_down") : Refers(l, s)
  BY DEF Sound
<1>3. /\ Len(l) \in Nat /\ DOMAIN l = 1 .. Len(l)
      /\ Declarations(l) \in SUBSET (1 .. Len(l)) /\ ended \in SUBSET (1 .. Len(l))
      /\ OwnershipEvents(l) \in SUBSET (1 .. Len(l))
      /\ ended \subseteq OfType(l, "ownership_stood_down")
  BY <1>2, Positions
<1>4. /\ D \in Declarations(l) \cup {0} /\ \A d \in Declarations(l) : d <= D
      /\ D = 0 <=> Declarations(l) = {}
  BY <1>3, LatestIs
<1>5. /\ A \in OwnershipEvents(l) \cup {0} /\ \A e \in OwnershipEvents(l) : e <= A
      /\ A = 0 <=> OwnershipEvents(l) = {}
      /\ A \in Nat
  <2>1. A = Latest(OwnershipEvents(l))
    BY DEF OwnershipEvents
  <2> HIDE DEF A
  <2>2. /\ A \in OwnershipEvents(l) \cup {0} /\ \A e \in OwnershipEvents(l) : e <= A
        /\ A = 0 <=> OwnershipEvents(l) = {}
    BY <1>3, <2>1, LatestIs
  <2> QED BY <1>3, <2>2
<1> HIDE DEF f, D, A
<1>6. ASSUME D \in Declarations(l), NEW s \in ended, s > D
      PROVE  l[s].from = D /\ l[s].node = l[D].node
  <2>1. Refers(l, s)
    BY <1>2, <1>3
  <2>2. /\ l[s].from \in Declarations(l) /\ D <= l[s].from
        /\ l[l[s].from].node = l[s].node
    BY <1>3, <1>6, <2>1 DEF Refers
  <2>3. l[s].from <= D /\ l[s].from \in Nat /\ D \in Nat
    BY <1>3, <1>4, <1>6, <2>2
  <2>4. l[s].from = D
    BY <2>2, <2>3
  <2> QED BY <2>2, <2>4
<1>7. ASSUME standing
      PROVE  /\ D \in Declarations(l) /\ l[D].node \in Node /\ A = D
             /\ \A s \in ended : l[s].from # D
  <2>1. D \in Declarations(l) /\ D \in 1 .. Len(l)
    BY <1>3, <1>4, <1>7
  <2>2. l[D].node \in Node
    BY <1>2, <1>3, <2>1, EventShape
  <2>3. ASSUME NEW s \in ended PROVE ~(s > D)
    BY <1>6, <1>7, <2>1, <2>3 DEF Ends
  <2>4. A = D
    <3>1. D \in OwnershipEvents(l) /\ D <= A
      BY <1>5, <2>1 DEF OwnershipEvents
    <3>2. A \in OwnershipEvents(l) /\ A \in 1 .. Len(l)
      BY <1>3, <1>5, <3>1
    <3>3. CASE A \in Declarations(l)
      BY <1>3, <1>4, <2>1, <3>1, <3>2, <3>3
    <3>4. CASE A \in ended
      BY <1>3, <2>1, <2>3, <3>1, <3>2, <3>4
    <3> QED BY <3>2, <3>3, <3>4 DEF OwnershipEvents
  <2>5. ASSUME NEW s \in ended, l[s].from = D PROVE FALSE
    <3>1. Refers(l, s)
      BY <1>2, <1>3
    <3>2. s > D /\ l[s].node = l[D].node
      BY <1>3, <2>1, <2>5, <3>1 DEF Refers
    <3> QED BY <2>3, <3>2
  <2> QED BY <2>1, <2>2, <2>4, <2>5
<1>8. ASSUME ~standing, NEW d \in Declarations(l)
      PROVE  \E s \in ended : Ends(l, s, d)
  <2>1. d <= D /\ D # 0 /\ D \in Declarations(l) /\ D \in Nat /\ d \in Nat
    BY <1>3, <1>4
  <2>2. CASE d = D
    BY <1>8, <2>1, <2>2
  <2>3. CASE d # D
    <3>1. d < D
      BY <2>1, <2>3
    <3> QED BY <1>2, <2>1, <3>1 DEF Succession
  <2> QED BY <2>2, <2>3
<1>9. f.owner # NoNode =>
        /\ f.owner \in Node /\ f.declaring \in Declarations(l)
        /\ l[f.declaring].node = f.owner /\ f.anchor = f.declaring
        /\ \A s \in StandDowns(l) : l[s].from # f.declaring
  BY <1>1, <1>7
<1>10. f.owner = NoNode => \A d \in Declarations(l) : \E s \in StandDowns(l) : Ends(l, s, d)
  <2>1. standing => f.owner # NoNode
    BY <1>1, <1>7, NoNodeAssumption
  <2> QED BY <1>8, <2>1
<1>11. f.hasEvents <=> f.anchor # 0
  <2>1. A # 0 <=> f.anchor # 0
    BY <1>1
  <2> QED BY <1>1, <2>1, Zenon
<1>12. /\ f.anchor \in OwnershipEvents(l) \cup {0} /\ f.anchor \in Nat
       /\ \A e \in OwnershipEvents(l) : e <= f.anchor
       /\ f.anchor = 0 <=> OwnershipEvents(l) = {}
  <2>1. f.anchor = A
    BY <1>1
  <2> QED BY <1>5, <2>1, Zenon
<1> QED BY <1>9, <1>10, <1>11, <1>12, Zenon DEF f
-----------------------------------------------------------------------------
(***************************************************************************)
(* One more line keeps a log sound.                                        *)
(***************************************************************************)
LEMMA SameFold ==
  ASSUME NEW l \in Seq(Event), NEW e \in Event, NEW m, m = Append(l, e),
         Declarations(m) = Declarations(l), StandDowns(m) = StandDowns(l)
  PROVE  FoldOwner(m) = FoldOwner(l)
<1>1. /\ Len(l) \in Nat /\ DOMAIN l = 1 .. Len(l)
      /\ \A i \in DOMAIN l : m[i] = l[i]
  BY Extend
<1>2. /\ Declarations(l) \in SUBSET (1 .. Len(l)) /\ StandDowns(l) \in SUBSET (1 .. Len(l))
  BY Positions
<1> DEFINE D == Latest(Declarations(l))
           A == Latest(Declarations(l) \cup StandDowns(l))
<1>3. D \in Declarations(l) \cup {0} /\ A \in Declarations(l) \cup StandDowns(l) \cup {0}
  <2>1. Declarations(l) \cup StandDowns(l) \in SUBSET (1 .. Len(l))
    BY <1>2
  <2> QED BY <1>1, <1>2, <2>1, LatestIs
<1> HIDE DEF D, A
<1>4. \A s \in StandDowns(l) : D # 0 => (Ends(m, s, D) <=> Ends(l, s, D))
  BY <1>1, <1>2, <1>3 DEF Ends
<1>5. (D # 0 => m[D] = l[D]) /\ (A # 0 => m[A] = l[A])
  BY <1>1, <1>2, <1>3
<1> QED BY <1>4, <1>5 DEF FoldOwner, D, A

\* What the pending line e has to do with the declarations and stand-downs of l.
LEMMA SameEvents ==
  ASSUME NEW l \in Seq(Event), NEW e \in Event, NEW m, m = Append(l, e),
         e.type # "ownership_declared"
  PROVE  /\ Declarations(m) = Declarations(l)
         /\ \A s \in DOMAIN l : Orphaned(m, s) <=> Orphaned(l, s)
         /\ \A s \in DOMAIN l : s \in StandDowns(m) <=> s \in StandDowns(l)
         /\ Len(l) + 1 \in StandDowns(m) <=>
              /\ e.type = "ownership_stood_down"
              /\ \/ e.by # "claimant"
                 \/ \E d \in Declarations(l) :
                      l[d].key = e.claim_key /\ l[d].node = e.claimant
         /\ Len(l) + 1 \notin StandDowns(m) => StandDowns(m) = StandDowns(l)
<1>1. /\ Len(l) \in Nat /\ DOMAIN l = 1 .. Len(l)
      /\ \A i \in DOMAIN l : i \in DOMAIN m /\ m[i] = l[i]
      /\ \A i \in DOMAIN l : i < Len(l) + 1 /\ i # Len(l) + 1
      /\ m[Len(l) + 1] = e
  BY Extend
<1>0. \A t : OfType(m, t) = OfType(l, t) \cup {i \in {Len(l) + 1} : e.type = t}
  BY ExtendTypes
<1>2. Declarations(m) = Declarations(l)
  BY <1>0 DEF Declarations
<1>3. Declarations(l) \subseteq DOMAIN l
  BY DEF Declarations, OfType
<1>4. \A s \in DOMAIN l : Orphaned(m, s) <=> Orphaned(l, s)
  BY <1>1, <1>2, <1>3 DEF Orphaned
<1>5. \A s \in DOMAIN l : s \in OfType(m, "ownership_stood_down")
                            <=> s \in OfType(l, "ownership_stood_down")
  BY <1>0, <1>1
<1>6. Orphaned(m, Len(l) + 1) <=>
        /\ e.by = "claimant"
        /\ ~ \E d \in Declarations(l) : l[d].key = e.claim_key /\ l[d].node = e.claimant
  BY <1>1, <1>2, <1>3 DEF Orphaned
<1>7. Len(l) + 1 \notin OfType(l, "ownership_stood_down")
  BY <1>1 DEF OfType
<1>8. \A s \in DOMAIN l : s \in StandDowns(m) <=> s \in StandDowns(l)
  BY <1>4, <1>5 DEF StandDowns
<1>9. Len(l) + 1 \notin StandDowns(m) => StandDowns(m) = StandDowns(l)
  <2>1. StandDowns(m) \subseteq DOMAIN l \cup {Len(l) + 1} /\ StandDowns(l) \subseteq DOMAIN l
    BY <1>0 DEF StandDowns, OfType
  <2> QED BY <1>8, <2>1
<1> QED BY <1>0, <1>1, <1>2, <1>4, <1>6, <1>7, <1>8, <1>9 DEF StandDowns

\* A line that is no declaration and makes no new stand-down of l effective, and
\* what is left to show of it.
LEMMA StillSound ==
  ASSUME NEW l, Sound(l), NEW e \in Event, NEW m, m = Append(l, e),
         e.type # "ownership_declared", e.key \notin Keys(l),
         e.type = "ownership_stood_down" => Refers(m, Len(l) + 1),
         Len(l) + 1 \in StandDowns(m) => \A s \in StandDowns(l) : l[s].from # e.from
  PROVE  Sound(m)
<1> DEFINE n == Len(l) + 1
<1>1. /\ l \in Seq(Event) /\ Succession(l) /\ Serial(l) /\ FirstClaimRespects(l)
      /\ \A i, j \in DOMAIN l : l[i].key = l[j].key => i = j
      /\ \A s \in OfType(l, "ownership_stood_down") : Refers(l, s)
      /\ \A d \in Declarations(l) : l[d].anchor < d
  BY DEF Sound
<1>2. /\ m \in Seq(Event) /\ Len(l) \in Nat /\ DOMAIN l = 1 .. Len(l) /\ DOMAIN m = 1 .. n
      /\ \A i \in DOMAIN l : i \in DOMAIN m /\ m[i] = l[i]
      /\ \A i \in DOMAIN l : i < n /\ i # n
      /\ m[n] = e /\ DOMAIN m = DOMAIN l \cup {n}
  BY <1>1, Extend
<1>0. \A t : OfType(m, t) = OfType(l, t) \cup {i \in {n} : e.type = t}
  BY <1>1, ExtendTypes
<1>3. /\ Declarations(l) \subseteq DOMAIN l /\ Registrations(l) \subseteq DOMAIN l
      /\ StandDowns(l) \subseteq DOMAIN l /\ OfType(l, "ownership_stood_down") \subseteq DOMAIN l
      /\ StandDowns(l) \subseteq OfType(l, "ownership_stood_down")
  BY <1>1, Positions
<1>4. /\ Declarations(m) = Declarations(l)
      /\ \A s \in DOMAIN l : s \in StandDowns(m) <=> s \in StandDowns(l)
  BY <1>1, SameEvents
<1>5. StandDowns(l) \subseteq StandDowns(m) /\ StandDowns(m) \subseteq StandDowns(l) \cup {n}
  <2>1. StandDowns(m) \subseteq DOMAIN m
    BY DEF StandDowns, OfType
  <2> QED BY <1>2, <1>3, <1>4, <2>1
<1>6. Registrations(l) \subseteq Registrations(m) /\ Registrations(m) \subseteq Registrations(l) \cup {n}
  BY <1>0 DEF Registrations
<1> HIDE DEF n
<1>7. \A i, j \in DOMAIN m : m[i].key = m[j].key => i = j
  <2>1. \A i \in DOMAIN l : m[i].key # e.key
    BY <1>2 DEF Keys
  <2> QED BY <1>1, <1>2, <2>1
<1>8. ASSUME NEW s \in OfType(m, "ownership_stood_down") PROVE Refers(m, s)
  <2>1. CASE s = n
    BY <1>2, <1>8, <2>1 DEF n, OfType
  <2>2. CASE s \in OfType(l, "ownership_stood_down")
    <3>1. Refers(l, s) /\ s \in DOMAIN l
      BY <1>1, <1>3, <2>2
    <3>2. l[s].from \in DOMAIN l
      BY <1>3, <3>1 DEF Refers
    <3> QED BY <1>2, <1>4, <1>6, <3>1, <3>2 DEF Refers
  <2> QED BY <1>0, <2>1, <2>2
<1>9. \A d \in Declarations(m) : m[d].anchor < d
  BY <1>1, <1>2, <1>3, <1>4
<1>10. Succession(m)
  <2>1. ASSUME NEW d \in Declarations(m)
        PROVE  \E r \in Registrations(m) : r < d /\ m[r].node = m[d].node
    BY <1>1, <1>2, <1>3, <1>4, <1>6 DEF Succession
  <2>2. ASSUME NEW c \in Declarations(m), NEW d \in Declarations(m), c < d
        PROVE  \E s \in StandDowns(m) : s < d /\ Ends(m, s, c)
    <3>1. PICK s \in StandDowns(l) : s < d /\ Ends(l, s, c)
      BY <1>1, <1>4, <2>2 DEF Succession
    <3>2. Ends(m, s, c)
      BY <1>2, <1>3, <1>4, <3>1 DEF Ends
    <3> QED BY <1>5, <3>1, <3>2
  <2>3. ASSUME NEW s \in StandDowns(m), NEW t \in StandDowns(m), m[s].from = m[t].from
        PROVE  s = t
    <3>1. CASE s \in StandDowns(l) /\ t \in StandDowns(l)
      BY <1>1, <1>2, <1>3, <2>3, <3>1 DEF Succession
    <3>2. CASE s = n /\ t \in StandDowns(l)
      BY <1>2, <1>3, <2>3, <3>2 DEF n
    <3>3. CASE s \in StandDowns(l) /\ t = n
      BY <1>2, <1>3, <2>3, <3>3 DEF n
    <3> QED BY <1>5, <3>1, <3>2, <3>3
  <2> QED BY <2>1, <2>2, <2>3 DEF Succession
<1>11. Serial(m)
  <2> SUFFICES ASSUME NEW d \in Declarations(m), NEW e1 \in OwnershipEvents(m), e1 < d
               PROVE  \/ e1 <= m[d].anchor
                      \/ /\ e1 \in StandDowns(m) /\ m[e1].by = "claimant"
                         /\ m[e1].claim_key = m[d].key
    BY DEF Serial
  <2>1. d \in DOMAIN l /\ d \in Declarations(l) /\ e1 # n
    BY <1>2, <1>3, <1>4
  <2>2. e1 \in OwnershipEvents(l) /\ e1 \in DOMAIN l
    BY <1>3, <1>4, <1>5, <2>1 DEF OwnershipEvents
  <2> QED BY <1>1, <1>2, <1>5, <2>1, <2>2 DEF Serial, OwnershipEvents
<1>12. FirstClaimRespects(m)
  <2> SUFFICES ASSUME NEW d \in Declarations(m), m[d].anchor = 0
               PROVE  LET r == Latest(Passed(m, d))
                      IN  IF r = 0 THEN m[d].basis = "unowned" ELSE m[d].prior = m[r].node
    BY DEF FirstClaimRespects
  <2>1. d \in DOMAIN l /\ d \in Declarations(l) /\ m[d] = l[d]
    BY <1>2, <1>3, <1>4
  <2>2. Passed(m, d) = Passed(l, d)
    <3>1. ASSUME NEW i PROVE i \in Passed(m, d) <=> i \in Passed(l, d)
      BY <1>2, <1>3, <1>6, <2>1 DEF Passed
    <3> QED BY <3>1
  <2>3. Latest(Passed(l, d)) \in DOMAIN l \cup {0}
    <3>1. Passed(l, d) \in SUBSET (1 .. Len(l))
      BY <1>2, <1>3 DEF Passed
    <3>2. Latest(Passed(l, d)) \in Passed(l, d) \cup {0}
      BY <1>2, <3>1, LatestIs
    <3> QED BY <1>2, <3>1, <3>2
  <2> QED BY <1>1, <1>2, <2>1, <2>2, <2>3 DEF FirstClaimRespects
<1> QED BY <1>2, <1>7, <1>8, <1>9, <1>10, <1>11, <1>12 DEF Sound

-----------------------------------------------------------------------------
(***************************************************************************)
(* The four kinds of line: what each asks of the log before it, and what   *)
(* readers make of the log after it.                                       *)
(***************************************************************************)
LEMMA LegacyIs ==
  ASSUME NEW l \in Seq(Event), NEW o
  PROVE  LET R == {i \in Registrations(l) : l[i].eligible /\ l[i].node # o}
             r == LegacyOwner(l, o)
         IN  /\ r \in R \cup {0} /\ r \in DOMAIN l \cup {0} /\ Latest(R) \in R \cup {0}
             /\ StandDowns(l) = {} => r = Latest(R)
<1> DEFINE R == {i \in Registrations(l) : l[i].eligible /\ l[i].node # o}
<1>1. R \in SUBSET (1 .. Len(l)) /\ Len(l) \in Nat /\ DOMAIN l = 1 .. Len(l)
  BY Positions
<1>2. Latest(R) \in R \cup {0}
  <2> HIDE DEF R
  <2> QED BY <1>1, LatestIs
<1>3. LegacyOwner(l, o) = (IF \E s \in StandDowns(l) : l[s].from = Latest(R) THEN 0 ELSE Latest(R))
  BY DEF LegacyOwner
<1> HIDE DEF R
<1>4. /\ LegacyOwner(l, o) \in R \cup {0} /\ LegacyOwner(l, o) \in DOMAIN l \cup {0}
      /\ StandDowns(l) = {} => LegacyOwner(l, o) = Latest(R)
  BY <1>1, <1>2, <1>3
<1> QED BY <1>2, <1>4 DEF R

LEMMA SameLegacy ==
  ASSUME NEW l \in Seq(Event), NEW e \in Event, NEW m, m = Append(l, e), NEW o,
         StandDowns(m) = StandDowns(l), e.type = "session_registered" => e.node = o
  PROVE  LegacyOwner(m, o) = LegacyOwner(l, o)
<1>1. /\ Len(l) \in Nat /\ DOMAIN l = 1 .. Len(l) /\ \A i \in DOMAIN l : m[i] = l[i]
      /\ m[Len(l) + 1] = e
  BY Extend
<1>2. Registrations(m) = Registrations(l) \cup {i \in {Len(l) + 1} : e.type = "session_registered"}
  BY ExtendTypes DEF Registrations
<1>3. Registrations(l) \subseteq DOMAIN l /\ StandDowns(l) \subseteq DOMAIN l
  BY Positions
<1>4. {i \in Registrations(m) : m[i].eligible /\ m[i].node # o}
        = {i \in Registrations(l) : l[i].eligible /\ l[i].node # o}
  BY <1>1, <1>2, <1>3
<1>5. \A s \in StandDowns(l) : m[s].from = l[s].from
  BY <1>1, <1>3
<1> QED BY <1>4, <1>5 DEF LegacyOwner

\* A registration: only who may have been the legacy owner changes.
LEMMA RegistrationLine ==
  ASSUME NEW l, Sound(l), NEW e \in Event, NEW m, m = Append(l, e),
         e.type = "session_registered", e.key \notin Keys(l)
  PROVE  /\ Sound(m) /\ FoldOwner(m) = FoldOwner(l)
         /\ LegacyOwner(m, e.node) = LegacyOwner(l, e.node)
<1>1. l \in Seq(Event)
  BY DEF Sound
<1>2. /\ Declarations(m) = Declarations(l) /\ Len(l) + 1 \notin StandDowns(m)
      /\ \A s \in DOMAIN l : s \in StandDowns(m) <=> s \in StandDowns(l)
  BY <1>1, SameEvents
<1>3. Sound(m)
  BY <1>2, StillSound
<1>4. StandDowns(m) = StandDowns(l)
  BY <1>1, <1>2, SameEvents
<1>5. FoldOwner(m) = FoldOwner(l)
  BY <1>1, <1>2, <1>4, SameFold
<1>6. LegacyOwner(m, e.node) = LegacyOwner(l, e.node)
  BY <1>1, <1>4, SameLegacy
<1> QED BY <1>3, <1>5, <1>6

\* What decide_claim stands on: n takes over from prior, which event from made owner.
Displaces(l, n, from, prior) ==
  LET f == FoldOwner(l)
  IN  /\ f.owner # n
      /\ from = IF f.owner # NoNode THEN f.declaring
                ELSE IF f.hasEvents THEN 0 ELSE LegacyOwner(l, n)
      /\ prior = IF from = 0 THEN NoNode ELSE l[from].node

LEMMA FromIs ==
  ASSUME NEW l, Sound(l), NEW n \in Node, NEW from, NEW prior, Displaces(l, n, from, prior),
         from # 0
  PROVE  /\ from \in Declarations(l) \cup Registrations(l) /\ from \in 1 .. Len(l)
         /\ prior = l[from].node /\ prior \in Node /\ prior # n
         /\ FoldOwner(l).anchor = IF from \in Declarations(l) THEN from ELSE 0
         /\ \A d \in Declarations(l) : from \in Declarations(l) /\ d <= from
         /\ \A s \in StandDowns(l) : l[s].from # from
         /\ FoldOwner(l).owner # NoNode => FoldOwner(l).owner = prior /\ from \in Declarations(l)
<1> DEFINE f == FoldOwner(l)
<1>1. l \in Seq(Event)
  BY DEF Sound
<1>2. /\ f.anchor \in OwnershipEvents(l) \cup {0} /\ f.anchor \in Nat
      /\ \A e \in OwnershipEvents(l) : e <= f.anchor
      /\ f.anchor = 0 <=> OwnershipEvents(l) = {}
      /\ f.hasEvents <=> f.anchor # 0
      /\ f.owner # NoNode =>
           /\ f.owner \in Node /\ f.declaring \in Declarations(l)
           /\ l[f.declaring].node = f.owner /\ f.anchor = f.declaring
           /\ \A s \in StandDowns(l) : l[s].from # f.declaring
  BY FoldIs
<1>3. /\ Len(l) \in Nat /\ DOMAIN l = 1 .. Len(l)
      /\ Registrations(l) \in SUBSET (1 .. Len(l)) /\ Declarations(l) \in SUBSET (1 .. Len(l))
  BY <1>1, Positions
<1>4. /\ f.owner # n /\ prior = l[from].node
      /\ from = IF f.owner # NoNode THEN f.declaring
                ELSE IF f.hasEvents THEN 0 ELSE LegacyOwner(l, n)
  BY DEF Displaces
<1> HIDE DEF f
<1>5. CASE f.owner # NoNode
  <2>1. from = f.declaring /\ from \in Declarations(l) /\ f.anchor = from /\ prior = f.owner
    BY <1>2, <1>4, <1>5
  <2>2. \A d \in Declarations(l) : d <= from
    BY <1>2, <2>1 DEF OwnershipEvents
  <2> QED BY <1>2, <1>3, <1>4, <1>5, <2>1, <2>2 DEF f
<1>6. CASE f.owner = NoNode
  <2>1. ~f.hasEvents /\ from = LegacyOwner(l, n)
    BY <1>4, <1>6
  <2>2. f.anchor = 0 /\ OwnershipEvents(l) = {}
    BY <1>2, <2>1, Zenon
  <2>3. Declarations(l) = {} /\ StandDowns(l) = {}
    BY <2>2 DEF OwnershipEvents
  <2>4. from \in Registrations(l) /\ l[from].node # n
    BY <1>1, <2>1, LegacyIs
  <2>5. l[from].node \in Node
    BY <1>1, <1>3, <2>4, EventShape
  <2> QED BY <1>3, <1>4, <1>6, <2>2, <2>3, <2>4, <2>5 DEF f
<1> QED BY <1>5, <1>6

\* The stand-down half of a takeover: an orphan until its claim is written.
LEMMA DisplacingLine ==
  ASSUME NEW l, Sound(l), NEW n \in Node, NEW from, NEW prior, Displaces(l, n, from, prior),
         from # 0, NEW e \in Event, e.type = "ownership_stood_down",
         e.node = prior, e.from = from, e.by = "claimant", e.claimant = n,
         e.claim_key = <<"own", n, FoldOwner(l).anchor>>,
         NEW m, m = Append(l, e), e.key \notin Keys(l)
  PROVE  /\ Sound(m) /\ FoldOwner(m) = FoldOwner(l)
         /\ LegacyOwner(m, n) = LegacyOwner(l, n)
<1> DEFINE a == FoldOwner(l).anchor
           N == Len(l) + 1
<1>1. l \in Seq(Event) /\ \A d \in Declarations(l) : l[d].anchor < d
  BY DEF Sound
<1>2. /\ from \in Declarations(l) \cup Registrations(l) /\ from \in 1 .. Len(l)
      /\ prior = l[from].node /\ prior \in Node
      /\ a = IF from \in Declarations(l) THEN from ELSE 0
      /\ \A d \in Declarations(l) : from \in Declarations(l) /\ d <= from
  BY FromIs
<1>3. a \in Nat /\ \A d \in Declarations(l) : d <= a
  BY FoldIs DEF OwnershipEvents
<1>4. e.claim_key = <<"own", n, a>>
  OBVIOUS
<1>5. /\ Len(l) \in Nat /\ DOMAIN l = 1 .. Len(l) /\ DOMAIN m = 1 .. N
      /\ \A i \in DOMAIN l : m[i] = l[i]
      /\ m[N] = e
  BY <1>1, <1>4, Extend
<1> HIDE DEF a
<1>6. \A d \in Declarations(l) : l[d].key # e.claim_key
  <2> SUFFICES ASSUME NEW d \in Declarations(l), l[d].key = e.claim_key PROVE FALSE
    OBVIOUS
  <2>1. d \in DOMAIN l /\ l[d].type = "ownership_declared" /\ d \in Nat
    BY <1>5 DEF Declarations, OfType
  <2>2. l[d].key = <<"own", l[d].node, l[d].anchor>> /\ l[d].anchor \in Nat
    BY <1>1, <2>1, EventShape
  <2>3. l[d].anchor = a
    BY <1>4, <2>2
  <2> QED BY <1>1, <1>3, <2>1, <2>3
<1>7. /\ Declarations(m) = Declarations(l) /\ N \notin StandDowns(m)
      /\ \A s \in DOMAIN l : s \in StandDowns(m) <=> s \in StandDowns(l)
  <2>2. /\ Declarations(m) = Declarations(l)
        /\ \A s \in DOMAIN l : s \in StandDowns(m) <=> s \in StandDowns(l)
    BY <1>1, SameEvents
  <2>3. N \in StandDowns(m) =>
          \/ e.by # "claimant"
          \/ \E d \in Declarations(l) : l[d].key = e.claim_key /\ l[d].node = e.claimant
    BY <1>1, SameEvents
  <2> QED BY <1>6, <2>2, <2>3
<1>8. StandDowns(m) = StandDowns(l)
  BY <1>1, <1>7, SameEvents
<1>9. Refers(m, N)
  <2>1. from \in Declarations(m) \cup Registrations(m)
    <3>1. Registrations(l) \subseteq Registrations(m)
      BY <1>1, <1>4, ExtendTypes DEF Registrations
    <3> QED BY <1>2, <1>7, <3>1
  <2>2. from < N /\ m[from].node = prior /\ m[N].from = from /\ m[N].node = prior
    BY <1>2, <1>4, <1>5
  <2>3. m[N].claim_key = ClaimKey(m[N].claimant, IF from \in Declarations(m) THEN from ELSE 0)
    BY <1>2, <1>4, <1>5, <1>7 DEF ClaimKey
  <2> HIDE DEF N
  <2> QED BY <1>2, <1>7, <2>1, <2>2, <2>3 DEF Refers
<1>10. Sound(m)
  BY <1>4, <1>7, <1>9, StillSound
<1>11. FoldOwner(m) = FoldOwner(l)
  BY <1>1, <1>7, <1>8, SameFold
<1>12. LegacyOwner(m, n) = LegacyOwner(l, n)
  <2>1. e.type = "session_registered" => e.node = n
    OBVIOUS
  <2> QED BY <1>1, <1>8, <2>1, SameLegacy
<1> QED BY <1>10, <1>11, <1>12

\* A stand-down that needs no claim: afterwards the project has no owner.
LEMMA LeavingLine ==
  ASSUME NEW l, Sound(l), NEW e \in Event, NEW m, m = Append(l, e), e.key \notin Keys(l),
         e.type = "ownership_stood_down", e.by # "claimant",
         \/ e.node = FoldOwner(l).owner /\ e.from = FoldOwner(l).declaring
         \/ /\ ~FoldOwner(l).hasEvents /\ e.from # 0
            /\ e.from = LegacyOwner(l, NoNode) /\ e.node = l[e.from].node
  PROVE  Sound(m) /\ FoldOwner(m).owner = NoNode
<1> DEFINE N == Len(l) + 1
           f == FoldOwner(l)
<1>1. l \in Seq(Event)
  BY DEF Sound
<1>2. /\ Len(l) \in Nat /\ DOMAIN l = 1 .. Len(l) /\ \A i \in DOMAIN l : m[i] = l[i]
      /\ m[N] = e
      /\ Registrations(l) \in SUBSET (1 .. Len(l)) /\ Declarations(l) \in SUBSET (1 .. Len(l))
  BY <1>1, Extend, Positions
<1>3. /\ \A x \in OwnershipEvents(l) : x <= f.anchor
      /\ f.anchor = 0 <=> OwnershipEvents(l) = {}
      /\ f.hasEvents <=> f.anchor # 0
      /\ f.owner # NoNode =>
           /\ f.owner \in Node /\ f.declaring \in Declarations(l)
           /\ l[f.declaring].node = f.owner /\ f.anchor = f.declaring
           /\ \A s \in StandDowns(l) : l[s].from # f.declaring
  BY FoldIs
<1>4. e.node \in Node
  BY EventShape
<1>5. /\ e.from \in Declarations(l) \cup Registrations(l) /\ l[e.from].node = e.node
      /\ \A d \in Declarations(l) : e.from \in Declarations(l) /\ d <= e.from
      /\ \A s \in StandDowns(l) : l[s].from # e.from
  <2>1. CASE e.node = f.owner /\ e.from = f.declaring
    BY <1>3, <1>4, <2>1, NoNodeAssumption DEF OwnershipEvents
  <2>2. CASE /\ ~f.hasEvents /\ e.from # 0
             /\ e.from = LegacyOwner(l, NoNode) /\ e.node = l[e.from].node
    <3>1. OwnershipEvents(l) = {}
      BY <1>3, <2>2, Zenon
    <3>2. e.from \in Registrations(l)
      BY <1>1, <2>2, LegacyIs
    <3> QED BY <2>2, <3>1, <3>2 DEF OwnershipEvents
  <2> QED BY <2>1, <2>2
<1>6. /\ Declarations(m) = Declarations(l) /\ N \in StandDowns(m)
  <2>1. e.type # "ownership_declared"
    OBVIOUS
  <2>2. Declarations(m) = Declarations(l)
    BY <1>1, <2>1, SameEvents
  <2>3. Len(l) + 1 \in StandDowns(m)
    BY <1>1, <2>1, SameEvents
  <2> QED BY <2>2, <2>3
<1>7. Refers(m, N)
  <2>1. Registrations(m) = Registrations(l)
    <3>1. Registrations(m) = Registrations(l) \cup {i \in {N} : e.type = "session_registered"}
      BY <1>1, ExtendTypes DEF Registrations
    <3> QED BY <3>1
  <2>2. e.from \in 1 .. Len(l)
    BY <1>2, <1>5
  <2> HIDE DEF f
  <2> QED BY <1>2, <1>5, <1>6, <2>1, <2>2 DEF Refers
<1>8. Sound(m)
  BY <1>5, <1>7, StillSound
<1>9. FoldOwner(m).owner = NoNode
  <2> DEFINE D == Latest(Declarations(m))
  <2>1. D \in Declarations(l) \cup {0} /\ \A d \in Declarations(l) : d <= D
    BY <1>2, <1>6, LatestIs
  <2>2. D # 0 => Ends(m, N, D)
    <3> HIDE DEF D, f
    <3> SUFFICES ASSUME D # 0 PROVE Ends(m, N, D)
      OBVIOUS
    <3>1. e.from \in Declarations(l) /\ D <= e.from /\ e.from <= D
      BY <1>5, <2>1
    <3>2. D = e.from /\ D \in 1 .. Len(l)
      BY <1>2, <2>1, <3>1
    <3> QED BY <1>2, <1>5, <3>2 DEF Ends
  <2> HIDE DEF N
  <2> QED BY <1>6, <2>2 DEF FoldOwner
<1> QED BY <1>8, <1>9

\* What a claim needs on record: its session, and that whoever it displaces is out.
Ready(l, n, d) ==
  /\ \E r \in Registrations(l) : l[r].node = n
  /\ d.from # 0 => \E s \in OfType(l, "ownership_stood_down") :
                     l[s].from = d.from /\ l[s].by = "claimant" /\ l[s].claimant = n

\* The claim itself, when the session is registered and the stand-down of whoever
\* it displaces is on record: by this call, or by one that was cut short.
LEMMA ClaimLine ==
  ASSUME NEW l, Sound(l), NEW n \in Node, NEW d, Displaces(l, n, d.from, d.prior),
         NEW e \in Event, e.type = "ownership_declared", e.node = n,
         e.anchor = FoldOwner(l).anchor, e.prior = d.prior,
         d.from = 0 => e.basis = "unowned", Ready(l, n, d),
         NEW m, m = Append(l, e), e.key \notin Keys(l)
  PROVE  Sound(m) /\ FoldOwner(m).owner = n
<1> DEFINE from == d.from
           prior == d.prior
<1> DEFINE N == Len(l) + 1
           a == FoldOwner(l).anchor
           paired == {s \in OfType(l, "ownership_stood_down") :
                        l[s].by = "claimant" /\ l[s].claim_key = e.key /\ l[s].claimant = n}
<1>1. /\ l \in Seq(Event) /\ Succession(l) /\ Serial(l) /\ FirstClaimRespects(l)
      /\ \A i, j \in DOMAIN l : l[i].key = l[j].key => i = j
      /\ \A s \in OfType(l, "ownership_stood_down") : Refers(l, s)
      /\ \A k \in Declarations(l) : l[k].anchor < k
  BY DEF Sound
<1>0. /\ \E r \in Registrations(l) : l[r].node = n
      /\ from # 0 => \E s \in OfType(l, "ownership_stood_down") :
                       l[s].from = from /\ l[s].by = "claimant" /\ l[s].claimant = n
  BY DEF Ready
<1>2. /\ m \in Seq(Event) /\ Len(l) \in Nat /\ DOMAIN l = 1 .. Len(l) /\ DOMAIN m = 1 .. N
      /\ \A i \in DOMAIN l : i \in DOMAIN m /\ m[i] = l[i]
      /\ \A i \in DOMAIN l : i < N /\ i # N
      /\ m[N] = e /\ DOMAIN m = DOMAIN l \cup {N}
  BY <1>1, Extend
<1>3. /\ Declarations(l) \subseteq DOMAIN l /\ Registrations(l) \subseteq DOMAIN l
      /\ StandDowns(l) \subseteq DOMAIN l /\ OfType(l, "ownership_stood_down") \subseteq DOMAIN l
      /\ StandDowns(l) \subseteq OfType(l, "ownership_stood_down")
  BY <1>1, Positions
<1>4. /\ Declarations(m) = Declarations(l) \cup {N} /\ Registrations(m) = Registrations(l)
      /\ OfType(m, "ownership_stood_down") = OfType(l, "ownership_stood_down")
  <2>1. \A t : OfType(m, t) = OfType(l, t) \cup {i \in {N} : e.type = t}
    BY <1>1, ExtendTypes
  <2>2. \A t : OfType(m, t) = IF t = "ownership_declared" THEN OfType(l, t) \cup {N} ELSE OfType(l, t)
    BY <2>1
  <2>3. OfType(m, "ownership_declared") = OfType(l, "ownership_declared") \cup {N}
    BY <2>2
  <2>4. /\ OfType(m, "session_registered") = OfType(l, "session_registered")
        /\ OfType(m, "ownership_stood_down") = OfType(l, "ownership_stood_down")
    BY <2>2
  <2> QED BY <2>3, <2>4 DEF Declarations, Registrations
<1>5. /\ a \in Nat /\ \A x \in OwnershipEvents(l) : x <= a
      /\ a \in OwnershipEvents(l) \cup {0}
      /\ a = 0 <=> OwnershipEvents(l) = {}
      /\ FoldOwner(l).hasEvents <=> a # 0
      /\ FoldOwner(l).owner # NoNode =>
           /\ FoldOwner(l).owner \in Node /\ FoldOwner(l).declaring \in Declarations(l)
           /\ a = FoldOwner(l).declaring
           /\ \A s \in StandDowns(l) : l[s].from # FoldOwner(l).declaring
      /\ FoldOwner(l).owner = NoNode =>
           \A k \in Declarations(l) : \E s \in StandDowns(l) : Ends(l, s, k)
  BY FoldIs
<1>6. e.key = <<"own", n, a>>
  BY EventShape
<1>7. StandDowns(m) = StandDowns(l) \cup paired
  <2>1. ASSUME NEW s \in OfType(l, "ownership_stood_down")
        PROVE  Orphaned(m, s) <=> Orphaned(l, s) /\ s \notin paired
    BY <1>2, <1>3, <1>4 DEF Orphaned
  <2>2. ASSUME NEW s \in paired PROVE s \in StandDowns(m)
    BY <1>4, <2>1, <2>2 DEF StandDowns
  <2>3. ASSUME NEW s \in StandDowns(l) PROVE s \in StandDowns(m)
    BY <1>3, <1>4, <2>1, <2>3 DEF StandDowns
  <2>4. ASSUME NEW s \in StandDowns(m) PROVE s \in StandDowns(l) \cup paired
    BY <1>4, <2>1, <2>4 DEF StandDowns
  <2> QED BY <2>2, <2>3, <2>4
<1> HIDE DEF N, a
\* A stand-down that the claim redeems ended the newest declaration, if there is one.
<1>8. ASSUME NEW s \in paired
      PROVE  /\ s \in DOMAIN l /\ l[s].from < s
             /\ IF a = 0 THEN Declarations(l) = {} /\ StandDowns(l) = {}
                ELSE l[s].from = a /\ FoldOwner(l).owner # NoNode
  <2>1. s \in OfType(l, "ownership_stood_down") /\ l[s].by = "claimant" /\ l[s].claim_key = e.key
    BY <1>8
  <2>2. Refers(l, s) /\ s \in DOMAIN l
    BY <1>1, <1>3, <2>1
  <2>3. /\ l[s].from < s
        /\ l[s].claim_key = <<"own", l[s].claimant,
                              IF l[s].from \in Declarations(l) THEN l[s].from ELSE 0>>
    BY <2>1, <2>2 DEF Refers, ClaimKey
  <2>4. a = IF l[s].from \in Declarations(l) THEN l[s].from ELSE 0
    BY <1>6, <2>1, <2>3
  <2>5. CASE a = 0
    <3>1. OwnershipEvents(l) = {}
      BY <1>5, <2>5
    <3> QED BY <2>2, <2>3, <2>5, <3>1 DEF OwnershipEvents
  <2>6. CASE a # 0
    <3>1. l[s].from = a /\ a \in Declarations(l)
      BY <2>4, <2>6
    <3>2. ASSUME FoldOwner(l).owner = NoNode PROVE FALSE
      <4>1. PICK t \in StandDowns(l) : t > a
        BY <1>5, <3>1, <3>2 DEF Ends
      <4>2. t <= a /\ t \in Nat
        BY <1>2, <1>3, <1>5, <4>1 DEF OwnershipEvents
      <4> QED BY <1>5, <4>1, <4>2
    <3> QED BY <2>2, <2>3, <2>6, <3>1, <3>2
  <2> QED BY <2>5, <2>6
<1> HIDE DEF paired
<1>9. \A i, j \in DOMAIN m : m[i].key = m[j].key => i = j
  <2>1. \A i \in DOMAIN l : m[i].key # e.key
    BY <1>2 DEF Keys
  <2> QED BY <1>1, <1>2, <2>1
<1>10. ASSUME NEW s \in OfType(m, "ownership_stood_down") PROVE Refers(m, s)
  <2>1. Refers(l, s) /\ s \in DOMAIN l /\ s \in OfType(l, "ownership_stood_down")
    BY <1>1, <1>3, <1>4
  <2>2. l[s].from \in DOMAIN l /\ s < N /\ ~(N < s)
    BY <1>2, <1>3, <2>1 DEF Refers
  <2> QED BY <1>2, <1>4, <2>1, <2>2 DEF Refers
<1>11. \A k \in Declarations(m) : m[k].anchor < k
  <2>1. a < N
    BY <1>2, <1>3, <1>5 DEF OwnershipEvents, N
  <2>2. m[N].anchor = a
    BY <1>2 DEF a
  <2> QED BY <1>1, <1>2, <1>3, <1>4, <2>1, <2>2
<1>12. Succession(m)
  <2>1. ASSUME NEW k \in Declarations(m)
        PROVE  \E r \in Registrations(m) : r < k /\ m[r].node = m[k].node
    <3>1. CASE k \in Declarations(l)
      BY <1>1, <1>2, <1>3, <1>4, <3>1 DEF Succession
    <3>2. CASE k = N
      BY <1>0, <1>2, <1>3, <1>4, <3>2
    <3> QED BY <1>4, <2>1, <3>1, <3>2
  <2>2. ASSUME NEW c \in Declarations(m), NEW k \in Declarations(m), c < k
        PROVE  \E s \in StandDowns(m) : s < k /\ Ends(m, s, c)
    <3>1. c \in Declarations(l) /\ c \in DOMAIN l /\ c \in Nat
      BY <1>2, <1>3, <1>4, <2>2 DEF N
    <3>2. SUFFICES \E s \in StandDowns(l) \cup paired : s < k /\ Ends(l, s, c)
      BY <1>2, <1>3, <1>7, <1>8, <3>1 DEF Ends
    <3>3. CASE k \in Declarations(l)
      BY <1>1, <2>2, <3>1, <3>3 DEF Succession
    <3>4. CASE k = N /\ FoldOwner(l).owner = NoNode
      BY <1>2, <1>3, <1>5, <3>1, <3>4
    <3>5. CASE k = N /\ FoldOwner(l).owner # NoNode /\ c # a
      <4>1. c < a /\ a \in Declarations(l) /\ a \in DOMAIN l
        BY <1>3, <1>5, <3>1, <3>5 DEF OwnershipEvents
      <4>2. PICK s \in StandDowns(l) : s < a /\ Ends(l, s, c)
        BY <1>1, <3>1, <4>1 DEF Succession
      <4> QED BY <1>2, <1>3, <3>5, <4>2
    <3>6. CASE k = N /\ FoldOwner(l).owner # NoNode /\ c = a
      <4>1. from = a /\ from # 0 /\ a \in Declarations(l)
        BY <1>2, <1>5, <3>1, <3>6 DEF Displaces
      <4>2. PICK s \in OfType(l, "ownership_stood_down") :
              l[s].from = from /\ l[s].by = "claimant" /\ l[s].claimant = n
        BY <1>0, <4>1
      <4>3. Refers(l, s) /\ s \in DOMAIN l
        BY <1>1, <1>3, <4>2
      <4>4. l[s].claim_key = e.key /\ s > a /\ l[s].node = l[a].node
        BY <1>2, <1>6, <3>1, <3>6, <4>1, <4>2, <4>3 DEF Refers, ClaimKey
      <4>5. s \in paired
        BY <4>2, <4>4 DEF paired
      <4> QED BY <1>2, <3>6, <4>1, <4>2, <4>3, <4>4, <4>5 DEF Ends
    <3> QED BY <1>4, <2>2, <3>3, <3>4, <3>5, <3>6
  <2>3. ASSUME NEW s \in StandDowns(m), NEW t \in StandDowns(m), m[s].from = m[t].from
        PROVE  s = t
    <3>1. /\ s \in DOMAIN l /\ t \in DOMAIN l /\ l[s].from = l[t].from
          /\ s \in StandDowns(l) \cup paired /\ t \in StandDowns(l) \cup paired
      BY <1>2, <1>3, <1>7, <1>8, <2>3
    <3>2. CASE s \in StandDowns(l) /\ t \in StandDowns(l)
      BY <1>1, <3>1, <3>2 DEF Succession
    <3>3. CASE s \in paired /\ t \in paired
      <4>1. /\ s \in OfType(l, "ownership_stood_down") /\ t \in OfType(l, "ownership_stood_down")
            /\ l[s].by = "claimant" /\ l[t].by = "claimant"
            /\ l[s].claimant = n /\ l[t].claimant = n
        BY <3>3 DEF paired
      <4>2. l[s].node = l[l[s].from].node /\ l[t].node = l[l[t].from].node
        BY <1>1, <4>1 DEF Refers
      <4>3. /\ l[s] \in Event /\ l[t] \in Event
            /\ l[s].type = "ownership_stood_down" /\ l[t].type = "ownership_stood_down"
        BY <1>1, <1>2, <3>1, <4>1 DEF OfType
      <4>4. l[s].key = l[t].key
        <5>1. l[s].node = l[t].node
          BY <3>1, <4>2
        <5>2. l[s].key = <<"standdown", l[s].node, l[s].from, l[s].by, l[s].claimant>>
          BY <4>3, EventShape
        <5>3. l[t].key = <<"standdown", l[t].node, l[t].from, l[t].by, l[t].claimant>>
          BY <4>3, EventShape
        <5> QED BY <3>1, <4>1, <5>1, <5>2, <5>3
      <4> QED BY <1>1, <3>1, <4>4
    <3>4. ASSUME NEW x \in paired, NEW y \in StandDowns(l), l[x].from = l[y].from
          PROVE  FALSE
      BY <1>5, <1>8, <3>4
    <3> QED BY <3>1, <3>2, <3>3, <3>4
  <2> QED BY <2>1, <2>2, <2>3 DEF Succession
<1>13. Serial(m)
  <2> SUFFICES ASSUME NEW k \in Declarations(m), NEW x \in OwnershipEvents(m), x < k
               PROVE  \/ x <= m[k].anchor
                      \/ /\ x \in StandDowns(m) /\ m[x].by = "claimant"
                         /\ m[x].claim_key = m[k].key
    BY DEF Serial
  <2>1. k \in DOMAIN m /\ x \in DOMAIN m /\ x # N /\ x \in DOMAIN l
    BY <1>2, <1>3, <1>4, <1>7, <1>8 DEF OwnershipEvents, N
  <2>2. x \in OwnershipEvents(l) \cup paired
    BY <1>4, <1>7, <2>1 DEF OwnershipEvents
  <2>3. CASE k = N
    <3>1. CASE x \in OwnershipEvents(l)
      BY <1>2, <1>5, <2>3, <3>1 DEF a
    <3>2. CASE x \in paired
      BY <1>2, <1>7, <2>1, <2>3, <3>2 DEF paired
    <3> QED BY <2>2, <3>1, <3>2
  <2>4. CASE k \in Declarations(l)
    <3>1. CASE x \in OwnershipEvents(l)
      <4>1. k \in DOMAIN l /\ m[k] = l[k] /\ m[x] = l[x]
        BY <1>2, <1>3, <2>1, <2>4
      <4> QED BY <1>1, <1>7, <2>4, <3>1, <4>1 DEF Serial
    <3>2. CASE x \in paired
      <4>1. k <= a /\ k \in Nat /\ a # 0
        BY <1>2, <1>3, <1>5, <1>8, <2>4, <3>2 DEF OwnershipEvents
      <4>2. a < x
        BY <1>8, <3>2, <4>1
      <4> QED BY <1>2, <1>5, <2>1, <4>1, <4>2
    <3> QED BY <2>2, <3>1, <3>2
  <2> QED BY <1>4, <2>3, <2>4
<1>14. FirstClaimRespects(m)
  <2> SUFFICES ASSUME NEW k \in Declarations(m), m[k].anchor = 0
               PROVE  LET r == Latest(Passed(m, k))
                      IN  IF r = 0 THEN m[k].basis = "unowned" ELSE m[k].prior = m[r].node
    BY DEF FirstClaimRespects
  <2>1. CASE k \in Declarations(l)
    <3>1. k \in DOMAIN l /\ m[k] = l[k]
      BY <1>2, <1>3, <2>1
    <3>2. Passed(m, k) = Passed(l, k)
      BY <1>2, <1>3, <1>4, <3>1 DEF Passed
    <3>3. Passed(l, k) \in SUBSET (1 .. Len(l))
      BY <1>2, <1>3 DEF Passed
    <3>4. Latest(Passed(l, k)) \in DOMAIN l \cup {0}
      BY <1>2, <3>3, LatestIs
    <3> QED BY <1>1, <1>2, <2>1, <3>1, <3>2, <3>4 DEF FirstClaimRespects
  <2>2. CASE k = N
    <3> DEFINE R == {i \in Registrations(l) : l[i].eligible /\ l[i].node # n}
    <3>1. a = 0 /\ OwnershipEvents(l) = {} /\ StandDowns(l) = {}
      BY <1>2, <1>5, <2>2 DEF a, OwnershipEvents
    <3>2. Passed(m, k) = R
      BY <1>2, <1>3, <1>4, <2>2 DEF Passed
    <3>3. LegacyOwner(l, n) = Latest(R) /\ Latest(R) \in DOMAIN l \cup {0}
      <4>1. l \in Seq(Event)
        BY <1>1
      <4>2. LegacyOwner(l, n) = Latest(R)
        BY <3>1, <4>1, LegacyIs
      <4>3. LegacyOwner(l, n) \in DOMAIN l \cup {0}
        BY <4>1, LegacyIs
      <4> HIDE DEF R
      <4> QED BY <4>2, <4>3
    <3>4. from = Latest(R)
      <4>1. FoldOwner(l).owner = NoNode
        BY <1>5, <3>1 DEF OwnershipEvents
      <4>2. ~FoldOwner(l).hasEvents
        BY <1>5, <3>1, Zenon
      <4> QED BY <3>3, <4>1, <4>2 DEF Displaces
    <3> HIDE DEF R
    <3>5. prior = IF from = 0 THEN NoNode ELSE l[from].node
      BY DEF Displaces
    <3> QED BY <1>2, <2>2, <3>2, <3>3, <3>4, <3>5
  <2> QED BY <1>4, <2>1, <2>2
<1>15. FoldOwner(m).owner = n
  <2> DEFINE D == Latest(Declarations(m))
  <2>1. D = N
    <3>1. Declarations(m) \in SUBSET (1 .. N) /\ N \in Nat
      BY <1>2, <1>3, <1>4 DEF N
    <3>2. D \in Declarations(m) \cup {0} /\ \A x \in Declarations(m) : x <= D
      BY <3>1, LatestIs
    <3> HIDE DEF D
    <3>3. N \in Declarations(m) /\ N # 0
      BY <1>2, <1>4 DEF N
    <3>4. N <= D /\ D \in Declarations(m)
      BY <3>1, <3>2, <3>3
    <3> QED BY <3>1, <3>4
  <2>2. ASSUME NEW s \in StandDowns(m) PROVE ~Ends(m, s, N)
    BY <1>2, <1>3, <1>7, <1>8 DEF Ends
  <2>3. N # 0
    BY <1>2 DEF N
  <2> QED BY <1>2, <2>1, <2>2, <2>3 DEF FoldOwner
<1> QED BY <1>2, <1>9, <1>10, <1>11, <1>12, <1>13, <1>14, <1>15 DEF Sound

LEMMA KeyShape ==
  ASSUME NEW l \in Seq(Event), NEW k \in Keys(l)
  PROVE  \E i \in DOMAIN l :
           /\ l[i].key = k
           /\ l[i].type \in {"session_registered", "ownership_declared", "ownership_stood_down"}
           /\ l[i].type = "session_registered" => k = <<"register", l[i].node>>
           /\ l[i].type = "ownership_declared" => k = <<"own", l[i].node, l[i].anchor>>
           /\ l[i].type = "ownership_stood_down" =>
                k = <<"standdown", l[i].node, l[i].from, l[i].by, l[i].claimant>>
<1>1. PICK i \in DOMAIN l : l[i].key = k
  BY DEF Keys
<1>2. l[i] \in Event
  OBVIOUS
<1> QED BY <1>1, <1>2, EventShape

LEMMA RegisterKey ==
  ASSUME NEW l \in Seq(Event), NEW n, <<"register", n>> \in Keys(l)
  PROVE  \E i \in Registrations(l) : l[i].node = n
<1> DEFINE k == <<"register", n>>
<1>1. PICK i \in DOMAIN l :
           /\ l[i].type \in {"session_registered", "ownership_declared", "ownership_stood_down"}
           /\ l[i].type = "session_registered" => k = <<"register", l[i].node>>
           /\ l[i].type = "ownership_declared" => k = <<"own", l[i].node, l[i].anchor>>
           /\ l[i].type = "ownership_stood_down" =>
                k = <<"standdown", l[i].node, l[i].from, l[i].by, l[i].claimant>>
  BY KeyShape
<1>2. k[1] = "register" /\ k[2] = n
  OBVIOUS
<1> HIDE DEF k
<1>3. l[i].type = "session_registered" /\ l[i].node = n
  BY <1>1, <1>2
<1> QED BY <1>3 DEF Registrations, OfType

LEMMA StandDownKey ==
  ASSUME NEW l \in Seq(Event), NEW n, NEW from, NEW by, NEW c,
         <<"standdown", n, from, by, c>> \in Keys(l)
  PROVE  \E i \in OfType(l, "ownership_stood_down") :
           l[i].from = from /\ l[i].by = by /\ l[i].claimant = c
<1> DEFINE k == <<"standdown", n, from, by, c>>
<1>1. PICK i \in DOMAIN l :
           /\ l[i].type \in {"session_registered", "ownership_declared", "ownership_stood_down"}
           /\ l[i].type = "session_registered" => k = <<"register", l[i].node>>
           /\ l[i].type = "ownership_declared" => k = <<"own", l[i].node, l[i].anchor>>
           /\ l[i].type = "ownership_stood_down" =>
                k = <<"standdown", l[i].node, l[i].from, l[i].by, l[i].claimant>>
  BY KeyShape
<1>2. k[1] = "standdown" /\ k[3] = from /\ k[4] = by /\ k[5] = c
  OBVIOUS
<1> HIDE DEF k
<1>3. /\ l[i].type = "ownership_stood_down"
      /\ l[i].from = from /\ l[i].by = by /\ l[i].claimant = c
  BY <1>1, <1>2
<1> QED BY <1>3 DEF OfType
-----------------------------------------------------------------------------
(***************************************************************************)
(* Calls and plans.  A plan stands if the view it was made on still holds; *)
(* what it says of entries of the log does not change, for the log grows.  *)
(***************************************************************************)
CallFits(c) ==
  /\ c.kind \in {"none", "claim", "stand_down", "register"}
  /\ c.kind = "claim" => c \in AllClaims
  /\ c.kind = "stand_down" => c.node \in Node /\ c.by \in {"self", "on_behalf"}
  /\ c.kind = "register" => c.node \in Node /\ c.eligible \in BOOLEAN

Leaves(l, v, n, from) ==
  /\ from \in DOMAIN l
  /\ \/ n = v[1].owner /\ from = v[1].declaring
     \/ ~v[1].hasEvents /\ from = v[2] /\ n = l[from].node

Takes(l, v, n, d) ==
  /\ v[1].owner # n
  /\ d.from \in DOMAIN l \cup {0}
  /\ d.from = IF v[1].owner # NoNode THEN v[1].declaring ELSE v[2]
  /\ d.prior = IF d.from = 0 THEN NoNode ELSE l[d.from].node

Decisions == [outcome : Bases, prior : Node \cup {NoNode}, from : Nat]

RegistersFor(c) == Registered(c.node, c.session = "pm")
DisplacesFor(c, v, d) == StoodDown(d.prior, d.from, "claimant", c.node, v[1].anchor)
ClaimsFor(c, v, d) == Declared(c.node, v[1].anchor, d.prior, d.outcome)

\* A claim comes last in its batch, after whatever it needs on record.
ClaimPlan(l, c, v, b, d) ==
  /\ Takes(l, v, c.node, d) /\ v[1].anchor \in Nat
  /\ d.outcome = "unowned" <=> d.from = 0
  /\ d.outcome = "ended" => d.prior \in c.ended
  /\ d.outcome = "notified" => d.prior = c.attested
  /\ \A i \in DOMAIN b :
       \/ b[i] = RegistersFor(c)
       \/ d.from # 0 /\ b[i] = DisplacesFor(c, v, d)
       \/ /\ b[i] = ClaimsFor(c, v, d) /\ \A j \in DOMAIN b : j <= i
          /\ IsRegistered(l, c.node) \/ \E j \in DOMAIN b : j < i /\ b[j] = RegistersFor(c)
          /\ d.from # 0 => \E j \in DOMAIN b : j < i /\ b[j] = DisplacesFor(c, v, d)

PlanFits(l, c, v, b) ==
  /\ b \in Seq(Event) /\ DistinctKeys(b)
  /\ c.kind # "none"
  /\ c.kind = "register" => b = <<Registered(c.node, c.eligible)>>
  /\ c.kind = "stand_down" =>
       \E from \in Nat : /\ Leaves(l, v, c.node, from)
                         /\ b = <<StoodDown(c.node, from, c.by, NoNode, 0)>>
  /\ c.kind = "claim" => \E d \in Decisions : ClaimPlan(l, c, v, b, d)

\* What a line does to the owner that readers see.
OwnerMoves(c, old, new) ==
  \/ new = old
  \/ c.kind = "stand_down" /\ old = c.node /\ new = NoNode
  \/ /\ c.kind = "claim" /\ new = c.node
     /\ old = NoNode \/ old = c.attested \/ old \in c.ended

\* Entry i of a batch is the first that a log does not record.
IsFirstFresh(l, b, i) ==
  b[i].key \notin Keys(l) /\ \A j \in DOMAIN b : j < i => b[j].key \in Keys(l)

\* An ownership event is written on the view that it was decided on.
IsStillAsDecided(l, c, v, e) == e.type # "session_registered" => View(l, c) = v

\* Until the last line of a batch, the view it was decided on does not change.
ViewStays(l, m, c, b, i) == (\E j \in DOMAIN b : j > i) => View(m, c) = View(l, c)

\* The next line of a batch that is written as planned.
LEMMA NextLine ==
  ASSUME NEW l, Sound(l), NEW c, CallFits(c), NEW v, NEW b, PlanFits(l, c, v, b),
         NEW i \in DOMAIN b, IsFirstFresh(l, b, i),
         IsStillAsDecided(l, c, v, b[i]),
         NEW m, m = Append(l, b[i])
  PROVE  /\ Sound(m)
         /\ OwnerMoves(c, FoldOwner(l).owner, FoldOwner(m).owner)
         /\ ViewStays(l, m, c, b, i)
<1> DEFINE e == b[i]
<1>1. l \in Seq(Event) /\ e \in Event /\ DOMAIN b = 1 .. Len(b) /\ Len(b) \in Nat
  BY DEF Sound, PlanFits
<1>0. e.key \notin Keys(l) /\ \A j \in DOMAIN b : j < i => b[j].key \in Keys(l)
  BY DEF IsFirstFresh
<1>2. e.type # "session_registered" => View(l, c) = v
  BY DEF IsStillAsDecided
<1>3. CASE c.kind = "register"
  <2>1. c.node \in Node /\ c.eligible \in BOOLEAN /\ b = <<Registered(c.node, c.eligible)>>
    BY <1>3 DEF CallFits, PlanFits
  <2>2. e = Registered(c.node, c.eligible) /\ ~ \E j \in DOMAIN b : j > i
    BY <2>1
  <2>3. e.type = "session_registered"
    BY <2>1, <2>2, MadeRegistered
  <2>4. Sound(m) /\ FoldOwner(m) = FoldOwner(l)
    BY <1>0, <1>1, <2>3, RegistrationLine
  <2> QED BY <2>2, <2>4 DEF OwnerMoves, ViewStays
<1>4. CASE c.kind = "stand_down"
  <2>1. c.node \in Node /\ c.by \in {"self", "on_behalf"}
    BY <1>4 DEF CallFits
  <2>2. PICK from \in Nat : /\ Leaves(l, v, c.node, from)
                            /\ b = <<StoodDown(c.node, from, c.by, NoNode, 0)>>
    BY <1>4 DEF PlanFits
  <2>3. e = StoodDown(c.node, from, c.by, NoNode, 0) /\ ~ \E j \in DOMAIN b : j > i
    BY <2>2
  <2>4. /\ e.type = "ownership_stood_down" /\ e.node = c.node /\ e.from = from
        /\ e.by = c.by /\ e.by # "claimant"
    BY <2>1, <2>3 DEF StoodDown
  <2>5. View(l, c) = v
    BY <1>2, <2>4
  <2>6. v[1] = FoldOwner(l) /\ v[2] = IF FoldOwner(l).hasEvents THEN 0 ELSE LegacyOwner(l, NoNode)
    BY <1>4, <2>5 DEF View
  <2>7. DOMAIN l = 1 .. Len(l) /\ Len(l) \in Nat /\ from \in DOMAIN l /\ from # 0
    BY <1>1, <2>2, Positions DEF Leaves
  <2>8. \/ e.node = FoldOwner(l).owner /\ e.from = FoldOwner(l).declaring
        \/ /\ ~FoldOwner(l).hasEvents /\ e.from # 0
           /\ e.from = LegacyOwner(l, NoNode) /\ e.node = l[e.from].node
    BY <2>2, <2>4, <2>6, <2>7 DEF Leaves
  <2>9. Sound(m) /\ FoldOwner(m).owner = NoNode
    BY <1>0, <1>1, <2>4, <2>8, LeavingLine
  <2>10. FoldOwner(l).owner = c.node \/ FoldOwner(l).owner = NoNode
    <3>1. FoldOwner(l).hasEvents <=> FoldOwner(l).anchor # 0
      BY FoldIs
    <3>2. ASSUME ~FoldOwner(l).hasEvents PROVE FoldOwner(l).owner = NoNode
      <4>1. FoldOwner(l).anchor = 0
        BY <3>1, <3>2, Zenon
      <4>2. Declarations(l) = {}
        BY <4>1, FoldIs DEF OwnershipEvents
      <4> QED BY <4>2, FoldIs
    <3> QED BY <2>4, <2>8, <3>2
  <2> QED BY <1>4, <2>3, <2>9, <2>10 DEF OwnerMoves, ViewStays
<1>5. CASE c.kind = "claim"
  <2>1. c \in AllClaims /\ c.node \in Node
    BY <1>5 DEF CallFits, AllClaims
  <2>2. PICK d \in Decisions : ClaimPlan(l, c, v, b, d)
    BY <1>5 DEF PlanFits
  <2>3. View(l, c) = <<FoldOwner(l), IF FoldOwner(l).hasEvents THEN 0 ELSE LegacyOwner(l, c.node)>>
    BY <1>5 DEF View
  <2>4. View(m, c) = <<FoldOwner(m), IF FoldOwner(m).hasEvents THEN 0 ELSE LegacyOwner(m, c.node)>>
    BY <1>5 DEF View
  <2>5. ASSUME View(l, c) = v
        PROVE  Displaces(l, c.node, d.from, d.prior) /\ v[1] = FoldOwner(l)
    BY <2>2, <2>3, <2>5 DEF ClaimPlan, Takes, Displaces
  <2>6. CASE e = RegistersFor(c)
    <3>1. e.type = "session_registered" /\ e.node = c.node
      BY <2>6 DEF RegistersFor, Registered
    <3>2. Sound(m) /\ FoldOwner(m) = FoldOwner(l) /\ LegacyOwner(m, c.node) = LegacyOwner(l, c.node)
      BY <1>0, <1>1, <3>1, RegistrationLine
    <3> QED BY <2>3, <2>4, <3>2 DEF OwnerMoves, ViewStays
  <2>7. CASE d.from # 0 /\ e = DisplacesFor(c, v, d)
    <3>1. /\ e.type = "ownership_stood_down" /\ e.node = d.prior /\ e.from = d.from
          /\ e.by = "claimant" /\ e.claimant = c.node
          /\ e.claim_key = <<"own", c.node, v[1].anchor>>
      BY <2>7 DEF DisplacesFor, StoodDown, ClaimKey
    <3>2. Displaces(l, c.node, d.from, d.prior) /\ v[1] = FoldOwner(l)
      BY <1>2, <2>5, <3>1
    <3>3. Sound(m) /\ FoldOwner(m) = FoldOwner(l) /\ LegacyOwner(m, c.node) = LegacyOwner(l, c.node)
      BY <1>0, <1>1, <2>1, <2>7, <3>1, <3>2, DisplacingLine
    <3> QED BY <2>3, <2>4, <3>3 DEF OwnerMoves, ViewStays
  <2>8. CASE /\ e = ClaimsFor(c, v, d) /\ \A j \in DOMAIN b : j <= i
             /\ IsRegistered(l, c.node) \/ \E j \in DOMAIN b : j < i /\ b[j] = RegistersFor(c)
             /\ d.from # 0 => \E j \in DOMAIN b : j < i /\ b[j] = DisplacesFor(c, v, d)
    <3>1. /\ e.type = "ownership_declared" /\ e.node = c.node /\ e.anchor = v[1].anchor
          /\ e.prior = d.prior /\ e.basis = d.outcome
      BY <2>8 DEF ClaimsFor, Declared
    <3>2. Displaces(l, c.node, d.from, d.prior) /\ v[1] = FoldOwner(l)
      BY <1>2, <2>5, <3>1
    <3>3. \E r \in Registrations(l) : l[r].node = c.node
      <4>1. CASE IsRegistered(l, c.node)
        BY <4>1 DEF IsRegistered
      <4>2. CASE \E j \in DOMAIN b : j < i /\ b[j] = RegistersFor(c)
        <5>1. <<"register", c.node>> \in Keys(l)
          BY <1>0, <4>2 DEF RegistersFor, Registered
        <5> QED BY <1>1, <5>1, RegisterKey
      <4> QED BY <2>8, <4>1, <4>2
    <3>4. ASSUME d.from # 0
          PROVE  \E s \in OfType(l, "ownership_stood_down") :
                   l[s].from = d.from /\ l[s].by = "claimant" /\ l[s].claimant = c.node
      <4>1. <<"standdown", d.prior, d.from, "claimant", c.node>> \in Keys(l)
        BY <1>0, <2>8, <3>4 DEF DisplacesFor, StoodDown
      <4> QED BY <1>1, <4>1, StandDownKey
    <3>5. d.from = 0 => e.basis = "unowned"
      BY <2>2, <3>1 DEF ClaimPlan
    <3>6. Sound(m) /\ FoldOwner(m).owner = c.node
      <4>1. e.anchor = FoldOwner(l).anchor
        BY <3>1, <3>2
      <4>2. /\ e \in Event /\ e.type = "ownership_declared" /\ e.node = c.node
            /\ e.prior = d.prior /\ c.node \in Node
        BY <1>1, <2>1, <3>1
      <4>3. m = Append(l, e) /\ e.key \notin Keys(l)
        BY <1>0
      <4>4. Ready(l, c.node, d)
        BY <3>3, <3>4 DEF Ready
      <4> HIDE DEF e
      <4>5. Displaces(l, c.node, d.from, d.prior)
        BY <3>2
      <4> QED BY <3>5, <4>1, <4>2, <4>3, <4>4, <4>5, ClaimLine
    <3>7. FoldOwner(l).owner # NoNode => FoldOwner(l).owner = c.attested \/ FoldOwner(l).owner \in c.ended
      <4> SUFFICES ASSUME FoldOwner(l).owner # NoNode
                   PROVE  FoldOwner(l).owner = c.attested \/ FoldOwner(l).owner \in c.ended
        OBVIOUS
      <4>1. d.from # 0
        BY <1>1, <3>2, FoldIs, Positions DEF Displaces
      <4>2. FoldOwner(l).owner = d.prior
        BY <2>1, <3>2, <4>1, FromIs
      <4>3. d.outcome \in {"notified", "ended"}
        BY <2>2, <4>1 DEF ClaimPlan, Decisions, Bases
      <4> QED BY <2>2, <4>2, <4>3 DEF ClaimPlan
    <3>8. ~ \E j \in DOMAIN b : j > i
      BY <1>1, <2>8
    <3> QED BY <1>5, <3>6, <3>7, <3>8 DEF OwnerMoves, ViewStays
  <2> QED BY <2>2, <2>6, <2>7, <2>8 DEF ClaimPlan
<1> QED BY <1>3, <1>4, <1>5 DEF CallFits, PlanFits
-----------------------------------------------------------------------------
(***************************************************************************)
(* Plans: what the evaluating steps decide, and that plans outlive growth. *)
(***************************************************************************)
LEMMA CallsFit ==
  ASSUME NEW c \in AllCalls
  PROVE  CallFits(c)
<1>1. CASE c = NoCall
  BY <1>1 DEF NoCall, CallFits
<1>2. CASE c \in AllClaims
  BY <1>2 DEF AllClaims, CallFits
<1>3. CASE c \in [kind : {"stand_down"}, node : Node, by : {"self", "on_behalf"}]
  BY <1>3 DEF CallFits
<1>4. CASE c \in [kind : {"register"}, node : Node, eligible : BOOLEAN]
  BY <1>4 DEF CallFits
<1> QED BY <1>1, <1>2, <1>3, <1>4 DEF AllCalls

LEMMA PlansOutliveGrowth ==
  ASSUME NEW l \in Seq(Event), NEW e \in Event, NEW m, m = Append(l, e),
         NEW c, NEW v, NEW b, PlanFits(l, c, v, b)
  PROVE  PlanFits(m, c, v, b)
<1>1. /\ \A i \in DOMAIN l : i \in DOMAIN m /\ m[i] = l[i]
      /\ DOMAIN l = 1 .. Len(l) /\ Len(l) \in Nat
  BY Extend
<1>2. ASSUME NEW n, NEW from, Leaves(l, v, n, from) PROVE Leaves(m, v, n, from)
  BY <1>1, <1>2 DEF Leaves
<1>3. ASSUME NEW n, IsRegistered(l, n) PROVE IsRegistered(m, n)
  BY <1>1, <1>3 DEF IsRegistered, Registrations, OfType
<1>4. ASSUME NEW d, ClaimPlan(l, c, v, b, d) PROVE ClaimPlan(m, c, v, b, d)
  <2>1. Takes(m, v, c.node, d)
    BY <1>1, <1>4 DEF ClaimPlan, Takes
  <2> QED BY <1>3, <1>4, <2>1 DEF ClaimPlan
<1> QED BY <1>2, <1>4 DEF PlanFits

LEMMA RegisterPlan ==
  ASSUME NEW l, NEW v, NEW c, CallFits(c), c.kind = "register"
  PROVE  PlanFits(l, c, v, <<Registered(c.node, c.eligible)>>)
<1>1. Registered(c.node, c.eligible) \in Event
  BY MadeRegistered DEF CallFits
<1> QED BY <1>1 DEF PlanFits, DistinctKeys

LEMMA StandDownPlan ==
  ASSUME NEW l, Sound(l), NEW c, CallFits(c), c.kind = "stand_down", NEW from \in DOMAIN l,
         \/ FoldOwner(l).owner = c.node /\ from = FoldOwner(l).declaring
         \/ /\ ~FoldOwner(l).hasEvents /\ from = LegacyOwner(l, NoNode)
            /\ l[from].node = c.node
  PROVE  PlanFits(l, c, View(l, c), <<StoodDown(c.node, from, c.by, NoNode, 0)>>)
<1>1. from \in Nat
  BY Positions DEF Sound
<1>2. Leaves(l, View(l, c), c.node, from)
  BY DEF Leaves, View
<1>3. StoodDown(c.node, from, c.by, NoNode, 0) \in Event
  <2>1. c.node \in Node /\ c.by \in Writers /\ NoNode \in Node \cup {NoNode} /\ 0 \in Nat
    BY DEF CallFits, Writers
  <2> QED BY <1>1, <2>1, MadeStoodDown
<1> QED BY <1>1, <1>2, <1>3 DEF PlanFits, DistinctKeys

\* What decide_claim makes of a call that it lets through.
LEMMA DecisionIs ==
  ASSUME NEW l, Sound(l), NEW c \in AllClaims, NEW d,
         d = DecideClaim(l, c.node, c.ended, c.attested), d.outcome \in Bases
  PROVE  /\ d \in Decisions /\ Takes(l, View(l, c), c.node, d)
         /\ d.outcome = "unowned" <=> d.from = 0
         /\ d.outcome = "ended" => d.prior \in c.ended
         /\ d.outcome = "notified" => d.prior = c.attested
<1> DEFINE f == FoldOwner(l)
           r == IF f.hasEvents THEN 0 ELSE LegacyOwner(l, c.node)
           from == IF f.owner # NoNode THEN f.declaring ELSE r
           prior == IF from = 0 THEN NoNode ELSE l[from].node
<1>1. d = CASE f.owner = c.node -> Decision("noop", NoNode, 0)
            [] from = 0 -> Decision("unowned", NoNode, 0)
            [] OTHER ->
                 IF prior \in c.ended THEN Decision("ended", prior, from)
                 ELSE IF c.attested = NoNode THEN Decision("coordination_required", prior, from)
                 ELSE IF c.attested = prior THEN Decision("notified", prior, from)
                 ELSE Decision("attestation_mismatch", prior, from)
  BY DEF DecideClaim
<1>2. c.node \in Node /\ c.kind = "claim" /\ l \in Seq(Event)
  BY DEF AllClaims, Sound
<1>3. View(l, c) = <<f, r>>
  BY <1>2 DEF View
<1>4. from \in DOMAIN l \cup {0} /\ (f.owner = c.node => from # 0)
  <2>1. /\ f.owner # NoNode => f.declaring \in Declarations(l)
    BY FoldIs
  <2>2. Declarations(l) \subseteq DOMAIN l /\ 0 \notin DOMAIN l
    BY <1>2, Positions
  <2>3. LegacyOwner(l, c.node) \in DOMAIN l \cup {0}
    BY <1>2, LegacyIs
  <2> HIDE DEF f
  <2> QED BY <1>2, <2>1, <2>2, <2>3, NoNodeAssumption
<1>5. from # 0 => prior \in Node
  <2>1. ASSUME from # 0 PROVE l[from] \in Event
    BY <1>2, <1>4, <2>1
  <2> HIDE DEF from
  <2> QED BY <2>1, EventShape
<1>6. DOMAIN l \subseteq Nat
  BY <1>2
<1> HIDE DEF f, r, from, prior
<1>7. f.owner # c.node
  BY <1>1, <1>4 DEF Decision, Bases
<1>8. CASE from = 0
  <2>1. d = Decision("unowned", NoNode, 0)
    BY <1>1, <1>7, <1>8
  <2> QED BY <1>3, <1>7, <1>8, <2>1 DEF Decision, Decisions, Bases, Takes, from
<1>9. CASE from # 0
  <2>1. \/ d = Decision("ended", prior, from) /\ prior \in c.ended
        \/ d = Decision("notified", prior, from) /\ prior = c.attested
    BY <1>1, <1>7, <1>9 DEF Decision, Bases
  <2>2. from \in Nat /\ from \in DOMAIN l /\ prior \in Node
    BY <1>4, <1>5, <1>6, <1>9
  <2>3. d.from = from /\ d.prior = prior /\ d.outcome \in {"ended", "notified"} /\ d \in Decisions
    BY <2>1, <2>2 DEF Decision, Decisions, Bases
  <2>4. Takes(l, View(l, c), c.node, d)
    BY <1>3, <1>7, <1>9, <2>2, <2>3 DEF Takes, from, prior
  <2>5. /\ d.outcome = "ended" => d.prior \in c.ended
        /\ d.outcome = "notified" => d.prior = c.attested
    BY <2>1 DEF Decision
  <2> QED BY <1>9, <2>3, <2>4, <2>5
<1> QED BY <1>8, <1>9

LEMMA PairOf ==
  ASSUME NEW x \in Event, NEW y \in Event
  PROVE  <<x>> \o <<y>> = <<x, y>>
<1>1. <<x>> \in Seq(Event) /\ <<y>> \in Seq(Event) /\ <<x, y>> \in Seq(Event)
  OBVIOUS
<1>2. /\ <<x>> \o <<y>> \in Seq(Event) /\ Len(<<x>> \o <<y>>) = 2
      /\ \A i \in 1 .. 2 : (<<x>> \o <<y>>)[i] = <<x, y>>[i]
  BY <1>1
<1> QED BY <1>1, <1>2, SeqEqual

LEMMA TripleOf ==
  ASSUME NEW x \in Event, NEW y \in Event, NEW z \in Event
  PROVE  <<x, y>> \o <<z>> = <<x, y, z>>
<1>1. <<x, y>> \in Seq(Event) /\ <<z>> \in Seq(Event) /\ <<x, y, z>> \in Seq(Event)
  OBVIOUS
<1>2. /\ <<x, y>> \o <<z>> \in Seq(Event) /\ Len(<<x, y>> \o <<z>>) = 3
      /\ \A i \in 1 .. 3 : (<<x, y>> \o <<z>>)[i] = <<x, y, z>>[i]
  BY <1>1
<1> QED BY <1>1, <1>2, SeqEqual

LEMMA ClaimFitsPlan ==
  ASSUME NEW l, Sound(l), NEW c \in AllClaims, NEW d,
         d = DecideClaim(l, c.node, c.ended, c.attested), d.outcome \in Bases
  PROVE  PlanFits(l, c, View(l, c), ClaimBatch(c, d, l))
<1> DEFINE v == View(l, c)
           b == ClaimBatch(c, d, l)
           R == RegistersFor(c)
           S == DisplacesFor(c, v, d)
           D == ClaimsFor(c, v, d)
<1>1. /\ d \in Decisions /\ Takes(l, v, c.node, d)
      /\ d.outcome = "unowned" <=> d.from = 0
      /\ d.outcome = "ended" => d.prior \in c.ended
      /\ d.outcome = "notified" => d.prior = c.attested
  BY DecisionIs
<1>2. c.node \in Node /\ c.kind = "claim" /\ v[1] = FoldOwner(l) /\ v[1].anchor \in Nat
  <2>1. FoldOwner(l).anchor \in Nat
    BY FoldIs
  <2> QED BY <2>1 DEF AllClaims, View
<1>3. R \in Event /\ R.key = <<"register", c.node>>
  BY <1>2, MadeRegistered DEF RegistersFor
<1>4. d.from # 0 => S \in Event /\ S.key = <<"standdown", d.prior, d.from, "claimant", c.node>>
  <2> SUFFICES ASSUME d.from # 0
               PROVE  S \in Event /\ S.key = <<"standdown", d.prior, d.from, "claimant", c.node>>
    OBVIOUS
  <2>1. d.prior \in Node /\ d.from \in Nat
    <3>1. d.from \in DOMAIN l /\ d.prior = l[d.from].node /\ l \in Seq(Event)
      BY <1>1 DEF Takes, Sound
    <3>2. l[d.from] \in Event
      BY <3>1
    <3> QED BY <1>1, <3>1, <3>2, EventShape DEF Decisions
  <2>2. "claimant" \in Writers /\ c.node \in Node \cup {NoNode}
    BY <1>2 DEF Writers
  <2>3. S = StoodDown(d.prior, d.from, "claimant", c.node, v[1].anchor)
    BY DEF DisplacesFor
  <2> HIDE DEF v, S
  <2> QED BY <1>2, <2>1, <2>2, <2>3, MadeStoodDown
<1>5. D \in Event /\ D.key = <<"own", c.node, v[1].anchor>>
  <2>1. D = Declared(c.node, v[1].anchor, d.prior, d.outcome)
    BY DEF ClaimsFor
  <2>2. d.prior \in Node \cup {NoNode} /\ d.outcome \in Bases
    BY <1>1 DEF Decisions
  <2> HIDE DEF v, D
  <2> QED BY <1>2, <2>1, <2>2, MadeDeclared
<1>6. b = (IF IsRegistered(l, c.node) THEN <<>> ELSE <<R>>)
          \o (IF d.from = 0 THEN <<>> ELSE <<S>>) \o <<D>>
  BY <1>1, <1>2 DEF ClaimBatch, RegistrationFirst, StandDownOf, ClaimItself,
                    RegistersFor, DisplacesFor, ClaimsFor
<1> SUFFICES b \in Seq(Event) /\ DistinctKeys(b) /\ ClaimPlan(l, c, v, b, d)
  BY <1>1, <1>2 DEF PlanFits
<1> HIDE DEF v, b, R, S, D
<1>7. R.key # D.key /\ (d.from # 0 => S.key # R.key /\ S.key # D.key)
  <2>1. R.key[1] = "register" /\ D.key[1] = "own" /\ (d.from # 0 => S.key[1] = "standdown")
    BY <1>3, <1>4, <1>5
  <2> QED BY <2>1
<1>8. CASE IsRegistered(l, c.node) /\ d.from = 0
  <2>1. b = <<D>>
    <3>1. b = (<<>> \o <<>>) \o <<D>>
      BY <1>6, <1>8
    <3>2. <<>> \o <<>> = <<>>
      BY ConcatEmptySeq
    <3> QED BY <3>1, <3>2, <1>5, ConcatEmptySeq
  <2>2. b \in Seq(Event) /\ DOMAIN b = 1 .. 1
    BY <1>5, <1>8, <2>1
  <2>3. DistinctKeys(b)
    BY <1>7, <1>8, <2>1, <2>2 DEF DistinctKeys
  <2>4. ClaimPlan(l, c, v, b, d)
    BY <1>1, <1>2, <1>8, <2>1, <2>2 DEF ClaimPlan, D
  <2> QED BY <2>2, <2>3, <2>4
<1>9. CASE IsRegistered(l, c.node) /\ d.from # 0
  <2>1. b = <<S, D>>
    <3>1. b = (<<>> \o <<S>>) \o <<D>>
      BY <1>6, <1>9
    <3>2. <<>> \o <<S>> = <<S>>
      BY <1>4, <1>9, ConcatEmptySeq
    <3> QED BY <3>1, <3>2, <1>4, <1>5, <1>9, PairOf
  <2>2. b \in Seq(Event) /\ DOMAIN b = 1 .. 2
    BY <1>4, <1>5, <1>9, <2>1
  <2>3. DistinctKeys(b)
    BY <1>7, <1>9, <2>1, <2>2 DEF DistinctKeys
  <2>4. ClaimPlan(l, c, v, b, d)
    BY <1>1, <1>2, <1>9, <2>1, <2>2 DEF ClaimPlan, S, D
  <2> QED BY <2>2, <2>3, <2>4
<1>10. CASE ~IsRegistered(l, c.node) /\ d.from = 0
  <2>1. b = <<R, D>>
    <3>1. b = (<<R>> \o <<>>) \o <<D>>
      BY <1>6, <1>10
    <3>2. <<R>> \o <<>> = <<R>>
      BY <1>3, ConcatEmptySeq
    <3> QED BY <3>1, <3>2, <1>3, <1>5, PairOf
  <2>2. b \in Seq(Event) /\ DOMAIN b = 1 .. 2
    BY <1>3, <1>5, <1>10, <2>1
  <2>3. DistinctKeys(b)
    BY <1>7, <1>10, <2>1, <2>2 DEF DistinctKeys
  <2>4. ClaimPlan(l, c, v, b, d)
    BY <1>1, <1>2, <1>10, <2>1, <2>2 DEF ClaimPlan, R, D
  <2> QED BY <2>2, <2>3, <2>4
<1>11. CASE ~IsRegistered(l, c.node) /\ d.from # 0
  <2>1. b = <<R, S, D>>
    <3>1. b = (<<R>> \o <<S>>) \o <<D>>
      BY <1>6, <1>11
    <3>2. <<R>> \o <<S>> = <<R, S>>
      BY <1>3, <1>4, <1>11, PairOf
    <3> QED BY <1>3, <1>4, <1>5, <1>11, <3>1, <3>2, TripleOf
  <2>2. b \in Seq(Event) /\ DOMAIN b = 1 .. 3
    BY <1>3, <1>4, <1>5, <1>11, <2>1
  <2>3. DistinctKeys(b)
    BY <1>7, <1>11, <2>1, <2>2 DEF DistinctKeys
  <2>4. ClaimPlan(l, c, v, b, d)
    BY <1>1, <1>2, <1>11, <2>1, <2>2 DEF ClaimPlan, R, S, D
  <2> QED BY <2>2, <2>3, <2>4
<1> QED BY <1>8, <1>9, <1>10, <1>11
-----------------------------------------------------------------------------
(***************************************************************************)
(* The invariant.  A plan fits the log; the writer's entries still to be   *)
(* written are those that are not on record; and as long as one of them is *)
(* an ownership event, the view it was decided on stands.                  *)
(***************************************************************************)
Inv ==
  /\ TypeOK
  /\ Sound(log)
  /\ \A p \in Process :
       pc[p] \in {"appending", "writing"} =>
         PlanFits(log, call[p], plan[p].view, plan[p].batch)
  /\ writer # NoProcess =>
       /\ batch = plan[writer].batch
       /\ todo = Fresh(batch, log)
       /\ (\E i \in todo : batch[i].type # "session_registered") =>
            View(log, call[writer]) = plan[writer].view

LEMMA ViewTyped ==
  ASSUME NEW l, Sound(l), NEW c
  PROVE  View(l, c) \in Views
<1> DEFINE f == FoldOwner(l)
           other == IF c.kind = "claim" THEN c.node ELSE NoNode
<1>1. l \in Seq(Event)
  BY DEF Sound
<1>2. /\ f.anchor \in OwnershipEvents(l) \cup {0} /\ f.anchor \in Nat
      /\ f.owner # NoNode => f.owner \in Node
  BY FoldIs
<1>3. /\ Len(l) \in Nat /\ DOMAIN l = 1 .. Len(l) /\ Declarations(l) \in SUBSET (1 .. Len(l))
      /\ OwnershipEvents(l) \in SUBSET (1 .. Len(l))
  BY <1>1, Positions
<1>4. Latest(Declarations(l)) \in Nat
  <2>1. Latest(Declarations(l)) \in Declarations(l) \cup {0}
    BY <1>3, LatestIs
  <2> QED BY <1>3, <2>1
<1>5. f.declaring \in Nat
  BY <1>4 DEF FoldOwner
<1>6. f.anchorNode \in Node \cup {NoNode}
  <2>1. f.anchorNode = IF f.anchor = 0 THEN NoNode ELSE l[f.anchor].node
    BY DEF FoldOwner
  <2>2. ASSUME f.anchor # 0 PROVE l[f.anchor] \in Event
    BY <1>1, <1>2, <1>3, <2>2
  <2> HIDE DEF f
  <2> QED BY <2>1, <2>2, EventShape
<1>7. f.stoodDown \in BOOLEAN /\ f.hasEvents \in BOOLEAN
  BY DEF FoldOwner
<1>8. f = [owner |-> f.owner, declaring |-> f.declaring, anchor |-> f.anchor,
           stoodDown |-> f.stoodDown, anchorNode |-> f.anchorNode, hasEvents |-> f.hasEvents]
  BY DEF FoldOwner
<1>9. LegacyOwner(l, other) \in Nat
  <2> HIDE DEF other
  <2>1. LegacyOwner(l, other) \in DOMAIN l \cup {0}
    BY <1>1, LegacyIs
  <2> QED BY <1>3, <2>1
<1> HIDE DEF f
<1>10. View(l, c) = <<f, IF f.hasEvents THEN 0 ELSE LegacyOwner(l, other)>>
  BY DEF View, f
<1>11. f \in [owner : Node \cup {NoNode}, declaring : Nat, anchor : Nat, stoodDown : BOOLEAN,
              anchorNode : Node \cup {NoNode}, hasEvents : BOOLEAN]
  BY <1>2, <1>5, <1>6, <1>7, <1>8
<1> QED BY <1>9, <1>10, <1>11 DEF Views

LEMMA InitInv == Init => Inv
<1> SUFFICES ASSUME Init PROVE Inv
  OBVIOUS
<1>1. Sound(log)
  BY LogsAssumption DEF Init
<1>2. log \in Seq(Event)
  BY <1>1 DEF Sound
<1>3. call \in [Process -> AllCalls]
  BY DEF Init, AllCalls
<1>4. plan \in [Process -> Plans]
  BY DEF Init, NoPlan, Plans, Views
<1>5. TypeOK
  BY <1>2, <1>3, <1>4, NoProcessAssumption, ReevaluationsAssumption DEF Init, TypeOK
<1> QED BY <1>1, <1>5 DEF Init, Inv
-----------------------------------------------------------------------------
\* A step of p that leaves the log as it is, and p outside its write.
LEMMA OutsideStep ==
  ASSUME Inv, NEW p \in Process, UNCHANGED <<log, writer, batch, todo>>, writer # p,
         NEW where \in {"idle", "evaluating", "appending"}, pc' = [pc EXCEPT ![p] = where],
         NEW c \in AllCalls, call' = [call EXCEPT ![p] = c],
         NEW n \in 0 .. MaxReevaluations, tries' = [tries EXCEPT ![p] = n],
         NEW w \in Plans, plan' = [plan EXCEPT ![p] = w],
         where = "appending" => PlanFits(log, c, w.view, w.batch)
  PROVE  Inv'
<1>1. /\ log \in Seq(Event) /\ writer \in Process \cup {NoProcess} /\ todo \subseteq DOMAIN batch
      /\ pc \in [Process -> {"idle", "evaluating", "appending", "writing"}]
      /\ call \in [Process -> AllCalls] /\ tries \in [Process -> 0 .. MaxReevaluations]
      /\ plan \in [Process -> Plans]
      /\ \A q \in Process : pc[q] = "writing" <=> writer = q
  BY DEF Inv, TypeOK
<1>2. /\ \A q \in Process : pc'[q] = IF q = p THEN where ELSE pc[q]
      /\ \A q \in Process : call'[q] = IF q = p THEN c ELSE call[q]
      /\ \A q \in Process : plan'[q] = IF q = p THEN w ELSE plan[q]
  BY <1>1
<1>3. TypeOK'
  <2>1. /\ pc' \in [Process -> {"idle", "evaluating", "appending", "writing"}]
        /\ call' \in [Process -> AllCalls] /\ tries' \in [Process -> 0 .. MaxReevaluations]
        /\ plan' \in [Process -> Plans]
    BY <1>1
  <2>3. \A q \in Process : pc'[q] = "writing" <=> writer' = q
    BY <1>1, <1>2
  <2> QED BY <1>1, <2>1, <2>3 DEF TypeOK
<1>4. ASSUME NEW q \in Process, pc'[q] \in {"appending", "writing"}
      PROVE  PlanFits(log', call'[q], plan'[q].view, plan'[q].batch)
  <2>1. CASE q = p
    BY <1>2, <1>4, <2>1
  <2>2. CASE q # p
    BY <1>2, <1>4, <2>2 DEF Inv
  <2> QED BY <2>1, <2>2
<1>5. ASSUME writer' # NoProcess
      PROVE  /\ batch' = plan'[writer'].batch
             /\ todo' = Fresh(batch', log')
             /\ (\E i \in todo' : batch'[i].type # "session_registered") =>
                  View(log', call'[writer']) = plan'[writer'].view
  <2>1. writer \in Process /\ writer # p /\ writer' = writer
    BY <1>1, <1>5
  <2>2. plan'[writer] = plan[writer] /\ call'[writer] = call[writer]
    BY <1>2, <2>1
  <2> QED BY <1>5, <2>1, <2>2 DEF Inv
<1>6. Sound(log')
  BY DEF Inv
<1> QED BY <1>3, <1>4, <1>5, <1>6 DEF Inv

LEMMA CallsKept ==
  ASSUME Inv, NEW p \in Process
  PROVE  /\ call[p] \in AllCalls /\ CallFits(call[p]) /\ tries[p] \in 0 .. MaxReevaluations
         /\ call = [call EXCEPT ![p] = call[p]] /\ tries = [tries EXCEPT ![p] = tries[p]]
         /\ (call[p].kind = "claim" => call[p] \in AllClaims)
         /\ (pc[p] # "writing" <=> writer # p)
         /\ NoCall \in AllCalls /\ NoPlan \in Plans /\ 0 \in 0 .. MaxReevaluations
<1>1. /\ call \in [Process -> AllCalls] /\ tries \in [Process -> 0 .. MaxReevaluations]
      /\ pc[p] = "writing" <=> writer = p
  BY DEF Inv, TypeOK
<1>2. CallFits(call[p])
  BY <1>1, CallsFit
<1>3. NoCall \in AllCalls
  BY DEF AllCalls
<1>4. NoPlan \in Plans /\ 0 \in 0 .. MaxReevaluations
  BY ReevaluationsAssumption DEF NoPlan, Plans, Views
<1> QED BY <1>1, <1>2, <1>3, <1>4 DEF CallFits

LEMMA CallStep ==
  ASSUME Inv, NEW p \in Process, CallClaim(p) \/ CallStandDown(p) \/ CallRegister(p)
  PROVE  Inv'
<1>1. PICK c \in AllCalls : Call(p, c)
  <2>1. CASE CallClaim(p)
    BY <2>1, ClaimsAssumption DEF CallClaim, AllCalls
  <2>2. CASE CallStandDown(p)
    BY <2>2 DEF CallStandDown, AllCalls
  <2>3. CASE CallRegister(p)
    BY <2>3 DEF CallRegister, AllCalls
  <2> QED BY <2>1, <2>2, <2>3
<1>2. /\ writer # p /\ MaxReevaluations \in 0 .. MaxReevaluations
      /\ plan[p] \in Plans /\ plan' = [plan EXCEPT ![p] = plan[p]]
  BY <1>1, ReevaluationsAssumption DEF Call, Inv, TypeOK
<1> QED BY <1>1, <1>2, OutsideStep DEF Call

LEMMA ReturnStep ==
  ASSUME Inv, NEW p \in Process, Return(p), UNCHANGED logVars, writer # p
  PROVE  Inv'
BY CallsKept, OutsideStep DEF Return, logVars

LEMMA DecidedStep ==
  ASSUME Inv, NEW p \in Process, NEW b, Decided(p, b), UNCHANGED <<log, writer, batch, todo>>,
         pc[p] = "evaluating", PlanFits(log, call[p], View(log, call[p]), b)
  PROVE  Inv'
<1> DEFINE w == [batch |-> b, view |-> View(log, call[p])]
<1>1. w \in Plans /\ PlanFits(log, call[p], w.view, w.batch)
  BY ViewTyped DEF PlanFits, Plans, Inv
<1>2. /\ pc' = [pc EXCEPT ![p] = "appending"] /\ plan' = [plan EXCEPT ![p] = w]
      /\ call' = [call EXCEPT ![p] = call[p]] /\ tries' = [tries EXCEPT ![p] = tries[p]]
  BY CallsKept DEF Decided
<1>3. /\ writer # p /\ call[p] \in AllCalls /\ tries[p] \in 0 .. MaxReevaluations
  BY CallsKept
<1> HIDE DEF w
<1> QED BY <1>1, <1>2, <1>3, OutsideStep

LEMMA EvaluateStep ==
  ASSUME Inv, NEW p \in Process, EvaluateClaim(p) \/ EvaluateStandDown(p) \/ EvaluateRegister(p)
  PROVE  Inv'
<1> USE DEF logVars
<1>1. /\ Sound(log) /\ call[p] \in AllCalls /\ CallFits(call[p]) /\ log \in Seq(Event)
      /\ call[p].kind = "claim" => call[p] \in AllClaims
      /\ pc[p] = "evaluating" => writer # p
  BY CallsKept DEF Inv, TypeOK
<1>2. CASE EvaluateRegister(p)
  <2>1. PlanFits(log, call[p], View(log, call[p]), <<Registered(call[p].node, call[p].eligible)>>)
    BY <1>1, <1>2, RegisterPlan DEF EvaluateRegister
  <2> QED BY <1>2, <2>1, DecidedStep DEF EvaluateRegister
<1>3. CASE EvaluateClaim(p)
  <2> DEFINE c == call[p]
             d == DecideClaim(log, c.node, c.ended, c.attested)
  <2>1. \/ Return(p)
        \/ d.outcome \in Bases /\ Decided(p, ClaimBatch(c, d, log))
    BY <1>3 DEF EvaluateClaim
  <2>2. /\ UNCHANGED <<log, writer, batch, todo>> /\ pc[p] = "evaluating" /\ c \in AllClaims
        /\ writer # p
    BY <1>1, <1>3 DEF EvaluateClaim
  <2>3. CASE Return(p)
    BY <2>2, <2>3, ReturnStep
  <2>4. CASE d.outcome \in Bases /\ Decided(p, ClaimBatch(c, d, log))
    <3>1. PlanFits(log, c, View(log, c), ClaimBatch(c, d, log))
      BY <1>1, <2>2, <2>4, ClaimFitsPlan
    <3> QED BY <2>2, <2>4, <3>1, DecidedStep
  <2> QED BY <2>1, <2>3, <2>4
<1>4. CASE EvaluateStandDown(p)
  <2> DEFINE c == call[p]
             st == FoldOwner(log)
             r == IF st.hasEvents THEN 0 ELSE LegacyOwner(log, NoNode)
             Out(from) == <<StoodDown(c.node, from, c.by, NoNode, 0)>>
  <2>1. /\ UNCHANGED <<log, writer, batch, todo>> /\ pc[p] = "evaluating" /\ writer # p
        /\ c.kind = "stand_down" /\ CallFits(c) /\ c.node \in Node
    BY <1>1, <1>4 DEF EvaluateStandDown, CallFits
  <2>2. \/ Return(p)
        \/ st.owner = c.node /\ Decided(p, Out(st.declaring))
        \/ r # 0 /\ log[r].node = c.node /\ Decided(p, Out(r))
    BY <1>4 DEF EvaluateStandDown
  <2>3. CASE Return(p)
    BY <2>1, <2>3, ReturnStep
  <2>4. CASE st.owner = c.node /\ Decided(p, Out(st.declaring))
    <3>1. st.declaring \in DOMAIN log
      <4>1. st.owner # NoNode
        BY <2>1, <2>4, NoNodeAssumption
      <4>2. st.declaring \in Declarations(log)
        BY <1>1, <4>1, FoldIs
      <4> QED BY <4>2 DEF Declarations, OfType
    <3>2. PlanFits(log, c, View(log, c), Out(st.declaring))
      BY <1>1, <2>1, <2>4, <3>1, StandDownPlan
    <3> QED BY <2>1, <2>4, <3>2, DecidedStep
  <2>5. CASE r # 0 /\ log[r].node = c.node /\ Decided(p, Out(r))
    <3>1. ~st.hasEvents /\ r = LegacyOwner(log, NoNode)
      BY <2>5
    <3>2. r \in DOMAIN log
      BY <1>1, <2>5, <3>1, LegacyIs
    <3>3. PlanFits(log, c, View(log, c), Out(r))
      <4> HIDE DEF r
      <4> QED BY <1>1, <2>1, <2>5, <3>1, <3>2, StandDownPlan DEF Out, st
    <3> QED BY <2>1, <2>5, <3>3, DecidedStep
  <2> QED BY <2>2, <2>3, <2>4, <2>5
<1> QED BY <1>2, <1>3, <1>4

LEMMA AppendingStep ==
  ASSUME Inv, NEW p \in Process, AppendDeduped(p) \/ AppendUnmet(p) \/ AppendTimeout(p)
  PROVE  Inv'
<1>1. /\ writer # p /\ UNCHANGED logVars
  BY CallsKept DEF AppendDeduped, AppendUnmet, AppendTimeout, logVars
<1>2. CASE Return(p)
  BY <1>1, <1>2, ReturnStep
<1>3. CASE /\ tries[p] # 0 /\ pc' = [pc EXCEPT ![p] = "evaluating"]
           /\ tries' = [tries EXCEPT ![p] = @ - 1] /\ plan' = [plan EXCEPT ![p] = NoPlan]
           /\ UNCHANGED call
  <2>1. tries[p] - 1 \in 0 .. MaxReevaluations /\ tries' = [tries EXCEPT ![p] = tries[p] - 1]
    BY <1>3, CallsKept, ReevaluationsAssumption
  <2>2. call' = [call EXCEPT ![p] = call[p]] /\ call[p] \in AllCalls /\ NoPlan \in Plans
    BY <1>3, CallsKept
  <2> QED BY <1>1, <1>3, <2>1, <2>2, OutsideStep DEF logVars
<1> QED BY <1>2, <1>3 DEF AppendDeduped, AppendUnmet, AppendTimeout

LEMMA BeginStep ==
  ASSUME Inv, NEW p \in Process, AppendBegin(p)
  PROVE  Inv'
<1>1. /\ log \in Seq(Event) /\ writer \in Process \cup {NoProcess} /\ todo \subseteq DOMAIN batch
      /\ pc \in [Process -> {"idle", "evaluating", "appending", "writing"}]
      /\ call \in [Process -> AllCalls] /\ tries \in [Process -> 0 .. MaxReevaluations]
      /\ plan \in [Process -> Plans]
      /\ \A q \in Process : pc[q] = "writing" <=> writer = q
  BY DEF Inv, TypeOK
<1>2. /\ pc[p] = "appending" /\ writer = NoProcess /\ StillAsDecided(p)
      /\ writer' = p /\ batch' = plan[p].batch /\ todo' = Fresh(plan[p].batch, log)
      /\ UNCHANGED <<log, call, tries, plan>>
      /\ pc' = [pc EXCEPT ![p] = "writing"]
  BY DEF AppendBegin, Begin, LockFree
<1>3. PlanFits(log, call[p], plan[p].view, plan[p].batch)
  BY <1>2 DEF Inv
<1>4. \A q \in Process : pc'[q] = IF q = p THEN "writing" ELSE pc[q]
  BY <1>1, <1>2
<1>5. TypeOK'
  <2>1. todo' \subseteq DOMAIN batch'
    BY <1>2 DEF Fresh
  <2>2. pc' \in [Process -> {"idle", "evaluating", "appending", "writing"}]
    BY <1>1, <1>2
  <2>3. \A q \in Process : pc'[q] = "writing" <=> writer' = q
    BY <1>1, <1>2, <1>4, NoProcessAssumption
  <2> QED BY <1>1, <1>2, <2>1, <2>2, <2>3 DEF TypeOK
<1>6. ASSUME NEW q \in Process, pc'[q] \in {"appending", "writing"}
      PROVE  PlanFits(log', call'[q], plan'[q].view, plan'[q].batch)
  BY <1>2, <1>3, <1>4, <1>6 DEF Inv
<1>7. (\E i \in todo' : batch'[i].type # "session_registered") => View(log', call'[p]) = plan'[p].view
  <2>1. CASE call[p].kind = "register"
    <3>1. call[p].node \in Node /\ call[p].eligible \in BOOLEAN
      BY <2>1, CallsKept DEF CallFits
    <3>2. plan[p].batch = <<Registered(call[p].node, call[p].eligible)>>
      BY <1>3, <2>1 DEF PlanFits
    <3>3. \A i \in DOMAIN batch' : batch'[i].type = "session_registered"
      BY <1>2, <3>1, <3>2, MadeRegistered
    <3> QED BY <1>5, <3>3 DEF TypeOK
  <2>2. CASE call[p].kind # "register"
    BY <1>2, <2>2 DEF StillAsDecided
  <2> QED BY <2>1, <2>2
<1>8. Sound(log')
  BY <1>2 DEF Inv
<1> QED BY <1>2, <1>5, <1>6, <1>7, <1>8 DEF Inv

\* The lock is given up, after the last line or by a death in between.
LEMMA ReleaseStep ==
  ASSUME Inv, NEW p \in Process, Release(p), Return(p)
  PROVE  Inv'
<1>1. /\ log \in Seq(Event) /\ writer \in Process \cup {NoProcess} /\ todo \subseteq DOMAIN batch
      /\ pc \in [Process -> {"idle", "evaluating", "appending", "writing"}]
      /\ call \in [Process -> AllCalls] /\ tries \in [Process -> 0 .. MaxReevaluations]
      /\ plan \in [Process -> Plans]
      /\ \A q \in Process : pc[q] = "writing" <=> writer = q
  BY DEF Inv, TypeOK
<1>2. /\ writer = p /\ writer' = NoProcess /\ batch' = <<>> /\ todo' = {} /\ UNCHANGED log
      /\ pc' = [pc EXCEPT ![p] = "idle"] /\ call' = [call EXCEPT ![p] = NoCall]
      /\ tries' = [tries EXCEPT ![p] = 0] /\ plan' = [plan EXCEPT ![p] = NoPlan]
  BY DEF Release, Return
<1>3. /\ \A q \in Process : pc'[q] = IF q = p THEN "idle" ELSE pc[q]
      /\ \A q \in Process : q # p => call'[q] = call[q] /\ plan'[q] = plan[q]
  BY <1>1, <1>2
<1>4. TypeOK'
  <2>1. /\ pc' \in [Process -> {"idle", "evaluating", "appending", "writing"}]
        /\ call' \in [Process -> AllCalls] /\ tries' \in [Process -> 0 .. MaxReevaluations]
        /\ plan' \in [Process -> Plans]
    BY <1>1, <1>2, CallsKept
  <2>2. \A q \in Process : pc'[q] = "writing" <=> writer' = q
    BY <1>1, <1>2, <1>3, NoProcessAssumption
  <2> QED BY <1>1, <1>2, <2>1, <2>2 DEF TypeOK
<1>5. ASSUME NEW q \in Process, pc'[q] \in {"appending", "writing"}
      PROVE  PlanFits(log', call'[q], plan'[q].view, plan'[q].batch)
  <2>1. q # p /\ pc[q] \in {"appending", "writing"}
    BY <1>3, <1>5
  <2> QED BY <1>2, <1>3, <2>1 DEF Inv
<1>6. Sound(log')
  BY <1>2 DEF Inv
<1> QED BY <1>2, <1>4, <1>5, <1>6 DEF Inv

\* The next line reaches the log; the owner that readers see moves as it may.
LEMMA PutStep ==
  ASSUME Inv, NEW p \in Process, Put(p), UNCHANGED <<pc, call, tries, plan>>
  PROVE  Inv' /\ OwnerMoves(call[p], FoldOwner(log).owner, FoldOwner(log').owner)
<1>1. /\ log \in Seq(Event) /\ writer \in Process \cup {NoProcess} /\ todo \subseteq DOMAIN batch
      /\ pc \in [Process -> {"idle", "evaluating", "appending", "writing"}]
      /\ call \in [Process -> AllCalls] /\ tries \in [Process -> 0 .. MaxReevaluations]
      /\ plan \in [Process -> Plans]
      /\ \A q \in Process : pc[q] = "writing" <=> writer = q
  BY DEF Inv, TypeOK
<1>2. PICK i \in todo : /\ \A j \in todo : i <= j
                        /\ log' = Append(log, batch[i]) /\ todo' = todo \ {i}
  BY DEF Put, IsNext
<1>3. /\ writer = p /\ writer' = p /\ batch' = batch /\ p # NoProcess
      /\ UNCHANGED <<pc, call, tries, plan>>
  BY NoProcessAssumption DEF Put
<1> DEFINE c == call[p]
           v == plan[p].view
           b == plan[p].batch
<1>4. /\ batch = b /\ todo = Fresh(b, log) /\ Sound(log) /\ CallFits(c)
      /\ (\E j \in todo : b[j].type # "session_registered") => View(log, c) = v
  BY <1>3, CallsKept DEF Inv
<1>5. PlanFits(log, c, v, b)
  BY <1>1, <1>3 DEF Inv
<1>6. /\ b \in Seq(Event) /\ DistinctKeys(b) /\ i \in DOMAIN b /\ b[i] \in Event
      /\ b[i].key \notin Keys(log) /\ DOMAIN b = 1 .. Len(b) /\ Len(b) \in Nat
  BY <1>4, <1>5 DEF PlanFits, Fresh
<1>7. \A j \in DOMAIN b : j < i => b[j].key \in Keys(log)
  <2> SUFFICES ASSUME NEW j \in DOMAIN b, j < i, b[j].key \notin Keys(log) PROVE FALSE
    OBVIOUS
  <2>1. j \in todo
    BY <1>4 DEF Fresh
  <2> QED BY <1>2, <1>6, <2>1
<1>8. b[i].type # "session_registered" => View(log, c) = v
  BY <1>4
<1>9. /\ Sound(log') /\ OwnerMoves(c, FoldOwner(log).owner, FoldOwner(log').owner)
      /\ (\E j \in DOMAIN b : j > i) => View(log', c) = View(log, c)
  <2>1. log' = Append(log, b[i])
    BY <1>2, <1>4
  <2>2. IsFirstFresh(log, b, i)
    BY <1>6, <1>7 DEF IsFirstFresh
  <2> HIDE DEF c, v, b
  <2>3. ASSUME NEW m, m = Append(log, b[i])
        PROVE  /\ Sound(m) /\ OwnerMoves(c, FoldOwner(log).owner, FoldOwner(m).owner)
               /\ ViewStays(log, m, c, b, i)
    <3>1. Sound(log) /\ CallFits(c) /\ PlanFits(log, c, v, b) /\ i \in DOMAIN b
      BY <1>4, <1>5, <1>6
    <3>2. IsStillAsDecided(log, c, v, b[i])
      BY <1>8 DEF IsStillAsDecided
    <3> QED BY <2>2, <2>3, <3>1, <3>2, NextLine
  <2> QED BY <2>1, <2>3 DEF ViewStays
<1>10. todo' = Fresh(b, log')
  <2>1. Keys(log') = Keys(log) \cup {b[i].key}
    <3>1. /\ DOMAIN log' = 1 .. Len(log) + 1 /\ log'[Len(log) + 1] = b[i]
          /\ \A k \in DOMAIN log : log'[k] = log[k] /\ k \in DOMAIN log'
          /\ DOMAIN log = 1 .. Len(log) /\ Len(log) \in Nat
      BY <1>1, <1>2, <1>4, <1>6
    <3> QED BY <3>1 DEF Keys
  <2>2. \A j \in DOMAIN b : b[j].key = b[i].key <=> j = i
    BY <1>6 DEF DistinctKeys
  <2> HIDE DEF b
  <2> QED BY <1>2, <1>4, <2>1, <2>2 DEF Fresh
<1>11. (\E j \in todo' : b[j].type # "session_registered") => View(log', c) = v
  <2> SUFFICES ASSUME NEW j \in todo', b[j].type # "session_registered"
               PROVE  View(log', c) = v
    OBVIOUS
  <2>1. j \in todo /\ j \in DOMAIN b /\ j > i
    BY <1>1, <1>2, <1>4, <1>6
  <2>2. View(log, c) = v
    BY <1>4, <2>1
  <2> QED BY <1>9, <2>1, <2>2
<1>12. TypeOK'
  <2>1. log' \in Seq(Event)
    BY <1>9 DEF Sound
  <2> QED BY <1>1, <1>2, <1>3, <2>1 DEF TypeOK
<1>13. ASSUME NEW q \in Process, pc'[q] \in {"appending", "writing"}
       PROVE  PlanFits(log', call'[q], plan'[q].view, plan'[q].batch)
  <2>1. PlanFits(log, call[q], plan[q].view, plan[q].batch)
    BY <1>3, <1>13 DEF Inv
  <2>2. log' = Append(log, b[i])
    BY <1>2, <1>4
  <2> HIDE DEF b
  <2> QED BY <1>1, <1>3, <1>6, <2>1, <2>2, PlansOutliveGrowth
<1> QED BY <1>3, <1>4, <1>9, <1>10, <1>11, <1>12, <1>13 DEF Inv

LEMMA CrashStep ==
  ASSUME Inv, NEW p \in Process, Crash(p)
  PROVE  Inv' /\ UNCHANGED log
<1>1. CASE writer = p
  BY <1>1, ReleaseStep DEF Crash, Release
<1>2. CASE writer # p
  BY <1>2, ReturnStep DEF Crash, logVars
<1> QED BY <1>1, <1>2

\* Every step but a write leaves the log, and with it the owner, as it is.
LEMMA ProcessStep ==
  ASSUME Inv, NEW p \in Process,
         \/ CallClaim(p) \/ CallStandDown(p) \/ CallRegister(p)
         \/ Step(p) \/ Crash(p)
  PROVE  /\ Inv'
         /\ \/ UNCHANGED log
            \/ /\ UNCHANGED call
               /\ OwnerMoves(call[p], FoldOwner(log).owner, FoldOwner(log').owner)
<1>1. CASE CallClaim(p) \/ CallStandDown(p) \/ CallRegister(p)
  <2>1. UNCHANGED log
    BY <1>1 DEF CallClaim, CallStandDown, CallRegister, Call
  <2> QED BY <1>1, <2>1, CallStep
<1>2. CASE EvaluateClaim(p) \/ EvaluateStandDown(p) \/ EvaluateRegister(p)
  <2>1. UNCHANGED log
    BY <1>2 DEF EvaluateClaim, EvaluateStandDown, EvaluateRegister
  <2> QED BY <1>2, <2>1, EvaluateStep
<1>3. CASE AppendDeduped(p) \/ AppendUnmet(p) \/ AppendTimeout(p)
  <2>1. UNCHANGED log
    BY <1>3 DEF AppendDeduped, AppendUnmet, AppendTimeout
  <2> QED BY <1>3, <2>1, AppendingStep
<1>4. CASE AppendBegin(p)
  <2>1. UNCHANGED log
    BY <1>4 DEF AppendBegin, Begin
  <2> QED BY <1>4, <2>1, BeginStep
<1>5. CASE WriteNext(p)
  BY <1>5, PutStep DEF WriteNext, procVars
<1>6. CASE WriteDone(p)
  <2>1. UNCHANGED log
    BY <1>6 DEF WriteDone, End, Release
  <2> QED BY <1>6, <2>1, ReleaseStep DEF WriteDone, End
<1>7. CASE Crash(p)
  BY <1>7, CrashStep
<1> QED BY <1>1, <1>2, <1>3, <1>4, <1>5, <1>6, <1>7 DEF Step

LEMMA NextInv == Inv /\ [Next]_vars => Inv'
<1> SUFFICES ASSUME Inv, [Next]_vars PROVE Inv'
  OBVIOUS
<1>1. CASE Next
  BY <1>1, ProcessStep DEF Next
<1>2. CASE UNCHANGED vars
  <2> USE <1>2 DEF vars
  <2>1. TypeOK'
    BY DEF Inv, TypeOK
  <2>2. Sound(log')
    BY DEF Inv
  <2>3. ASSUME NEW p \in Process, pc'[p] \in {"appending", "writing"}
        PROVE  PlanFits(log', call'[p], plan'[p].view, plan'[p].batch)
    BY <2>3 DEF Inv
  <2>4. writer' # NoProcess =>
          /\ batch' = plan'[writer'].batch
          /\ todo' = Fresh(batch', log')
          /\ (\E i \in todo' : batch'[i].type # "session_registered") =>
               View(log', call'[writer']) = plan'[writer'].view
    BY DEF Inv
  <2> QED BY <2>1, <2>2, <2>3, <2>4 DEF Inv
<1> QED BY <1>1, <1>2

LEMMA InvHolds == Spec => []Inv
BY InitInv, NextInv, PTL DEF Spec
-----------------------------------------------------------------------------
\* The log holds events; the lock's holder is the one process inside its write.
THEOREM TypesHold == Spec => []TypeOK
<1>1. Inv => TypeOK
  BY DEF Inv
<1> QED BY <1>1, InvHolds, PTL

\* claim, stand_down and register, raced, retried and cut short: whoever claims
\* is registered by then, its predecessor is ended before it, and none twice.
THEOREM OwnersSucceed == Spec => []OwnersSucceedOneAnother
<1>1. Inv => OwnersSucceedOneAnother
  BY DEF Inv, Sound, OwnersSucceedOneAnother
<1> QED BY <1>1, InvHolds, PTL

\* The precondition of claim serialises claims: nothing slips in between a claim
\* and the ownership event it was decided on, but its own stand-down.
THEOREM ClaimsSerialised == Spec => []ClaimsAreSerialised
<1>1. Inv => ClaimsAreSerialised
  BY DEF Inv, Sound, ClaimsAreSerialised
<1> QED BY <1>1, InvHolds, PTL

\* The first claim names the newest eligible registration it passes over, however
\* many registrations were written between its decision and its write.
THEOREM FirstClaimRespected == Spec => []FirstClaimRespectsLegacyOwner
<1>1. Inv => FirstClaimRespectsLegacyOwner
  BY DEF Inv, Sound, FirstClaimRespectsLegacyOwner
<1> QED BY <1>1, InvHolds, PTL
-----------------------------------------------------------------------------
LEMMA RegisterInit == Init => Register!Init
<1> SUFFICES ASSUME Init PROVE Register!Init
  OBVIOUS
<1>1. Sound(log)
  BY LogsAssumption DEF Init
<1>2. FoldOwner(log).owner \in Node \cup {NoNode}
  BY <1>1, FoldIs
<1>3. Grounds = {} /\ Leaving = {}
  BY DEF Init, NoCall, Grounds, Leaving
<1> QED BY <1>2, <1>3 DEF Register!Init

LEMMA RegisterNext == Inv /\ [Next]_vars => [Register!Next]_Register!vars
<1> SUFFICES ASSUME Inv, [Next]_vars PROVE [Register!Next]_Register!vars
  OBVIOUS
<1>1. Grounds' \subseteq Node \X Node /\ Leaving' \subseteq Node
  BY DEF Grounds, Leaving
<1>2. CASE UNCHANGED log
  BY <1>1, <1>2 DEF Register!Next, Register!CallsComeAndGo
<1>3. ASSUME NEW p \in Process, UNCHANGED call,
             OwnerMoves(call[p], FoldOwner(log).owner, FoldOwner(log').owner)
      PROVE  [Register!Next]_Register!vars
  <2> DEFINE c == call[p]
             old == FoldOwner(log).owner
             new == FoldOwner(log').owner
  <2>1. Grounds' = Grounds /\ Leaving' = Leaving
    BY <1>3 DEF Grounds, Leaving
  <2>2. CallFits(c) /\ Sound(log)
    BY CallsKept DEF Inv
  <2>3. CASE new = old
    BY <2>1, <2>3 DEF Register!vars
  <2>4. CASE c.kind = "stand_down" /\ old = c.node /\ new = NoNode
    <3>1. old \in Leaving
      BY <2>2, <2>4 DEF Leaving, CallFits
    <3> QED BY <2>1, <2>4, <3>1 DEF Register!Next, Register!StandDown
  <2>5. CASE /\ c.kind = "claim" /\ new = c.node
             /\ old = NoNode \/ old = c.attested \/ old \in c.ended
    <3>1. new \in Node
      BY <2>2, <2>5 DEF CallFits, AllClaims
    <3>2. CASE old = NoNode
      BY <2>1, <3>1, <3>2 DEF Register!Next, Register!Claim
    <3>3. CASE old # NoNode
      <4>1. old \in Node
        BY <2>2, <3>3, FoldIs
      <4>2. <<new, old>> \in Grounds
        BY <2>5, <3>1, <3>3, <4>1 DEF Grounds
      <4> QED BY <2>1, <3>1, <3>3, <4>2 DEF Register!Next, Register!TakeOver
    <3> QED BY <3>2, <3>3
  <2> QED BY <1>3, <2>3, <2>4, <2>5 DEF OwnerMoves
<1>4. CASE UNCHANGED vars
  BY <1>2, <1>4 DEF vars
<1>5. CASE Next
  BY <1>2, <1>3, <1>5, ProcessStep DEF Next
<1> QED BY <1>4, <1>5

\* Ownership implements the register: at every moment readers see one owner or
\* none, and it changes in one step, with grounds against the very owner it was.
THEOREM OwnershipIsARegister == Spec => ImplementsOwnerRegister
<1>1. Spec => Register!Init
  BY RegisterInit DEF Spec
<1>2. Spec => [][Register!Next]_Register!vars
  BY InvHolds, RegisterNext, PTL DEF Spec
<1> QED BY <1>1, <1>2 DEF ImplementsOwnerRegister, Register!Spec
-----------------------------------------------------------------------------
(***************************************************************************)
(* The loop of fold_owner.  After i turns it holds what FoldOwner says of  *)
(* the first i events, stand-downs judged as orphaned by the whole log.    *)
(***************************************************************************)
ClaimsTo(l, i) == Declarations(l) \cap 1 .. i
EndsTo(l, i) == StandDowns(l) \cap 1 .. i

OwnerTo(l, i) ==
  LET d        == Latest(ClaimsTo(l, i))
      standing == d # 0 /\ ~ \E s \in EndsTo(l, i) : Ends(l, s, d)
      a        == Latest(ClaimsTo(l, i) \cup EndsTo(l, i))
  IN  [owner |-> IF standing THEN l[d].node ELSE NoNode,
       declaring |-> IF standing THEN d ELSE 0,
       anchor |-> a,
       stoodDown |-> a \in EndsTo(l, i),
       anchorNode |-> IF a = 0 THEN NoNode ELSE l[a].node,
       hasEvents |-> a # 0]

LEMMA LatestOfOneMore ==
  ASSUME NEW i \in Nat, NEW S \in SUBSET (1 .. i)
  PROVE  Latest(S \cup {i + 1}) = i + 1
<1> DEFINE Q == S \cup {i + 1}
<1>1. Q \in SUBSET (1 .. i + 1) /\ i + 1 \in Nat /\ i + 1 \in Q
  OBVIOUS
<1> HIDE DEF Q
<1>2. Latest(Q) \in Q \cup {0} /\ \A j \in Q : j <= Latest(Q)
  BY <1>1, LatestIs
<1>3. \A x \in Q \cup {0} : x \in Nat /\ x <= i + 1
  BY <1>1
<1>4. i + 1 <= Latest(Q) /\ Latest(Q) <= i + 1 /\ Latest(Q) \in Nat
  BY <1>1, <1>2, <1>3
<1> QED BY <1>4 DEF Q

LEMMA LoopStarts ==
  ASSUME NEW l
  PROVE  OwnerTo(l, 0) = Unowned
<1>1. ClaimsTo(l, 0) = {} /\ EndsTo(l, 0) = {}
  <2>1. 1 .. 0 = {}
    OBVIOUS
  <2> QED BY <2>1 DEF ClaimsTo, EndsTo
<1>2. Latest({}) = 0 /\ {} \cup {} = {}
  <2>1. Latest({}) = 0
    <3>1. {} \in SUBSET (1 .. 0) /\ 0 \in Nat
      OBVIOUS
    <3> QED BY <3>1, LatestIs
  <2> QED BY <2>1
<1>3. (0 # 0) = FALSE /\ (0 \in {}) = FALSE /\ {} \cup {} = {}
  OBVIOUS
<1>4. Latest(ClaimsTo(l, 0)) = 0 /\ Latest(ClaimsTo(l, 0) \cup EndsTo(l, 0)) = 0
  BY <1>1, <1>2
<1>5. OwnerTo(l, 0) = [owner |-> NoNode, declaring |-> 0, anchor |-> 0,
                       stoodDown |-> 0 \in EndsTo(l, 0),
                       anchorNode |-> NoNode, hasEvents |-> 0 # 0]
  BY <1>4 DEF OwnerTo
<1> QED BY <1>1, <1>3, <1>5 DEF Unowned

Answer(o, d, a, s, b, h) ==
  [owner |-> o, declaring |-> d, anchor |-> a, stoodDown |-> s, anchorNode |-> b,
   hasEvents |-> h]

AnchoredAnswer(o, d, n, i) == Answer(o, d, i, TRUE, n, TRUE)

LEMMA FieldsOf ==
  ASSUME NEW o, NEW d, NEW a, NEW s, NEW b, NEW h
  PROVE  LET r == Answer(o, d, a, s, b, h)
         IN  /\ DOMAIN r = {"owner", "declaring", "anchor", "stoodDown", "anchorNode", "hasEvents"}
             /\ r = [k \in DOMAIN r |-> r[k]]
             /\ r.owner = o /\ r.declaring = d /\ r.anchor = a
             /\ r.stoodDown = s /\ r.anchorNode = b /\ r.hasEvents = h
BY DEF Answer

LEMMA AnchoredIs ==
  ASSUME NEW o, NEW d, NEW a, NEW s, NEW b, NEW h, NEW n, NEW i
  PROVE  AnchoredAt(Answer(o, d, a, s, b, h), n, i) = AnchoredAnswer(o, d, n, i)
<1> DEFINE r == Answer(o, d, a, s, b, h)
           q == AnchoredAt(r, n, i)
           z == AnchoredAnswer(o, d, n, i)
<1> HIDE DEF r, z
<1>1. q = [k \in DOMAIN r |-> IF k = "hasEvents" THEN TRUE
                              ELSE IF k = "anchorNode" THEN n
                              ELSE IF k = "stoodDown" THEN TRUE
                              ELSE IF k = "anchor" THEN i ELSE r[k]]
  BY DEF AnchoredAt
<1>2. DOMAIN r = {"owner", "declaring", "anchor", "stoodDown", "anchorNode", "hasEvents"}
      /\ DOMAIN z = DOMAIN r /\ z = [k \in DOMAIN z |-> z[k]]
      /\ r.owner = o /\ r.declaring = d
  BY DEF r, z, Answer, AnchoredAnswer
<1>3. /\ z.owner = o /\ z.declaring = d /\ z.anchor = i
      /\ z.stoodDown = TRUE /\ z.anchorNode = n /\ z.hasEvents = TRUE
  BY DEF z, Answer, AnchoredAnswer
<1> HIDE DEF q
<1>4. DOMAIN q = DOMAIN r /\ \A k \in DOMAIN r : q[k] = z[k]
  BY <1>1, <1>2, <1>3
<1>5. q = [k \in DOMAIN q |-> q[k]]
  BY <1>1
<1>6. q = z
  BY <1>2, <1>4, <1>5
<1> QED BY <1>6 DEF q, r, z

Cleared(r) == [r EXCEPT !.owner = NoNode, !.declaring = 0]

LEMMA EndedIs ==
  ASSUME NEW o, NEW d, NEW a, NEW s, NEW b, NEW h
  PROVE  Cleared(Answer(o, d, a, s, b, h))
           = Answer(NoNode, 0, a, s, b, h)
<1> DEFINE r == Answer(o, d, a, s, b, h)
           q == Cleared(r)
           z == Answer(NoNode, 0, a, s, b, h)
<1> HIDE DEF r, z
<1>1. q = [k \in DOMAIN r |-> IF k = "declaring" THEN 0
                              ELSE IF k = "owner" THEN NoNode ELSE r[k]]
  BY DEF Cleared
<1>2. DOMAIN r = {"owner", "declaring", "anchor", "stoodDown", "anchorNode", "hasEvents"}
      /\ DOMAIN z = DOMAIN r /\ z = [k \in DOMAIN z |-> z[k]]
      /\ r.anchor = a /\ r.stoodDown = s /\ r.anchorNode = b /\ r.hasEvents = h
  BY DEF r, z, Answer
<1>3. /\ z.owner = NoNode /\ z.declaring = 0 /\ z.anchor = a
      /\ z.stoodDown = s /\ z.anchorNode = b /\ z.hasEvents = h
  BY DEF z, Answer
<1> HIDE DEF q
<1>4. DOMAIN q = DOMAIN r /\ \A k \in DOMAIN r : q[k] = z[k]
  BY <1>1, <1>2, <1>3
<1>5. q = [k \in DOMAIN q |-> q[k]]
  BY <1>1
<1>6. q = z
  BY <1>2, <1>4, <1>5
<1> QED BY <1>6 DEF q, r, z

LEMMA Turns ==
  ASSUME NEW l, NEW i \in Nat, i + 1 \in DOMAIN l
  PROVE  OwnerTo(l, i + 1) = FoldEvent(OwnerTo(l, i), l, i + 1)
<1> DEFINE j == i + 1
           C == ClaimsTo(l, i)
           E == EndsTo(l, i)
           d == Latest(C)
           a == Latest(C \cup E)
           standing == d # 0 /\ ~ \E s \in E : Ends(l, s, d)
<1>1. j \in Nat /\ \A x : x \in 1 .. j <=> x \in 1 .. i \/ x = j
  OBVIOUS
<1>2. /\ C \in SUBSET (1 .. i) /\ E \in SUBSET (1 .. i) /\ C \cup E \in SUBSET (1 .. i)
      /\ d \in 0 .. i /\ a \in 0 .. i
  <2>1. C \in SUBSET (1 .. i) /\ E \in SUBSET (1 .. i) /\ C \cup E \in SUBSET (1 .. i)
    BY DEF ClaimsTo, EndsTo
  <2>2. d \in C \cup {0} /\ a \in C \cup E \cup {0}
    BY <2>1, LatestIs
  <2> QED BY <2>1, <2>2
<1>3. \A S \in SUBSET (1 .. i) : Latest(S \cup {j}) = j
  BY LatestOfOneMore
<1>4. OwnerTo(l, i) = [owner |-> IF standing THEN l[d].node ELSE NoNode,
                       declaring |-> IF standing THEN d ELSE 0,
                       anchor |-> a, stoodDown |-> a \in E,
                       anchorNode |-> IF a = 0 THEN NoNode ELSE l[a].node,
                       hasEvents |-> a # 0]
  BY DEF OwnerTo
<1>5. /\ j \in Declarations(l) <=> l[j].type = "ownership_declared"
      /\ j \in StandDowns(l) <=> l[j].type = "ownership_stood_down" /\ ~Orphaned(l, j)
  BY DEF Declarations, StandDowns, OfType
<1>6. CASE l[j].type = "ownership_declared"
  <2>1. ClaimsTo(l, j) = C \cup {j} /\ EndsTo(l, j) = E
    BY <1>1, <1>5, <1>6 DEF ClaimsTo, EndsTo
  <2>2. Latest(C \cup {j}) = j /\ Latest((C \cup {j}) \cup E) = j
    <3>1. (C \cup {j}) \cup E = (C \cup E) \cup {j}
      OBVIOUS
    <3> HIDE DEF C, E, j
    <3> QED BY <1>2, <1>3, <3>1
  <2>3. (j # 0) = TRUE /\ (j \in E) = FALSE /\ ~ \E s \in E : Ends(l, s, j)
    <3> HIDE DEF C, E
    <3> QED BY <1>2 DEF Ends
  <2> HIDE DEF C, E, j
  <2>4. OwnerTo(l, j) = OwnedBy(l[j].node, j)
    BY <2>1, <2>2, <2>3 DEF OwnerTo, OwnedBy
  <2> QED BY <1>6, <2>4 DEF FoldEvent, j
<1>7. CASE l[j].type # "ownership_declared" /\ (l[j].type # "ownership_stood_down" \/ Orphaned(l, j))
  <2>1. ClaimsTo(l, j) = C /\ EndsTo(l, j) = E
    BY <1>1, <1>5, <1>7 DEF ClaimsTo, EndsTo
  <2> HIDE DEF C, E, j
  <2>2. OwnerTo(l, j) = OwnerTo(l, i)
    BY <1>4, <2>1 DEF OwnerTo
  <2> QED BY <1>7, <2>2 DEF FoldEvent, j
<1>8. CASE l[j].type = "ownership_stood_down" /\ ~Orphaned(l, j)
  <2>1. ClaimsTo(l, j) = C /\ EndsTo(l, j) = E \cup {j}
    BY <1>1, <1>5, <1>8 DEF ClaimsTo, EndsTo
  <2>2. Latest(C \cup (E \cup {j})) = j
    <3>1. C \cup (E \cup {j}) = (C \cup E) \cup {j}
      OBVIOUS
    <3> HIDE DEF C, E, j
    <3> QED BY <1>2, <1>3, <3>1
  <2> DEFINE ending == l[j].node = l[d].node /\ l[j].from = d
             stays == standing /\ ~ending
  <2>3. j # 0 /\ j > d
    BY <1>2
  <2>4. (d # 0 /\ ~ \E s \in E \cup {j} : Ends(l, s, d)) <=> stays
    <3> HIDE DEF C, E, j, d
    <3> QED BY <2>3 DEF Ends
  <2>5. OwnerTo(l, j) = AnchoredAnswer(IF stays THEN l[d].node ELSE NoNode, IF stays THEN d ELSE 0,
                                l[j].node, j)
    <3> HIDE DEF C, E, j, stays
    <3> QED BY <2>1, <2>2, <2>3, <2>4 DEF OwnerTo, Answer, AnchoredAnswer
  <2> DEFINE before == OwnerTo(l, i)
             hits == l[j].node = before.owner /\ l[j].from = before.declaring
             after == AnchoredAt(IF hits THEN Cleared(before)
                                 ELSE before, l[j].node, j)
  <2>6. FoldEvent(OwnerTo(l, i), l, j) = after
    BY <1>8 DEF FoldEvent, Cleared
  <2>7. after = AnchoredAnswer(IF hits THEN NoNode ELSE before.owner,
                          IF hits THEN 0 ELSE before.declaring, l[j].node, j)
    <3> DEFINE b == IF a = 0 THEN NoNode ELSE l[a].node
    <3>0. PICK u, v : u = (a \in E) /\ v = (a # 0)
      OBVIOUS
    <3> DEFINE same == Answer(before.owner, before.declaring, a, u, b, v)
               ended == Answer(NoNode, 0, a, u, b, v)
    <3>1. before = same
      BY <1>4, <3>0 DEF Answer
    <3> HIDE DEF b
    <3>2. Cleared(before) = ended
      <4> HIDE DEF E, a, before
      <4>1. Cleared(same) = ended
        BY EndedIs
      <4> HIDE DEF same, ended
      <4> QED BY <3>1, <4>1
    <3>3. /\ AnchoredAt(same, l[j].node, j)
               = AnchoredAnswer(before.owner, before.declaring, l[j].node, j)
          /\ AnchoredAt(ended, l[j].node, j) = AnchoredAnswer(NoNode, 0, l[j].node, j)
      <4> HIDE DEF E, a, j, before
      <4> QED BY AnchoredIs
    <3> HIDE DEF same, ended, before, j
    <3>4. CASE hits
      <4>1. after = AnchoredAt(ended, l[j].node, j)
        BY <3>2, <3>4
      <4> QED BY <3>3, <3>4, <4>1
    <3>5. CASE ~hits
      <4>1. after = AnchoredAt(same, l[j].node, j)
        BY <3>1, <3>5
      <4> QED BY <3>3, <3>5, <4>1
    <3> QED BY <3>4, <3>5
  <2>8. /\ before.owner = (IF standing THEN l[d].node ELSE NoNode)
        /\ before.declaring = (IF standing THEN d ELSE 0)
    BY <1>4
  <2> HIDE DEF before, after, standing, d, j
  <2>9. /\ (IF hits THEN NoNode ELSE before.owner) = (IF stays THEN l[d].node ELSE NoNode)
        /\ (IF hits THEN 0 ELSE before.declaring) = (IF stays THEN d ELSE 0)
    BY <2>8
  <2> QED BY <2>5, <2>6, <2>7, <2>9 DEF j
<1> QED BY <1>6, <1>7, <1>8

\* Induction over the naturals, for a set instead of a predicate.
LEMMA SetInduction ==
  ASSUME NEW T, 0 \in T, \A k \in Nat : k \in T => k + 1 \in T
  PROVE  Nat \subseteq T
<1> SUFFICES ASSUME NEW m \in Nat \ T PROVE FALSE
  OBVIOUS
<1>1. PICK x \in Nat \ T : \A y \in Nat \ T : <<y, x>> \notin Less
  BY LessIsWellFounded, WFMin
<1>2. \A y \in Nat \ T : ~(y < x)
  BY <1>1 DEF Less
<1>3. x # 0 /\ x - 1 \in Nat /\ x - 1 \in T
  BY <1>2
<1> QED BY <1>3

\* What the recursion of OwnerByLoop defines: a function that takes these turns.
Loops(f, l) ==
  f = [i \in 0 .. Len(l) |-> IF i = 0 THEN Unowned ELSE FoldEvent(f[i - 1], l, i)]

LEMMA LoopIsFold ==
  ASSUME NEW S, NEW l \in Seq(S)
  PROVE  OwnerByLoop(l) = FoldOwner(l)
<1> DEFINE n == Len(l)
           g == [i \in 0 .. n |-> OwnerTo(l, i)]
           f == CHOOSE h : Loops(h, l)
<1>1. n \in Nat /\ DOMAIN l = 1 .. n
  OBVIOUS
<1>2. Loops(g, l)
  <2>1. ASSUME NEW i \in 0 .. n
        PROVE  OwnerTo(l, i) = IF i = 0 THEN Unowned ELSE FoldEvent(g[i - 1], l, i)
    <3>1. CASE i = 0
      BY <3>1, LoopStarts
    <3>2. CASE i # 0
      <4> DEFINE k == i - 1
      <4>1. k \in Nat /\ k + 1 = i /\ k \in 0 .. n /\ k + 1 \in DOMAIN l
        BY <1>1, <2>1, <3>2
      <4>2. g[k] = OwnerTo(l, k)
        BY <4>1
      <4> HIDE DEF k, g
      <4>3. OwnerTo(l, k + 1) = FoldEvent(OwnerTo(l, k), l, k + 1)
        BY <4>1, Turns
      <4>4. OwnerTo(l, i) = FoldEvent(g[k], l, i)
        BY <4>1, <4>2, <4>3
      <4> QED BY <3>2, <4>4 DEF k
    <3> QED BY <3>1, <3>2
  <2> HIDE DEF n
  <2>2. g = [i \in 0 .. n |-> IF i = 0 THEN Unowned ELSE FoldEvent(g[i - 1], l, i)]
    BY <2>1
  <2> HIDE DEF g
  <2> QED BY <2>2 DEF Loops, n
<1>3. Loops(f, l)
  <2> HIDE DEF g
  <2> QED BY <1>2
<1>4. OwnerByLoop(l) = f[n]
  BY DEF OwnerByLoop, Loops
<1> HIDE DEF f
<1>5. f[n] = OwnerTo(l, n)
  <2> DEFINE T == {k \in Nat : k <= n => f[k] = OwnerTo(l, k)}
  <2>0. \A k \in 0 .. n : f[k] = IF k = 0 THEN Unowned ELSE FoldEvent(f[k - 1], l, k)
    BY <1>3 DEF Loops
  <2> HIDE DEF n
  <2>1. 0 \in T
    BY <1>1, <2>0, LoopStarts
  <2>2. ASSUME NEW k \in Nat, k \in T PROVE k + 1 \in T
    <3> SUFFICES ASSUME k + 1 <= n PROVE f[k + 1] = OwnerTo(l, k + 1)
      OBVIOUS
    <3>1. k + 1 \in DOMAIN l /\ k + 1 \in 0 .. n /\ k + 1 # 0 /\ (k + 1) - 1 = k /\ k <= n
      BY <1>1
    <3>2. f[k] = OwnerTo(l, k)
      BY <2>2, <3>1
    <3>3. f[k + 1] = FoldEvent(f[(k + 1) - 1], l, k + 1)
      BY <2>0, <3>1
    <3>4. f[k + 1] = FoldEvent(OwnerTo(l, k), l, k + 1)
      BY <3>1, <3>2, <3>3
    <3>5. OwnerTo(l, k + 1) = FoldEvent(OwnerTo(l, k), l, k + 1)
      BY <3>1, Turns
    <3> QED BY <3>4, <3>5
  <2> HIDE DEF T
  <2>3. Nat \subseteq T
    BY <2>1, <2>2, SetInduction
  <2>4. n \in T
    BY <1>1, <2>3
  <2> QED BY <1>1, <2>4 DEF T
<1>6. OwnerTo(l, n) = FoldOwner(l)
  <2>1. Declarations(l) \subseteq 1 .. n /\ StandDowns(l) \subseteq 1 .. n
    BY <1>1 DEF Declarations, StandDowns, OfType
  <2>2. ClaimsTo(l, n) = Declarations(l) /\ EndsTo(l, n) = StandDowns(l)
    <3> HIDE DEF n
    <3> QED BY <2>1 DEF ClaimsTo, EndsTo
  <2> HIDE DEF n
  <2> QED BY <2>2 DEF OwnerTo, FoldOwner
<1> QED BY <1>4, <1>5, <1>6

\* After every event the loop of fold_owner holds what readers are promised: the
\* newest claim no counting stand-down names, and the newest event that counts.  On
\* the log as it is at any moment, and with any line added to it by hand.
THEOREM LoopIsRight == Spec => []LoopFindsTheOwner
<1>1. Inv => LoopFindsTheOwner
  <2> SUFFICES ASSUME Inv, NEW l \in {log} \cup {Append(log, e) : e \in ForgedLines(log)}
               PROVE  OwnerByLoop(l) = FoldOwner(l)
    BY DEF LoopFindsTheOwner
  <2>1. log \in Seq(Event)
    BY DEF Inv, Sound
  <2>2. CASE l = log
    BY <2>1, <2>2, LoopIsFold
  <2>3. CASE \E e : l = Append(log, e)
    <3>1. PICK e : l = Append(log, e)
      BY <2>3
    <3> DEFINE S == Event \cup {e}
    <3>2. log \in Seq(S) /\ e \in S
      BY <2>1
    <3> HIDE DEF S
    <3>3. l \in Seq(S)
      BY <3>1, <3>2
    <3> QED BY <3>3, LoopIsFold
  <2> QED BY <2>2, <2>3
<1> QED BY <1>1, InvHolds, PTL
-----------------------------------------------------------------------------
(***************************************************************************)
(* The steps that a call has left.                                         *)
(***************************************************************************)
LEMMA PlansAreShort ==
  ASSUME NEW l, NEW c \in AllCalls, NEW v, NEW b, PlanFits(l, c, v, b)
  PROVE  b \in Seq(Event) /\ Len(b) \in Nat /\ Len(b) <= MostLines
<1>1. /\ b \in Seq(Event) /\ Len(b) \in Nat /\ DOMAIN b = 1 .. Len(b)
      /\ DistinctKeys(b)
  BY DEF PlanFits
<1>2. c.kind \in {"claim", "stand_down", "register"}
  BY DEF PlanFits, AllCalls, AllClaims, NoCall
<1>3. CASE c.kind = "register"
  BY <1>1, <1>3 DEF PlanFits, MostLines
<1>4. CASE c.kind = "stand_down"
  BY <1>1, <1>4 DEF PlanFits, MostLines
<1>5. CASE c.kind = "claim"
  <2>1. PICK d \in Decisions : ClaimPlan(l, c, v, b, d)
    BY <1>5 DEF PlanFits
  <2> DEFINE x == RegistersFor(c)
             y == DisplacesFor(c, v, d)
             z == ClaimsFor(c, v, d)
  <2>2. \A i \in DOMAIN b : b[i] = x \/ b[i] = y \/ b[i] = z
    BY <2>1 DEF ClaimPlan
  <2>3. \A i, j \in DOMAIN b : b[i] = b[j] => i = j
    BY <1>1 DEF DistinctKeys
  <2> HIDE DEF x, y, z
  <2>4. ASSUME Len(b) > 3 PROVE FALSE
    <3>1. 1 \in DOMAIN b /\ 2 \in DOMAIN b /\ 3 \in DOMAIN b /\ 4 \in DOMAIN b
      BY <1>1, <2>4
    <3>2. /\ b[1] # b[2] /\ b[1] # b[3] /\ b[1] # b[4]
          /\ b[2] # b[3] /\ b[2] # b[4] /\ b[3] # b[4]
      BY <2>3, <3>1
    <3> QED BY <2>2, <3>1, <3>2
  <2> QED BY <1>1, <2>4 DEF MostLines
<1> QED BY <1>2, <1>3, <1>4, <1>5

\* What is left to write is a few of the lines of the writer's plan.
LEMMA LinesLeft ==
  ASSUME Inv, writer # NoProcess
  PROVE  IsFiniteSet(todo) /\ Cardinality(todo) \in Nat /\ Cardinality(todo) <= MostLines
<1>1. writer \in Process /\ todo \subseteq DOMAIN batch
  BY DEF Inv, TypeOK
<1>2. /\ batch = plan[writer].batch /\ call[writer] \in AllCalls
      /\ PlanFits(log, call[writer], plan[writer].view, plan[writer].batch)
  BY <1>1 DEF Inv, TypeOK
<1>3. batch \in Seq(Event) /\ Len(batch) \in Nat /\ Len(batch) <= MostLines
  BY <1>2, PlansAreShort
<1>4. todo \subseteq 1 .. 3
  BY <1>1, <1>3 DEF MostLines
<1>5. IsFiniteSet(1 .. 3) /\ Cardinality(1 .. 3) = 3
  <2>1. 1 \in Int /\ 3 \in Int /\ (IF 1 > 3 THEN 0 ELSE 3 - 1 + 1) = 3
    OBVIOUS
  <2> QED BY <2>1, FS_Interval, Zenon
<1>6. IsFiniteSet(todo) /\ Cardinality(todo) <= 3
  BY <1>4, <1>5, FS_Subset
<1> QED BY <1>6, FS_CardinalityType DEF MostLines

\* p's part of the bookkeeping is left alone.
LEMMA OthersTakeNothing ==
  ASSUME NEW p \in Process, pc'[p] = pc[p], tries'[p] = tries[p],
         pc[p] = "writing" => UNCHANGED todo
  PROVE  StepsLeft(p)' = StepsLeft(p)
BY DEF StepsLeft

\* A step of one process is no step of another.
LEMMA OneProcessMoves ==
  ASSUME Inv, NEW p \in Process, NEW q \in Process, p # q,
         \/ CallClaim(q) \/ CallStandDown(q) \/ CallRegister(q)
         \/ Step(q) \/ Crash(q)
  PROVE  StepsLeft(p)' = StepsLeft(p)
<1>1. /\ pc \in [Process -> {"idle", "evaluating", "appending", "writing"}]
      /\ tries \in [Process -> 0 .. MaxReevaluations]
      /\ pc[p] = "writing" => writer = p
      /\ writer \in Process \cup {NoProcess} /\ NoProcess \notin Process
  BY NoProcessAssumption DEF Inv, TypeOK
<1>2. pc'[p] = pc[p] /\ tries'[p] = tries[p]
  BY <1>1 DEF CallClaim, CallStandDown, CallRegister, Call, Step, Crash, Return, Decided,
              EvaluateClaim, EvaluateStandDown, EvaluateRegister, AppendDeduped,
              AppendUnmet, AppendBegin, AppendTimeout, WriteNext, WriteDone, procVars
<1>3. pc[p] = "writing" => UNCHANGED todo
  <2> SUFFICES ASSUME writer = p PROVE UNCHANGED todo
    BY <1>1
  <2> QED BY <1>1 DEF CallClaim, CallStandDown, CallRegister, Call, Step, Crash, logVars,
              EvaluateClaim, EvaluateStandDown, EvaluateRegister, AppendDeduped,
              AppendUnmet, AppendBegin, AppendTimeout, WriteNext, WriteDone,
              Begin, LockFree, Put, End, Release
<1> QED BY <1>2, <1>3, OthersTakeNothing

\* What is left, by where p is.
Remaining(p) ==
  /\ tries[p] \in Nat /\ StepsLeft(p) \in Nat
  /\ pc[p] = "idle" => StepsLeft(p) = 0
  /\ pc[p] = "evaluating" => StepsLeft(p) = 2 * tries[p] + 6
  /\ pc[p] = "appending" => StepsLeft(p) = 2 * tries[p] + 5
  /\ pc[p] = "writing" => /\ StepsLeft(p) = Cardinality(todo) + 1
                          /\ writer = p
                          /\ IsFiniteSet(todo) /\ Cardinality(todo) \in 0 .. 3

LEMMA StepsLeftAre == Inv => \A p \in Process : Remaining(p)
<1> SUFFICES ASSUME Inv, NEW p \in Process PROVE Remaining(p)
  OBVIOUS
<1>1. /\ tries[p] \in Nat /\ (pc[p] = "writing" => writer = p /\ writer # NoProcess)
      /\ pc[p] \in {"idle", "evaluating", "appending", "writing"}
  BY NoProcessAssumption, ReevaluationsAssumption DEF Inv, TypeOK
<1>2. pc[p] = "writing" => IsFiniteSet(todo) /\ Cardinality(todo) \in 0 .. 3
  BY <1>1, LinesLeft DEF MostLines
<1> QED BY <1>1, <1>2 DEF StepsLeft, MostLines, Remaining

LEMMA StepsLeftHold ==
  (Inv => \A p \in Process : Remaining(p)) /\ (Inv' => \A p \in Process : Remaining(p)')
<1>1. Inv' => (\A p \in Process : Remaining(p))'
  BY StepsLeftAre, PTL
<1> QED BY <1>1, StepsLeftAre

\* A step of its own uses one up.
LEMMA OwnStepCounts ==
  ASSUME Inv, Inv', NEW p \in Process, Step(p)
  PROVE  StepsLeft(p)' < StepsLeft(p)
<1>1. /\ tries[p] \in Nat /\ tries'[p] \in Nat
      /\ pc[p] = "evaluating" => StepsLeft(p) = 2 * tries[p] + 6
      /\ pc[p] = "appending" => StepsLeft(p) = 2 * tries[p] + 5
      /\ pc[p] = "writing" => /\ StepsLeft(p) = Cardinality(todo) + 1
                              /\ writer = p
                              /\ IsFiniteSet(todo) /\ Cardinality(todo) \in 0 .. 3
      /\ pc'[p] = "idle" => StepsLeft(p)' = 0
      /\ pc'[p] = "evaluating" => StepsLeft(p)' = 2 * tries'[p] + 6
      /\ pc'[p] = "appending" => StepsLeft(p)' = 2 * tries'[p] + 5
      /\ pc'[p] = "writing" => /\ StepsLeft(p)' = Cardinality(todo') + 1
                               /\ Cardinality(todo') \in 0 .. 3
  BY StepsLeftHold DEF Remaining
<1>2. p \in DOMAIN pc /\ p \in DOMAIN tries
  BY DEF Inv, TypeOK
<1>3. CASE EvaluateClaim(p) \/ EvaluateStandDown(p) \/ EvaluateRegister(p)
  <2>1. pc[p] = "evaluating" /\ (Return(p) \/ \E b : Decided(p, b))
    BY <1>3 DEF EvaluateClaim, EvaluateStandDown, EvaluateRegister
  <2>2. pc'[p] = "idle" \/ (pc'[p] = "appending" /\ tries'[p] = tries[p])
    BY <1>2, <2>1 DEF Return, Decided
  <2> QED BY <1>1, <2>1, <2>2
<1>4. CASE AppendDeduped(p) \/ AppendTimeout(p)
  <2>1. pc[p] = "appending" /\ pc'[p] = "idle"
    BY <1>2, <1>4 DEF AppendDeduped, AppendTimeout, Return
  <2> QED BY <1>1, <2>1
<1>5. CASE AppendUnmet(p)
  <2>1. /\ pc[p] = "appending"
        /\ \/ pc'[p] = "idle"
           \/ pc'[p] = "evaluating" /\ tries'[p] = tries[p] - 1
    BY <1>2, <1>5 DEF AppendUnmet, Return
  <2> QED BY <1>1, <2>1
<1>6. CASE AppendBegin(p)
  <2>1. pc[p] = "appending" /\ pc'[p] = "writing"
    BY <1>2, <1>6 DEF AppendBegin
  <2> QED BY <1>1, <2>1
<1>7. CASE WriteNext(p)
  <2>1. pc[p] = "writing" /\ pc'[p] = pc[p]
    BY <1>1, <1>7 DEF WriteNext, Put, procVars, Inv, TypeOK
  <2>2. PICK i \in todo : todo' = todo \ {i}
    BY <1>7 DEF WriteNext, Put
  <2>3. Cardinality(todo') = Cardinality(todo) - 1
    BY <1>1, <2>1, <2>2, FS_RemoveElement
  <2> QED BY <1>1, <2>1, <2>3
<1>8. CASE WriteDone(p)
  <2>1. pc[p] = "writing" /\ pc'[p] = "idle"
    BY <1>2, <1>8 DEF WriteDone, End, Release, Return, Inv, TypeOK
  <2> QED BY <1>1, <2>1
<1> QED BY <1>3, <1>4, <1>5, <1>6, <1>7, <1>8 DEF Step

\* However many sessions interfere for however long, each step of a call's own
\* brings it nearer to its return, and no step of another's takes it farther away.
THEOREM OwnStepsRun == Spec => OwnStepsRunOut
<1> DEFINE Run ==
      \A p \in Process : pc[p] # "idle" =>
        /\ StepsLeft(p)' <= StepsLeft(p)
        /\ Step(p) => StepsLeft(p)' < StepsLeft(p)
<1>1. Inv /\ Inv' /\ [Next]_vars => [Run]_vars
  <2> SUFFICES ASSUME Inv, Inv', Next, NEW p \in Process, pc[p] # "idle"
               PROVE  /\ StepsLeft(p)' <= StepsLeft(p)
                      /\ Step(p) => StepsLeft(p)' < StepsLeft(p)
    OBVIOUS
  <2>1. StepsLeft(p) \in Nat
    BY StepsLeftHold DEF Remaining
  <2>2. PICK q \in Process : \/ CallClaim(q) \/ CallStandDown(q) \/ CallRegister(q)
                             \/ Step(q) \/ Crash(q)
    BY DEF Next
  <2>3. Step(p) => StepsLeft(p)' < StepsLeft(p)
    BY OwnStepCounts
  <2>4. CASE q # p
    BY <2>1, <2>2, <2>3, <2>4, OneProcessMoves
  <2>5. CASE q = p /\ Step(p)
    <3>1. StepsLeft(p)' \in Nat
      BY StepsLeftHold DEF Remaining
    <3> QED BY <2>1, <2>3, <2>5, <3>1
  <2>6. CASE q = p /\ Crash(p)
    <3>1. pc'[p] = "idle"
      BY <2>6 DEF Crash, Return, Inv, TypeOK
    <3>2. StepsLeft(p)' = 0
      BY <3>1 DEF StepsLeft
    <3> QED BY <2>1, <2>3, <3>2
  <2>7. CASE q = p /\ (CallClaim(p) \/ CallStandDown(p) \/ CallRegister(p))
    BY <2>7 DEF CallClaim, CallStandDown, CallRegister, Call
  <2> QED BY <2>2, <2>4, <2>5, <2>6, <2>7
<1> QED BY <1>1, InvHolds, PTL DEF Spec, OwnStepsRunOut
=============================================================================
