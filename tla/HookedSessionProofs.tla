------------------------- MODULE HookedSessionProofs ------------------------
(***************************************************************************)
(* Theorems of HookedSession.  The first half is about the gates, for any  *)
(* checkouts, gates, dispatches, role files and projects: the locator      *)
(* under slow git calls, and the words and the log of the role gate.  The  *)
(* second half is about the installer, for any entries and any settings:   *)
(* what install and uninstall make of what they read.                      *)
(***************************************************************************)
EXTENDS HookedSession, SequenceTheorems, WellFoundedInduction, TLAPS
-----------------------------------------------------------------------------
(***************************************************************************)
(* The locator.                                                            *)
(***************************************************************************)
LEMMA RungSets ==
  ASSUME NEW cs, NEW root, NEW place, NEW answered
  PROVE  /\ Matches("L1", cs, root, place, answered)
              = {s \in cs : <<root, s>> \in place.inside}
         /\ Matches("L2", cs, root, place, answered) = {s \in cs : s = place.declared}
         /\ Matches("L3", cs, root, place, answered)
              = {s \in cs : "branch" \in answered /\ s = place.branch}
         /\ Matches("L4", cs, root, place, answered) = cs
BY Zenon DEF Matches

LEMMA MatchesAreCandidates ==
  ASSUME NEW cs, NEW root, NEW place, NEW answered, NEW rung \in {"L1", "L2", "L3", "L4"}
  PROVE  Matches(rung, cs, root, place, answered) \subseteq cs
<1>1. CASE rung = "L1"
  <2>1. Matches("L1", cs, root, place, answered) = {s \in cs : <<root, s>> \in place.inside}
    BY RungSets
  <2> QED BY <1>1, <2>1
<1>2. CASE rung = "L2"
  <2>1. Matches("L2", cs, root, place, answered) = {s \in cs : s = place.declared}
    BY RungSets
  <2> QED BY <1>2, <2>1
<1>3. CASE rung = "L3"
  <2>1. Matches("L3", cs, root, place, answered)
          = {s \in cs : "branch" \in answered /\ s = place.branch}
    BY RungSets
  <2> QED BY <1>3, <2>1
<1>4. CASE rung = "L4"
  <2>1. Matches("L4", cs, root, place, answered) = cs
    BY RungSets
  <2> QED BY <1>4, <2>1
<1> QED BY <1>1, <1>2, <1>3, <1>4

\* Some first rung fires, if any does.
LEMMA FirstRung ==
  ASSUME NEW S \in SUBSET (1 .. 4), S # {}
  PROVE  \E i \in S : \A j \in S : i <= j
<1>1. CASE 1 \in S
  BY <1>1
<1>2. CASE 1 \notin S /\ 2 \in S
  BY <1>2
<1>3. CASE 1 \notin S /\ 2 \notin S /\ 3 \in S
  BY <1>3
<1>4. CASE 1 \notin S /\ 2 \notin S /\ 3 \notin S
  <2>1. PICK i \in S : TRUE
    OBVIOUS
  <2>2. \A j \in S : j = 4
    BY <1>4
  <2> QED BY <2>1, <2>2
<1> QED BY <1>1, <1>2, <1>3, <1>4

\* The answer at a root is the one match of the first rung that fires.
LEMMA ResolvedBy ==
  ASSUME NEW projects_, NEW root, NEW place, NEW answered,
         NEW ladder \in {FullLadder, <<"L1">>},
         ResolveAt(projects_, root, place, ladder, answered) # Nowhere
  PROVE  \E i \in DOMAIN ladder, s \in Slug :
           /\ Matches(ladder[i], Candidates(projects_, root), root, place, answered) = {s}
           /\ s \in Candidates(projects_, root)
           /\ ResolveAt(projects_, root, place, ladder, answered) = At(root, s)
           /\ \A j \in DOMAIN ladder :
                j < i => ~Fires(Matches(ladder[j], Candidates(projects_, root), root,
                                        place, answered))
<1> DEFINE Found(rung) == Matches(rung, Candidates(projects_, root), root, place, answered)
           firing == {i \in DOMAIN ladder : Fires(Found(ladder[i]))}
           first == CHOOSE i \in firing : \A j \in firing : i <= j
<1>1. DOMAIN ladder \subseteq 1 .. 4 /\ \A i \in DOMAIN ladder : ladder[i] \in {"L1", "L2", "L3", "L4"}
  BY DEF FullLadder
<1>2. firing # {}
  BY DEF ResolveAt
<1>3. first \in firing /\ \A j \in firing : first <= j
  BY <1>1, <1>2, FirstRung
<1>4. PICK s : Found(ladder[first]) = {s}
  BY <1>3 DEF Fires
<1>5. s \in Candidates(projects_, root)
  <2>1. ladder[first] \in {"L1", "L2", "L3", "L4"}
    BY <1>1, <1>3
  <2>2. Found(ladder[first]) \subseteq Candidates(projects_, root)
    BY <2>1, MatchesAreCandidates
  <2> HIDE DEF Found
  <2> QED BY <1>4, <2>1, <2>2
<1>6. ResolveAt(projects_, root, place, ladder, answered) = At(root, s)
  BY <1>2, <1>4 DEF ResolveAt
<1>7. \A j \in DOMAIN ladder : j < first => j \notin firing
  BY <1>1, <1>3
<1>8. s \in Slug /\ first \in DOMAIN ladder
  BY <1>3, <1>5 DEF Candidates
<1> QED BY <1>4, <1>5, <1>6, <1>7, <1>8

\* One hop outwards, an answer is a project in whose directory the place lies.
LEMMA OuterIsInside ==
  ASSUME NEW projects_, NEW root, NEW place, NEW answered, NEW found,
         found = ResolveAt(projects_, root, place, <<"L1">>, answered), found # Nowhere
  PROVE  <<found.workspace, found.slug>> \in place.inside
<1> DEFINE cs == Candidates(projects_, root)
<1>1. PICK i \in DOMAIN <<"L1">>, s \in Slug :
        /\ Matches(<<"L1">>[i], cs, root, place, answered) = {s}
        /\ found = At(root, s)
  BY ResolvedBy
<1>2. Matches("L1", cs, root, place, answered) = {s}
  BY <1>1
<1>3. Matches("L1", cs, root, place, answered) = {x \in cs : <<root, x>> \in place.inside}
  BY RungSets
<1>4. <<root, s>> \in place.inside
  BY <1>2, <1>3
<1> QED BY <1>1, <1>4 DEF At

\* With the branch unknown, the ladder answers the same, nothing, or a project
\* in whose directory the place lies.
LEMMA SlowBranch ==
  ASSUME NEW projects_, NEW root \in Root, NEW place, NEW answered \in SUBSET GitCalls, NEW found,
         found = ResolveAt(projects_, root, place, FullLadder, answered), found # Nowhere,
         found # ResolveAt(projects_, root, place, FullLadder, GitCalls)
  PROVE  FALSE
<1> DEFINE cs == Candidates(projects_, root)
           S(rung) == Matches(rung, cs, root, place, answered)
           F(rung) == Matches(rung, cs, root, place, GitCalls)
<1>1. S("L1") = F("L1") /\ S("L2") = F("L2") /\ S("L4") = F("L4") /\ S("L4") = cs
  <2>1. S("L1") = F("L1")
    <3>1. S("L1") = {s \in cs : <<root, s>> \in place.inside}
      BY RungSets
    <3>2. F("L1") = {s \in cs : <<root, s>> \in place.inside}
      BY RungSets
    <3> QED BY <3>1, <3>2
  <2>2. S("L2") = F("L2")
    <3>1. S("L2") = {s \in cs : s = place.declared}
      BY RungSets
    <3>2. F("L2") = {s \in cs : s = place.declared}
      BY RungSets
    <3> QED BY <3>1, <3>2
  <2>3. S("L4") = F("L4") /\ S("L4") = cs
    BY RungSets
  <2> HIDE DEF S, F
  <2> QED BY <2>1, <2>2, <2>3
<1>2. F("L3") \subseteq cs
  BY MatchesAreCandidates
<1>3. S("L3") = F("L3") \/ S("L3") = {}
  <2>1. S("L3") = {s \in cs : "branch" \in answered /\ s = place.branch}
    BY RungSets
  <2>2. F("L3") = {s \in cs : "branch" \in GitCalls /\ s = place.branch}
    BY RungSets
  <2> QED BY <2>1, <2>2 DEF GitCalls
<1>4. /\ DOMAIN FullLadder = 1 .. 4
      /\ FullLadder[1] = "L1" /\ FullLadder[2] = "L2"
      /\ FullLadder[3] = "L3" /\ FullLadder[4] = "L4"
  BY DEF FullLadder
<1>5. PICK i \in 1 .. 4, s \in Slug :
        /\ S(FullLadder[i]) = {s}
        /\ s \in cs
        /\ found = At(root, s)
        /\ \A j \in 1 .. 4 : j < i => ~Fires(S(FullLadder[j]))
  BY <1>4, ResolvedBy
<1>6. ~Fires({}) /\ \A x : Fires({x})
  BY DEF Fires
<1>7. \A k \in 1 .. 4 : F(FullLadder[k]) \subseteq cs
  BY <1>4, MatchesAreCandidates
<1>8. \E k \in 1 .. 4 : Fires(F(FullLadder[k]))
  <2> HIDE DEF S, F, cs
  <2>1. CASE i # 3
    <3>1. F(FullLadder[i]) = {s}
      BY <1>1, <1>4, <1>5, <2>1
    <3> QED BY <1>6, <3>1
  <2>2. CASE i = 3
    BY <1>1, <1>3, <1>4, <1>5, <1>6, <2>2
  <2> QED BY <2>1, <2>2
<1>9. ResolveAt(projects_, root, place, FullLadder, GitCalls) # Nowhere
  <2>1. \A x : At(root, x) # Nowhere
    <3>1. \A x : At(root, x).workspace = root
      BY DEF At
    <3> QED BY <3>1, NoRootAssumption DEF Nowhere
  <2> QED BY <1>4, <1>8, <2>1 DEF ResolveAt
<1>10. PICK k \in 1 .. 4, x \in Slug :
         /\ F(FullLadder[k]) = {x}
         /\ ResolveAt(projects_, root, place, FullLadder, GitCalls) = At(root, x)
         /\ \A j \in 1 .. 4 : j < k => ~Fires(F(FullLadder[j]))
  BY <1>4, <1>9, ResolvedBy
<1> HIDE DEF S, F, cs
<1>11. x = s
  <2>1. CASE i = 4
    <3>1. cs = {s}
      BY <1>1, <1>4, <1>5, <2>1
    <3> QED BY <1>7, <1>10, <3>1
  <2>2. CASE i # 4
    <3>1. F(FullLadder[i]) = {s}
      BY <1>1, <1>3, <1>4, <1>5, <2>2
    <3>2. ~(i < k)
      <4>1. Fires(F(FullLadder[i]))
        BY <1>6, <3>1
      <4> QED BY <1>10, <4>1
    <3>3. ASSUME k < i PROVE FALSE
      <4>1. k \in {1, 2} /\ S(FullLadder[k]) = F(FullLadder[k])
        BY <1>1, <1>4, <2>2, <3>3
      <4> QED BY <1>5, <1>6, <1>10, <3>3, <4>1
    <3>4. k = i
      BY <3>2, <3>3
    <3> QED BY <1>10, <3>1, <3>4
  <2> QED BY <2>1, <2>2
<1> QED BY <1>5, <1>10, <1>11

\* Which answer is right, among those that differ: a project around the place.
LEMMA SlowLocate ==
  ASSUME NEW projects_ \in SUBSET (Root \X Slug), NEW place \in Place,
         NEW answered \in SUBSET GitCalls, NEW found,
         found = Locate(projects_, place, answered), found # Nowhere,
         found # Locate(projects_, place, GitCalls)
  PROVE  <<found.workspace, found.slug>> \in place.inside
<1> DEFINE main(a) == IF "common_dir" \in a THEN MainOf[place.top] ELSE place.top
           outer(a) == IF "outer" \in a THEN place.outer ELSE NoRoot
<1>1. "toplevel" \in answered /\ place.top # NoRoot /\ place.top \in Root
  BY DEF Locate, Place
<1>2. /\ "toplevel" \in GitCalls /\ "common_dir" \in GitCalls /\ "outer" \in GitCalls
  BY DEF GitCalls
<1>3. CASE Candidates(projects_, place.top) # {}
  <2>1. /\ found = ResolveAt(projects_, place.top, place, FullLadder, answered)
        /\ Locate(projects_, place, GitCalls)
             = ResolveAt(projects_, place.top, place, FullLadder, GitCalls)
    BY <1>1, <1>2, <1>3 DEF Locate
  <2> QED BY <1>1, <2>1, SlowBranch
<1>4. CASE Candidates(projects_, place.top) = {} /\ Candidates(projects_, main(answered)) # {}
  <2>1. main(answered) = MainOf[place.top] /\ main(GitCalls) = MainOf[place.top]
    BY <1>2, <1>4
  <2>2. /\ found = ResolveAt(projects_, MainOf[place.top], place, FullLadder, answered)
        /\ Locate(projects_, place, GitCalls)
             = ResolveAt(projects_, MainOf[place.top], place, FullLadder, GitCalls)
    BY <1>1, <1>2, <1>4, <2>1 DEF Locate
  <2>3. MainOf[place.top] \in Root
    BY <1>1, MainAssumption
  <2> QED BY <2>2, <2>3, SlowBranch
<1>5. CASE Candidates(projects_, place.top) = {} /\ Candidates(projects_, main(answered)) = {}
  <2>1. found = ResolveAt(projects_, outer(answered), place, <<"L1">>, answered)
    BY <1>1, <1>5 DEF Locate
  <2> QED BY <2>1, OuterIsInside
<1> QED BY <1>3, <1>4, <1>5

\* A located project is one of those there are.
LEMMA LocatedIsThere ==
  ASSUME NEW projects_ \in SUBSET (Root \X Slug), NEW place \in Place, NEW answered, NEW found,
         found = Locate(projects_, place, answered), found # Nowhere
  PROVE  \E r \in Root, s \in Slug : <<r, s>> \in projects_ /\ found = At(r, s)
<1> DEFINE main == IF "common_dir" \in answered THEN MainOf[place.top] ELSE place.top
           outer == IF "outer" \in answered THEN place.outer ELSE NoRoot
<1>1. \/ found = ResolveAt(projects_, place.top, place, FullLadder, answered)
      \/ found = ResolveAt(projects_, main, place, FullLadder, answered)
      \/ found = ResolveAt(projects_, outer, place, <<"L1">>, answered)
  BY DEF Locate
<1> HIDE DEF main, outer
<1>2. \E root \in Root, s \in Slug : <<root, s>> \in projects_ /\ found = At(root, s)
  <2>1. CASE found = ResolveAt(projects_, place.top, place, FullLadder, answered)
    <3>1. \E s \in Slug : s \in Candidates(projects_, place.top) /\ found = At(place.top, s)
      BY <2>1, ResolvedBy
    <3> QED BY <3>1 DEF Candidates
  <2>2. CASE found = ResolveAt(projects_, main, place, FullLadder, answered)
    <3>1. \E s \in Slug : s \in Candidates(projects_, main) /\ found = At(main, s)
      BY <2>2, ResolvedBy
    <3> QED BY <3>1 DEF Candidates
  <2>3. CASE found = ResolveAt(projects_, outer, place, <<"L1">>, answered)
    <3>1. \E s \in Slug : s \in Candidates(projects_, outer) /\ found = At(outer, s)
      BY <2>3, ResolvedBy
    <3> QED BY <3>1 DEF Candidates
  <2> QED BY <1>1, <2>1, <2>2, <2>3
<1> QED BY <1>2
-----------------------------------------------------------------------------
(***************************************************************************)
(* The gate.  What a process will say rests on what it decided earlier;    *)
(* while nothing changes around it (calm), that is still so.               *)
(***************************************************************************)
Verdicts == {"FAULT", "NON_ROLE", "UNMARKED", "ROLE", "MISMATCH", "TIER_DENY"}
Finds == [workspace : Root \cup {NoRoot, "nothing"}, slug : Slug \cup {NoSlug}]
Sessions == {d.session : d \in AllDispatches}

Over == [at : {"idle", "done"}, said : {"nothing"}]
Working ==
  [at : {"cache", "locating", "caching", "fallback", "deciding"}, said : {"nothing"},
   d : AllDispatches, root : Root, verdict : Verdicts, tier : BOOLEAN, found : Finds,
   calm : BOOLEAN]
Speaking ==
  [at : {"printing", "recording", "done"}, said : {"nothing", "deny"},
   d : AllDispatches, root : Root, found : Finds, calm : BOOLEAN, asked : BOOLEAN,
   final : Verdicts]
States == Over \cup Working \cup Speaking

Lines == [by : Gate, project : Finds, verdict : Verdicts]

Shapes ==
  /\ present \subseteq Root
  /\ projects \in SUBSET (present \X Slug)
  /\ cache \in [Sessions -> Finds]
  /\ gate \in [Gate -> States]
  /\ log \in Seq(Lines)

\* A decision that has not been made: the comparison with the hook's checkout
\* found fault, and the project, if there is one, is still there.
Undecided(st) ==
  st \in Working /\ st.calm =>
    /\ st.verdict = CheckRoleBlock(st.d.prompt, roles[st.root])
    /\ st.tier = TierViolation(st.d, st.verdict)
    /\ st.verdict # "FAULT" /\ (st.verdict = "ROLE" => st.tier)
    /\ st.found = Nowhere \/ st.found.workspace \in present

Deserved(st) ==
  LET d == st.d  ws == st.found.workspace  hook == st.root
  IN  /\ ~Passes(d, hook)
      /\ CheckRoleBlock(d.prompt, roles[hook]) # "FAULT"
      /\ ws \in present
      /\ (st.asked /\ ws \in Skills /\ SameRepository(ws, hook)) => ~Passes(d, ws)

\* A decision that has: to be printed, printed, delivered.
Decided(st) ==
  st \in Speaking =>
    /\ st.at = "printing" => st.said = "nothing"
    /\ st.at = "recording"
         => st.said = IF st.final = "NON_ROLE" THEN "nothing" ELSE "deny"
    /\ st.calm /\ (st.said = "deny" \/ (st.at = "printing" /\ st.final # "NON_ROLE"))
         => Deserved(st)

GateInv ==
  /\ Shapes
  /\ \A g \in Gate : Undecided(gate[g]) /\ Decided(gate[g])
  /\ \A i \in DOMAIN log : gate[log[i].by].at = "done"
  /\ LogTellsTheTruth

LEMMA StateShape ==
  ASSUME NEW st \in States
  PROVE  /\ st \in Speaking <=> st.at \in {"printing", "recording"}
                                \/ (st.at = "done" /\ st \notin Over)
         /\ st \in Working <=> st.at \in {"cache", "locating", "caching", "fallback", "deciding"}
         /\ st.said \in {"nothing", "deny"}
         /\ st.said = "deny" => st \in Speaking
         /\ st \in Over => st \notin Working /\ st \notin Speaking
         /\ st \in Working => st \notin Speaking
<1>1. st \in Over => st.at \in {"idle", "done"} /\ st.said = "nothing" /\ DOMAIN st = {"at", "said"}
  BY DEF Over
<1>2. st \in Working => /\ st.at \in {"cache", "locating", "caching", "fallback", "deciding"}
                        /\ st.said = "nothing"
  BY DEF Working
<1>3. st \in Speaking => /\ st.at \in {"printing", "recording", "done"}
                         /\ st.said \in {"nothing", "deny"}
                         /\ "final" \in DOMAIN st
  BY DEF Speaking
<1> QED BY <1>1, <1>2, <1>3 DEF States

\* The frame of a gate's step: what must hold of its new state.
LEMMA GateFrame ==
  ASSUME GateInv, NEW g \in Gate, gate[g].at # "done", NEW st \in States,
         gate' = [gate EXCEPT ![g] = st], UNCHANGED <<present, roles, projects>>,
         cache' \in [Sessions -> Finds],
         \/ log' = log
         \/ \E line \in Lines :
              /\ log' = Append(log, line) /\ line.by = g /\ st.at = "done"
              /\ st.said = IF line.verdict = "NON_ROLE" THEN "nothing" ELSE "deny",
         Undecided(st), Decided(st)
  PROVE  GateInv'
<1>1. gate'[g] = st /\ \A h \in Gate \ {g} : gate'[h] = gate[h]
  BY DEF GateInv, Shapes
<1>2. log \in Seq(Lines)
  BY DEF GateInv, Shapes
<1>3. Shapes'
  <2>1. log' \in Seq(Lines)
    BY <1>2
  <2> QED BY <2>1 DEF GateInv, Shapes
<1>4. ASSUME NEW h \in Gate PROVE Undecided(gate[h])' /\ Decided(gate[h])'
  <2>1. Undecided(gate'[h]) /\ Decided(gate'[h])
    BY <1>1 DEF GateInv
  <2>2. roles' = roles /\ present' = present
    OBVIOUS
  <2> QED BY <2>1, <2>2
          DEF Undecided, Decided, Deserved, Passes
<1>5. ASSUME NEW i \in DOMAIN log
      PROVE  /\ log[i].by \in Gate /\ log[i].by # g
             /\ gate'[log[i].by] = gate[log[i].by] /\ gate[log[i].by].at = "done"
  <2>1. log[i] \in Lines
    BY <1>2
  <2>2. log[i].by \in Gate
    BY <2>1 DEF Lines
  <2> QED BY <1>1, <2>2 DEF GateInv
<1>6. CASE log' = log
  <2>1. \A i \in DOMAIN log' : gate'[log'[i].by].at = "done"
    BY <1>5, <1>6
  <2>2. LogTellsTheTruth'
    BY <1>5, <1>6 DEF GateInv, LogTellsTheTruth
  <2> QED BY <1>3, <1>4, <2>1, <2>2 DEF GateInv
<1>7. ASSUME NEW line \in Lines, log' = Append(log, line), line.by = g, st.at = "done",
             st.said = IF line.verdict = "NON_ROLE" THEN "nothing" ELSE "deny"
      PROVE  GateInv'
  <2>1. /\ DOMAIN log' = 1 .. Len(log) + 1 /\ DOMAIN log = 1 .. Len(log) /\ Len(log) \in Nat
        /\ \A i \in DOMAIN log : log'[i] = log[i]
        /\ log'[Len(log) + 1] = line
    BY <1>2, <1>7
  <2>2. \A i \in DOMAIN log' : i \in DOMAIN log \/ log'[i] = line
    BY <2>1
  <2>3. ASSUME NEW i \in DOMAIN log' PROVE gate'[log'[i].by].at = "done"
    <3>1. CASE i \in DOMAIN log
      BY <1>5, <2>1, <3>1
    <3>2. CASE log'[i] = line
      BY <1>1, <1>7, <3>2
    <3> QED BY <2>2, <3>1, <3>2
  <2>4. ASSUME NEW i \in DOMAIN log'
        PROVE  gate'[log'[i].by].said
                 = IF log'[i].verdict = "NON_ROLE" THEN "nothing" ELSE "deny"
    <3>1. CASE i \in DOMAIN log
      BY <1>5, <2>1, <3>1 DEF GateInv, LogTellsTheTruth
    <3>2. CASE log'[i] = line
      BY <1>1, <1>7, <3>2
    <3> QED BY <2>2, <3>1, <3>2
  <2>5. ASSUME NEW i \in DOMAIN log', NEW j \in DOMAIN log', log'[j].by = log'[i].by
        PROVE  i = j
    <3>1. CASE i \in DOMAIN log /\ j \in DOMAIN log
      BY <2>1, <2>5, <3>1 DEF GateInv, LogTellsTheTruth
    <3>2. CASE i \in DOMAIN log /\ j \notin DOMAIN log
      BY <1>5, <1>7, <2>1, <2>2, <2>5, <3>2
    <3>3. CASE i \notin DOMAIN log /\ j \in DOMAIN log
      BY <1>5, <1>7, <2>1, <2>2, <2>5, <3>3
    <3>4. CASE i \notin DOMAIN log /\ j \notin DOMAIN log
      BY <2>1, <3>4
    <3> QED BY <3>1, <3>2, <3>3, <3>4
  <2>6. LogTellsTheTruth'
    BY <2>4, <2>5 DEF LogTellsTheTruth
  <2> QED BY <1>3, <1>4, <2>3, <2>6 DEF GateInv
<1> QED BY <1>6, <1>7
-----------------------------------------------------------------------------
(***************************************************************************)
(* Every step of a gate keeps the invariant.                               *)
(***************************************************************************)

\* A gate that leaves keeps its word.
LEMMA LeaveState ==
  ASSUME GateInv, NEW g \in Gate, Leave(g), gate[g].at # "done"
  PROVE  \E st \in States :
           /\ gate' = [gate EXCEPT ![g] = st] /\ st.at = "done" /\ st.said = gate[g].said
           /\ Undecided(st) /\ Decided(st)
<1> DEFINE x == gate[g]
           st == IF x.said = "deny" THEN [x EXCEPT !.at = "done"]
                 ELSE [at |-> "done", said |-> "nothing"]
<1>1. x \in States /\ Decided(x)
  BY DEF GateInv, Shapes
<1>2. gate' = [gate EXCEPT ![g] = st]
  BY DEF Leave, GateInv, Shapes
<1>3. CASE x.said = "deny"
  <2>1. x \in Speaking
    BY <1>1, <1>3, StateShape
  <2>2. /\ st \in Speaking /\ st.at = "done" /\ st.said = "deny" /\ st.calm = x.calm
        /\ st.d = x.d /\ st.root = x.root /\ st.found = x.found /\ st.asked = x.asked
    BY <1>3, <2>1 DEF Speaking
  <2>3. st.calm => Deserved(st)
    <3>1. x.calm => Deserved(x)
      BY <1>1, <1>3, <2>1 DEF Decided
    <3> HIDE DEF st, x
    <3> QED BY <2>2, <3>1 DEF Deserved
  <2> HIDE DEF st
  <2>4. st \in States
    BY <2>2 DEF States
  <2>5. Undecided(st)
    BY <2>2, <2>4, StateShape DEF Undecided
  <2>6. Decided(st)
    BY <2>2, <2>3 DEF Decided
  <2> QED BY <1>2, <1>3, <2>2, <2>4, <2>5, <2>6
<1>4. CASE x.said # "deny"
  <2>1. x.said = "nothing"
    BY <1>1, <1>4, StateShape
  <2>2. st = [at |-> "done", said |-> "nothing"]
    BY <1>4
  <2>3. st \in Over /\ st \in States
    BY <2>2 DEF Over, States
  <2> HIDE DEF st
  <2>4. Undecided(st) /\ Decided(st)
    BY <2>3, StateShape DEF Undecided, Decided
  <2> QED BY <1>2, <2>1, <2>2, <2>3, <2>4
<1> QED BY <1>3, <1>4

LEMMA KillGateInv ==
  ASSUME GateInv, NEW g \in Gate, KillGate(g)
  PROVE  GateInv'
<1>1. /\ gate[g].at # "done" /\ Leave(g) /\ log' = log /\ UNCHANGED <<present, roles, projects>>
      /\ cache' \in [Sessions -> Finds]
  BY DEF KillGate, GateInv, Shapes
<1>2. PICK st \in States :
        /\ gate' = [gate EXCEPT ![g] = st] /\ Undecided(st) /\ Decided(st)
  BY <1>1, LeaveState
<1> QED BY <1>1, <1>2, GateFrame

\* What the locator is asked about.
LEMMA DispatchShape ==
  ASSUME NEW d \in AllDispatches
  PROVE  /\ d \in Dispatch /\ d.place \in Place /\ d.session \in Sessions
         /\ Primary(d) \in Place
<1>1. d \in Dispatch
  BY DispatchAssumption DEF AllDispatches, Range
<1>2. d.place \in Place /\ d.anchor \in Place \cup {Nowhere}
  BY <1>1 DEF Dispatch
<1> QED BY <1>1, <1>2 DEF Primary, Sessions

LEMMA AnswerShape ==
  ASSUME GateInv, NEW place \in Place, NEW found \in Answers(place)
  PROVE  found \in Finds /\ (found = Nowhere \/ found.workspace \in present)
<1>1. PICK answered \in SUBSET GitCalls : found = Locate(projects, place, answered)
  BY DEF Answers
<1>2. projects \in SUBSET (Root \X Slug)
  BY DEF GateInv, Shapes
<1>3. CASE found = Nowhere
  BY <1>3 DEF Nowhere, Finds
<1>4. CASE found # Nowhere
  <2>1. PICK r \in Root, s \in Slug : <<r, s>> \in projects /\ found = At(r, s)
    BY <1>1, <1>2, <1>4, LocatedIsThere
  <2>2. r \in present
    BY <2>1 DEF GateInv, Shapes
  <2> QED BY <2>1, <2>2 DEF At, Finds
<1> QED BY <1>3, <1>4

\* A gate at work goes on, with the project it has or has found.
LEMMA WorkOn ==
  ASSUME GateInv, NEW g \in Gate, gate[g] \in Working, log' = log,
         UNCHANGED <<present, roles, projects>>, cache' \in [Sessions -> Finds],
         NEW at \in {"cache", "locating", "caching", "fallback", "deciding"},
         NEW found \in Finds,
         found = gate[g].found \/ found = Nowhere \/ found.workspace \in present,
         gate' = [gate EXCEPT ![g] = [@ EXCEPT !.found = found, !.at = at]]
  PROVE  GateInv'
<1> DEFINE x == gate[g]
           st == [x EXCEPT !.found = found, !.at = at]
<1>1. /\ st \in Working /\ st.calm = x.calm /\ st.verdict = x.verdict /\ st.tier = x.tier
      /\ st.d = x.d /\ st.root = x.root /\ st.found = found
  BY DEF Working
<1>2. gate' = [gate EXCEPT ![g] = st]
  BY DEF GateInv, Shapes
<1>3. x.at # "done"
  BY DEF Working
<1>4. Undecided(x)
  BY DEF GateInv
<1> HIDE DEF st
<1>5. st \in States
  BY <1>1 DEF States
<1>6. Undecided(st)
  BY <1>1, <1>4 DEF Undecided
<1>7. Decided(st)
  BY <1>1, <1>5, StateShape DEF Decided
<1> QED BY <1>2, <1>3, <1>5, <1>6, <1>7, GateFrame

LEMMA GoOnInv ==
  ASSUME GateInv, NEW g \in Gate, gate[g] \in Working, log' = log,
         UNCHANGED <<present, roles, projects>>, cache' \in [Sessions -> Finds],
         NEW at \in {"cache", "locating", "caching", "fallback", "deciding"}, GoOn(g, at)
  PROVE  GateInv'
<1>1. gate[g].found \in Finds
  BY DEF Working
<1>2. [gate[g] EXCEPT !.at = at] = [gate[g] EXCEPT !.found = gate[g].found, !.at = at]
  BY DEF Working
<1>3. gate' = [gate EXCEPT ![g] = [gate[g] EXCEPT !.at = at]]
  BY DEF GoOn, GateInv, Shapes
<1>4. gate' = [gate EXCEPT ![g] = [@ EXCEPT !.found = gate[g].found, !.at = at]]
  BY <1>2, <1>3 DEF GateInv, Shapes
<1> QED BY <1>1, <1>4, WorkOn

LEMMA StartGateInv ==
  ASSUME GateInv, NEW g \in Gate, NEW root \in Root, StartGate(g, root)
  PROVE  GateInv'
<1>1. PICK d \in Dispatches[g] :
        LET verdict == CheckRoleBlock(d.prompt, roles[root])
            tier == TierViolation(d, verdict)
            over == verdict = "FAULT" \/ (verdict = "ROLE" /\ ~tier)
        IN  gate' = [gate EXCEPT ![g] =
              IF over THEN [at |-> "done", said |-> "nothing"]
              ELSE [at |-> "cache", said |-> "nothing", d |-> d, root |-> root,
                    verdict |-> verdict, tier |-> tier,
                    found |-> Nowhere, calm |-> TRUE]]
  BY DEF StartGate
<1> DEFINE verdict == CheckRoleBlock(d.prompt, roles[root])
           tier == TierViolation(d, verdict)
           over == verdict = "FAULT" \/ (verdict = "ROLE" /\ ~tier)
           begun == [at |-> "cache", said |-> "nothing", d |-> d, root |-> root,
                     verdict |-> verdict, tier |-> tier, found |-> Nowhere, calm |-> TRUE]
           ended == [at |-> "done", said |-> "nothing"]
<1>2. d \in AllDispatches
  BY DispatchAssumption DEF AllDispatches, Range
<1>3. verdict \in Verdicts /\ tier \in BOOLEAN
  BY DEF CheckRoleBlock, Verdicts, TierViolation
<1>4. Nowhere \in Finds
  BY DEF Nowhere, Finds
<1>5. /\ gate[g].at # "done" /\ log' = log /\ UNCHANGED <<present, roles, projects>>
      /\ cache' \in [Sessions -> Finds]
  BY DEF StartGate, GateInv, Shapes
<1>6. CASE over
  <2>1. gate' = [gate EXCEPT ![g] = ended]
    BY <1>1, <1>6
  <2>2. ended \in Over /\ ended \in States
    BY DEF Over, States
  <2> HIDE DEF ended
  <2>3. Undecided(ended) /\ Decided(ended)
    BY <2>2, StateShape DEF Undecided, Decided
  <2> QED BY <1>5, <2>1, <2>2, <2>3, GateFrame
<1>7. CASE ~over
  <2>1. gate' = [gate EXCEPT ![g] = begun]
    BY <1>1, <1>7
  <2>2. /\ begun.verdict = CheckRoleBlock(begun.d.prompt, roles[begun.root])
        /\ begun.tier = TierViolation(begun.d, begun.verdict)
        /\ begun.verdict # "FAULT" /\ (begun.verdict = "ROLE" => begun.tier)
        /\ begun.found = Nowhere
    BY <1>7
  <2> HIDE DEF verdict, tier
  <2>3. begun \in Working /\ begun \in States
    BY <1>2, <1>3, <1>4 DEF Working, States
  <2> HIDE DEF begun
  <2>4. Undecided(begun) /\ Decided(begun)
    BY <2>2, <2>3, StateShape DEF Undecided, Decided
  <2> QED BY <1>5, <2>1, <2>3, <2>4, GateFrame
<1> QED BY <1>6, <1>7

\* Where a gate is, it is at work, with a dispatch it may be asked about.
LEMMA AtWork ==
  ASSUME GateInv, NEW g \in Gate,
         gate[g].at \in {"cache", "locating", "caching", "fallback", "deciding"}
  PROVE  /\ gate[g] \in Working /\ gate[g].d \in AllDispatches /\ gate[g].found \in Finds
         /\ gate[g].d.session \in Sessions
<1>1. gate[g] \in Working
  BY StateShape DEF GateInv, Shapes
<1> QED BY <1>1, DispatchShape DEF Working

LEMMA ReadCacheInv ==
  ASSUME GateInv, NEW g \in Gate, ReadCache(g)
  PROVE  GateInv'
<1>1. /\ gate[g].at = "cache" /\ log' = log /\ UNCHANGED <<present, roles, projects>>
      /\ cache' \in [Sessions -> Finds]
  BY DEF ReadCache, GateInv, Shapes
<1>2. gate[g] \in Working /\ gate[g].d.session \in Sessions
  BY <1>1, AtWork
<1> DEFINE c == IF gate[g].d.scratchpad THEN cache[gate[g].d.session] ELSE NoneCached
<1>3. c \in Finds
  BY <1>2 DEF NoneCached, Finds, GateInv, Shapes
<1>4. \/ /\ c.workspace \in present
         /\ gate' = [gate EXCEPT ![g].found = c, ![g].at = "deciding"]
      \/ GoOn(g, "fallback")
      \/ GoOn(g, "locating")
  BY DEF ReadCache
<1> HIDE DEF c
<1>5. CASE /\ c.workspace \in present
           /\ gate' = [gate EXCEPT ![g].found = c, ![g].at = "deciding"]
  <2>1. gate' = [gate EXCEPT ![g] = [@ EXCEPT !.found = c, !.at = "deciding"]]
    BY <1>5 DEF GateInv, Shapes
  <2> QED BY <1>1, <1>2, <1>3, <1>5, <2>1, WorkOn
<1>6. CASE GoOn(g, "fallback") \/ GoOn(g, "locating")
  BY <1>1, <1>2, <1>6, GoOnInv
<1> QED BY <1>4, <1>5, <1>6

LEMMA LocateInv ==
  ASSUME GateInv, NEW g \in Gate, LocatePrimary(g) \/ Fallback(g)
  PROVE  GateInv'
<1>1. /\ gate[g].at \in {"locating", "fallback"} /\ log' = log
      /\ UNCHANGED <<present, roles, projects>> /\ cache' \in [Sessions -> Finds]
  BY DEF LocatePrimary, Fallback, GateInv, Shapes
<1>2. gate[g] \in Working /\ gate[g].d \in AllDispatches
  BY <1>1, AtWork
<1>3. gate[g].d.place \in Place /\ Primary(gate[g].d) \in Place
  BY <1>2, DispatchShape
<1>4. CASE GoOn(g, "deciding")
  BY <1>1, <1>2, <1>4, GoOnInv
<1>5. ASSUME NEW place \in Place, NEW found \in Answers(place), NEW at \in {"caching", "deciding"},
             gate' = [gate EXCEPT ![g].found = found, ![g].at = at]
      PROVE  GateInv'
  <2>1. gate' = [gate EXCEPT ![g] = [@ EXCEPT !.found = found, !.at = at]]
    BY <1>5 DEF GateInv, Shapes
  <2> QED BY <1>1, <1>2, <2>1, AnswerShape, WorkOn
<1> QED BY <1>3, <1>4, <1>5 DEF LocatePrimary, Fallback

LEMMA WriteCacheInv ==
  ASSUME GateInv, NEW g \in Gate, WriteCache(g)
  PROVE  GateInv'
<1>1. gate[g].at = "caching" /\ log' = log /\ UNCHANGED <<present, roles, projects>>
  BY DEF WriteCache
<1>2. gate[g] \in Working /\ gate[g].d.session \in Sessions /\ gate[g].found \in Finds
  BY <1>1, AtWork
<1>3. cache' \in [Sessions -> Finds]
  BY <1>2 DEF WriteCache, GateInv, Shapes
<1>4. GoOn(g, "fallback") \/ GoOn(g, "deciding")
  BY DEF WriteCache
<1> QED BY <1>1, <1>2, <1>3, <1>4, GoOnInv

\* What a comparison says of the prompt's form.
LEMMA BlockForms ==
  ASSUME NEW prompt, NEW files
  PROVE  /\ CheckRoleBlock(prompt, files) \in Verdicts \ {"TIER_DENY"}
         /\ CheckRoleBlock(prompt, files) = "NON_ROLE" => prompt.form = "non_role"
         /\ prompt.form = "non_role" => CheckRoleBlock(prompt, files) \in {"FAULT", "NON_ROLE"}
BY DEF CheckRoleBlock, Verdicts

\* A denial that is decided is deserved.
LEMMA DecidedDeserves ==
  ASSUME GateInv, NEW g \in Gate, gate[g] \in Working, gate[g].calm, NEW answered \in BOOLEAN,
         NEW second,
         second = IF /\ answered /\ gate[g].found # Nowhere
                     /\ gate[g].verdict \in Denying /\ SecondApplies(g, gate[g].found.workspace)
                  THEN CheckRoleBlock(gate[g].d.prompt, roles[gate[g].found.workspace])
                  ELSE "FAULT",
         FinalVerdict(g, second) \notin {"silent", "NON_ROLE"},
         NEW st, st.d = gate[g].d, st.root = gate[g].root, st.found = gate[g].found,
         st.asked = answered
  PROVE  Deserved(st)
<1> DEFINE x == gate[g]
           d == x.d
           ws == x.found.workspace
           hook == x.root
           own == CheckRoleBlock(d.prompt, roles[hook])
           there == CheckRoleBlock(d.prompt, roles[ws])
<1>1. /\ x.verdict = own /\ x.tier = TierViolation(d, own) /\ own # "FAULT"
      /\ (own = "ROLE" => x.tier)
      /\ x.found = Nowhere \/ ws \in present
  BY DEF GateInv, Undecided
<1>2. x.found # Nowhere
  BY DEF FinalVerdict
<1> HIDE DEF own, there
<1>3. /\ own = "NON_ROLE" => d.prompt.form = "non_role"
      /\ d.prompt.form = "non_role" => own \in {"FAULT", "NON_ROLE"}
      /\ there = "NON_ROLE" => d.prompt.form = "non_role"
      /\ d.prompt.form = "non_role" => there \in {"FAULT", "NON_ROLE"}
      /\ own \in Verdicts \ {"TIER_DENY"} /\ there \in Verdicts \ {"TIER_DENY"}
  BY BlockForms DEF own, there
<1>4. /\ Passes(d, hook) <=> own \in {"ROLE", "NON_ROLE"} /\ ~TierViolation(d, own)
      /\ Passes(d, ws) <=> there \in {"ROLE", "NON_ROLE"} /\ ~TierViolation(d, there)
  BY DEF Passes, own, there
<1>5. \A v : TierViolation(d, v) => v \in {"ROLE", "NON_ROLE"}
  BY DEF TierViolation
<1>6. CASE x.tier
  <2>1. own \in {"ROLE", "NON_ROLE"} /\ TierViolation(d, own)
    BY <1>1, <1>5, <1>6
  <2>2. ~Passes(d, hook)
    BY <1>4, <2>1
  <2>3. there \in {"ROLE", "NON_ROLE"} => there = own
    BY <1>3, <2>1 DEF Verdicts
  <2>4. ~Passes(d, ws)
    BY <1>4, <2>1, <2>3
  <2> QED BY <1>1, <1>2, <2>2, <2>4 DEF Deserved, own
<1>7. CASE ~x.tier
  <2>1. own \in Denying
    <3>1. own # "NON_ROLE"
      BY <1>1, <1>2, <1>7 DEF FinalVerdict
    <3> QED BY <1>1, <1>3, <1>7, <3>1 DEF Verdicts, Denying
  <2>2. ~Passes(d, hook)
    BY <1>4, <2>1 DEF Denying
  <2>3. ASSUME answered, ws \in Skills, SameRepository(ws, hook)
        PROVE  ~Passes(d, ws)
    <3>1. CASE ws = hook
      BY <2>2, <3>1
    <3>2. CASE ws # hook
      <4>1. SecondApplies(g, ws)
        BY <2>3, <3>2 DEF SecondApplies
      <4>2. second = there
        BY <1>1, <1>2, <2>1, <2>3, <4>1 DEF there
      <4>3. there = "FAULT" \/ TierViolation(d, there) \/ there \notin {"ROLE", "NON_ROLE"}
        BY <1>1, <1>2, <1>7, <2>1, <4>2 DEF FinalVerdict, Denying
      <4> QED BY <1>4, <4>3
    <3> QED BY <3>1, <3>2
  <2> QED BY <1>1, <1>2, <2>2, <2>3 DEF Deserved, own
<1> QED BY <1>6, <1>7

LEMMA DecideInv ==
  ASSUME GateInv, NEW g \in Gate, Decide(g)
  PROVE  GateInv'
<1>1. /\ gate[g].at = "deciding" /\ log' = log /\ UNCHANGED <<present, roles, projects>>
      /\ cache' \in [Sessions -> Finds]
  BY DEF Decide, GateInv, Shapes
<1>2. gate[g] \in Working
  BY <1>1, AtWork
<1>3. PICK answered \in BOOLEAN :
        LET ws == gate[g].found.workspace
            second == IF answered /\ gate[g].found # Nowhere
                           /\ gate[g].verdict \in Denying /\ SecondApplies(g, ws)
                        THEN CheckRoleBlock(gate[g].d.prompt, roles[ws])
                        ELSE "FAULT"
            v == FinalVerdict(g, second)
        IN  IF v = "silent" THEN Leave(g)
            ELSE gate' = [gate EXCEPT ![g] = [at |-> "printing", said |-> "nothing",
                   d |-> gate[g].d, root |-> gate[g].root, found |-> gate[g].found,
                   calm |-> gate[g].calm,
                   asked |-> answered, final |-> v]]
  BY DEF Decide
<1> DEFINE ws == gate[g].found.workspace
           second == IF answered /\ gate[g].found # Nowhere
                          /\ gate[g].verdict \in Denying /\ SecondApplies(g, ws)
                       THEN CheckRoleBlock(gate[g].d.prompt, roles[ws])
                       ELSE "FAULT"
           v == FinalVerdict(g, second)
           st == [at |-> "printing", said |-> "nothing", d |-> gate[g].d,
                  root |-> gate[g].root, found |-> gate[g].found, calm |-> gate[g].calm,
                  asked |-> answered, final |-> v]
<1>4. second \in Verdicts
  BY BlockForms DEF Verdicts
<1>5. v = "silent" \/ v \in Verdicts
  <2> HIDE DEF second
  <2>1. gate[g].verdict \in Verdicts
    BY <1>2 DEF Working
  <2> QED BY <1>4, <2>1 DEF FinalVerdict, Verdicts
<1>6. CASE v = "silent"
  <2>1. Leave(g)
    BY <1>3, <1>6
  <2>2. PICK new \in States :
          /\ gate' = [gate EXCEPT ![g] = new] /\ Undecided(new) /\ Decided(new)
    BY <1>1, <2>1, LeaveState
  <2> QED BY <1>1, <2>2, GateFrame
<1>7. CASE v # "silent"
  <2>1. gate' = [gate EXCEPT ![g] = st]
    BY <1>3, <1>7
  <2>2. /\ st.at = "printing" /\ st.said = "nothing" /\ st.calm = gate[g].calm
        /\ st.d = gate[g].d /\ st.root = gate[g].root /\ st.found = gate[g].found
        /\ st.asked = answered /\ st.final = v
    OBVIOUS
  <2>3. gate[g].calm /\ v # "NON_ROLE" => Deserved(st)
    <3> HIDE DEF st
    <3>1. second = IF /\ answered /\ gate[g].found # Nowhere
                      /\ gate[g].verdict \in Denying /\ SecondApplies(g, ws)
                   THEN CheckRoleBlock(gate[g].d.prompt, roles[ws])
                   ELSE "FAULT"
      OBVIOUS
    <3> HIDE DEF second
    <3> QED BY <1>2, <1>7, <2>2, <3>1, DecidedDeserves
  <2> HIDE DEF v
  <2>4. st \in Speaking /\ st \in States
    BY <1>2, <1>5, <1>7 DEF Working, Speaking, States
  <2> HIDE DEF st
  <2>5. Undecided(st)
    BY <2>4, StateShape DEF Undecided
  <2>6. Decided(st)
    BY <2>2, <2>3 DEF Decided
  <2>7. gate[g].at # "done"
    BY <1>1
  <2> QED BY <1>1, <2>1, <2>4, <2>5, <2>6, <2>7, GateFrame
<1> QED BY <1>6, <1>7

LEMMA DeliverInv ==
  ASSUME GateInv, NEW g \in Gate, Deliver(g)
  PROVE  GateInv'
<1> DEFINE x == gate[g]
<1>1. /\ x.at \in {"printing", "recording"} /\ UNCHANGED <<present, roles, projects>>
      /\ cache' \in [Sessions -> Finds] /\ x.at # "done"
  BY DEF Deliver, GateInv, Shapes
<1>2. x \in Speaking /\ Decided(x)
  BY <1>1, StateShape DEF GateInv, Shapes
<1>3. CASE /\ x.at = "printing" /\ log' = log
           /\ gate' = [gate EXCEPT ![g].said = Says(g), ![g].at = "recording"]
  <2> DEFINE st == [x EXCEPT !.said = Says(g), !.at = "recording"]
  <2>1. gate' = [gate EXCEPT ![g] = st]
    BY <1>3 DEF GateInv, Shapes
  <2>2. Says(g) \in {"nothing", "deny"} /\ (Says(g) = "deny" => x.final # "NON_ROLE")
    BY DEF Says
  <2>3. /\ st \in Speaking /\ st.at = "recording" /\ st.said = Says(g) /\ st.calm = x.calm
        /\ st.d = x.d /\ st.root = x.root /\ st.found = x.found /\ st.asked = x.asked
        /\ st.final = x.final
    BY <1>2, <2>2 DEF Speaking
  <2> HIDE DEF st
  <2>4. st \in States /\ Undecided(st)
    BY <2>3, StateShape DEF Undecided, States
  <2>5. x.calm /\ x.final # "NON_ROLE" => Deserved(x)
    BY <1>2, <1>3 DEF Decided
  <2>6. st.calm /\ st.said = "deny" => Deserved(st)
    <3> HIDE DEF x
    <3> QED BY <2>2, <2>3, <2>5 DEF Deserved
  <2>7. Decided(st)
    BY <2>3, <2>6 DEF Decided, Says
  <2> QED BY <1>1, <1>3, <2>1, <2>4, <2>7, GateFrame
<1>4. CASE x.at = "recording" /\ Logged(g) /\ Leave(g)
  <2>1. PICK st \in States :
          /\ gate' = [gate EXCEPT ![g] = st] /\ st.at = "done" /\ st.said = x.said
          /\ Undecided(st) /\ Decided(st)
    BY <1>1, <1>4, LeaveState
  <2>2. x.said = IF x.final = "NON_ROLE" THEN "nothing" ELSE "deny"
    BY <1>2, <1>4 DEF Decided
  <2>3. Line(g) \in Lines /\ Line(g).by = g /\ Line(g).verdict = x.final
    BY <1>2 DEF Line, Lines, Speaking
  <2>4. log' = log \/ log' = Append(log, Line(g))
    BY <1>4 DEF Logged
  <2>5. \/ log' = log
        \/ \E line \in Lines :
             /\ log' = Append(log, line) /\ line.by = g /\ st.at = "done"
             /\ st.said = IF line.verdict = "NON_ROLE" THEN "nothing" ELSE "deny"
    BY <2>1, <2>2, <2>3, <2>4
  <2> QED BY <1>1, <2>1, <2>5, GateFrame
<1> QED BY <1>3, <1>4 DEF Deliver

\* When something changes around the gates, none of them is calm any longer.
LEMMA StirredInv ==
  ASSUME GateInv, gate' = Stirred, log' = log, cache' = cache,
         present' \subseteq present, projects' \in SUBSET (present' \X Slug)
  PROVE  GateInv'
<1>1. ASSUME NEW g \in Gate
      PROVE  /\ gate'[g] \in States /\ Undecided(gate[g])' /\ Decided(gate[g])'
             /\ gate'[g].at = gate[g].at /\ gate'[g].said = gate[g].said
  <2>1. gate[g] \in States /\ Decided(gate[g])
    BY DEF GateInv, Shapes
  <2>2. gate'[g] = IF "calm" \in DOMAIN gate[g] THEN [gate[g] EXCEPT !.calm = FALSE] ELSE gate[g]
    BY DEF Stirred
  <2>3. CASE gate[g] \in Over
    <3>1. gate'[g] = gate[g]
      BY <2>2, <2>3 DEF Over
    <3> QED BY <2>1, <2>3, <3>1, StateShape DEF Undecided, Decided
  <2>4. CASE gate[g] \in Working
    <3>1. /\ gate'[g] \in Working /\ ~gate'[g].calm
          /\ gate'[g].at = gate[g].at /\ gate'[g].said = gate[g].said
      BY <2>2, <2>4 DEF Working
    <3>2. gate'[g] \in States
      BY <3>1 DEF States
    <3> QED BY <3>1, <3>2, StateShape DEF Undecided, Decided
  <2>5. CASE gate[g] \in Speaking
    <3>1. /\ gate'[g] \in Speaking /\ ~gate'[g].calm
          /\ gate'[g].at = gate[g].at /\ gate'[g].said = gate[g].said
          /\ gate'[g].final = gate[g].final
      BY <2>2, <2>5 DEF Speaking
    <3>2. gate'[g] \in States
      BY <3>1 DEF States
    <3> QED BY <2>1, <2>5, <3>1, <3>2, StateShape DEF Undecided, Decided
  <2> QED BY <2>1, <2>3, <2>4, <2>5 DEF States
<1>2. gate' \in [Gate -> States]
  BY <1>1 DEF Stirred
<1>3. Shapes'
  BY <1>2 DEF GateInv, Shapes
<1>4. \A i \in DOMAIN log : log[i].by \in Gate
  <2>1. \A i \in DOMAIN log : log[i] \in Lines
    BY DEF GateInv, Shapes
  <2> QED BY <2>1 DEF Lines
<1>5. \A i \in DOMAIN log' : gate'[log'[i].by].at = "done"
  BY <1>1, <1>4 DEF GateInv
<1>6. LogTellsTheTruth'
  <2>1. \A i \in DOMAIN log : gate'[log[i].by].said = gate[log[i].by].said
    BY <1>1, <1>4
  <2>2. LogTellsTheTruth /\ log' = log
    BY DEF GateInv
  <2> QED BY <2>1, <2>2 DEF LogTellsTheTruth
<1> QED BY <1>1, <1>3, <1>5, <1>6 DEF GateInv

LEMMA AroundInv ==
  ASSUME GateInv, EditRoles \/ StartProject \/ RemoveWorktree
  PROVE  GateInv'
<1>1. present \subseteq Root /\ projects \in SUBSET (present \X Slug)
  BY DEF GateInv, Shapes
<1>2. CASE EditRoles
  BY <1>1, <1>2, StirredInv DEF EditRoles
<1>3. CASE StartProject
  BY <1>1, <1>3, StirredInv DEF StartProject
<1>4. CASE RemoveWorktree
  <2>1. PICK root \in present : /\ present' = present \ {root}
                                /\ projects' = {x \in projects : x[1] # root}
    BY <1>4 DEF RemoveWorktree
  <2>2. projects' \in SUBSET (present' \X Slug)
    BY <1>1, <2>1
  <2> QED BY <1>4, <2>1, <2>2, StirredInv DEF RemoveWorktree
<1> QED BY <1>2, <1>3, <1>4
-----------------------------------------------------------------------------
LEMMA InitGateInv == Init => GateInv
<1> SUFFICES ASSUME Init PROVE GateInv
  OBVIOUS
<1>1. Shapes
  <2>1. projects \in SUBSET (present \X Slug) /\ present = Root
    BY ProjectsAssumption DEF Init, GateInit
  <2>2. cache \in [Sessions -> Finds]
    BY DEF Init, GateInit, Sessions, NoneCached, Finds
  <2>3. gate \in [Gate -> States]
    BY DEF Init, GateInit, IdleGate, States, Over
  <2>4. log \in Seq(Lines)
    BY DEF Init, GateInit
  <2> QED BY <2>1, <2>2, <2>3, <2>4 DEF Shapes
<1>2. ASSUME NEW g \in Gate PROVE Undecided(gate[g]) /\ Decided(gate[g])
  <2>1. gate[g] \in Over /\ gate[g] \in States
    BY DEF Init, GateInit, IdleGate, States, Over
  <2> QED BY <2>1, StateShape DEF Undecided, Decided
<1>3. LogTellsTheTruth /\ \A i \in DOMAIN log : gate[log[i].by].at = "done"
  BY DEF Init, GateInit, LogTellsTheTruth
<1> QED BY <1>1, <1>2, <1>3 DEF GateInv

LEMMA NextGateInv == GateInv /\ [Next]_vars => GateInv'
<1> SUFFICES ASSUME GateInv, [Next]_vars PROVE GateInv'
  OBVIOUS
<1>1. CASE UNCHANGED gateVars
  BY <1>1 DEF gateVars, GateInv, Shapes, Undecided, Decided, Deserved, Passes, LogTellsTheTruth
<1>2. ASSUME NEW g \in Gate, GateStep(g) PROVE GateInv'
  BY <1>2, ReadCacheInv, LocateInv, WriteCacheInv, DecideInv, DeliverInv, KillGateInv
     DEF GateStep
<1>3. ASSUME NEW g \in Gate, NEW root \in GateRoots \cap present, StartGate(g, root)
      PROVE  GateInv'
  <2>1. root \in Root
    BY DEF GateInv, Shapes
  <2> QED BY <1>3, <2>1, StartGateInv
<1> QED BY <1>1, <1>2, <1>3, AroundInv DEF Next, HooksNext, GateNext, Around, vars

\* Which git calls are too slow never makes the locator name a wrong project.
THEOREM SlownessMisleadsNobody == Spec => []SlowGitNeverMisleads
<1>1. GateInv => SlowGitNeverMisleads
  <2> SUFFICES ASSUME GateInv,
                      NEW place \in UNION {{d.place, Primary(d)} : d \in AllDispatches},
                      NEW slow \in Answers(place) \ {Nowhere, Locate(projects, place, GitCalls)}
               PROVE  <<slow.workspace, slow.slug>> \in place.inside
    BY DEF SlowGitNeverMisleads
  <2>1. PICK d \in AllDispatches : place \in {d.place, Primary(d)}
    OBVIOUS
  <2>2. place \in Place
    BY <2>1, DispatchShape
  <2>3. projects \in SUBSET (Root \X Slug)
    BY DEF GateInv, Shapes
  <2>4. PICK answered \in SUBSET GitCalls : slow = Locate(projects, place, answered)
    BY DEF Answers
  <2> QED BY <2>2, <2>3, <2>4, SlowLocate
<1> QED BY <1>1, InitGateInv, NextGateInv, PTL DEF Spec

\* A gate around which nothing changes denies only what neither checkout allows.
THEOREM DenialsDeserved == Spec => []DenialsAreDeserved
<1>1. GateInv => DenialsAreDeserved
  <2> SUFFICES ASSUME GateInv, NEW g \in Gate, gate[g].said = "deny", gate[g].calm
               PROVE  Deserved(gate[g])
    BY DEF DenialsAreDeserved, Deserved
  <2>1. gate[g] \in Speaking /\ Decided(gate[g])
    BY StateShape DEF GateInv, Shapes
  <2> QED BY <2>1 DEF Decided
<1> QED BY <1>1, InitGateInv, NextGateInv, PTL DEF Spec

\* The decision log agrees with what the harness was told, whenever the gates
\* are killed.
THEOREM LogIsTrue == Spec => []LogTellsTheTruth
<1>1. GateInv => LogTellsTheTruth
  BY DEF GateInv
<1> QED BY <1>1, InitGateInv, NextGateInv, PTL DEF Spec
-----------------------------------------------------------------------------
(***************************************************************************)
(* The installer.  Its filters are concatenations of lists of one element  *)
(* or none: induction over the list, for any such filter.                  *)
(***************************************************************************)
LEMMA SetInduction ==
  ASSUME NEW T, 0 \in T, \A k \in Nat : k \in T => k + 1 \in T
  PROVE  Nat \subseteq T
<1> SUFFICES ASSUME NEW m \in Nat \ T PROVE FALSE
  OBVIOUS
<1>1. PICK x \in Nat \ T : \A y \in Nat \ T : ~ (<<y, x>> \in OpToRel(<, Nat))
  BY NatLessThanWellFounded, WFMin
<1>2. \A y \in Nat \ T : ~ (y < x)
  BY <1>1 DEF OpToRel
<1>3. x # 0 /\ x - 1 \in Nat /\ x - 1 \in T
  BY <1>2
<1> QED BY <1>3

\* Sequences arise from the empty one by appending.
LEMMA AppendInduction ==
  ASSUME NEW S, NEW T, <<>> \in T, \A s \in Seq(S) : \A x \in S : s \in T => Append(s, x) \in T
  PROVE  Seq(S) \subseteq T
<1> DEFINE L == {n \in Nat : \A s \in Seq(S) : Len(s) = n => s \in T}
<1>1. 0 \in L
  <2>1. \A s \in Seq(S) : Len(s) = 0 => s = <<>>
    OBVIOUS
  <2> QED BY <2>1
<1>2. ASSUME NEW k \in Nat, k \in L PROVE k + 1 \in L
  <2> SUFFICES ASSUME NEW s \in Seq(S), Len(s) = k + 1 PROVE s \in T
    OBVIOUS
  <2> DEFINE t == SubSeq(s, 1, k)
  <2>1. t \in Seq(S) /\ Len(t) = k /\ s[k + 1] \in S /\ s = Append(t, s[k + 1])
    OBVIOUS
  <2> HIDE DEF t
  <2>2. t \in T
    BY <1>2, <2>1
  <2> QED BY <2>1, <2>2
<1> HIDE DEF L
<1>3. Nat \subseteq L
  BY <1>1, <1>2, SetInduction
<1>4. \A s \in Seq(S) : Len(s) \in Nat
  OBVIOUS
<1> QED BY <1>3, <1>4 DEF L
-----------------------------------------------------------------------------
\* The recursion of FlattenSeq.
IsFlat(f, ss, n) == f = [i \in 1 .. n |-> IF i = 1 THEN ss[i] ELSE f[i - 1] \o ss[i]]

LEMMA FlatExists ==
  ASSUME NEW ss, NEW n \in Nat
  PROVE  \E f : IsFlat(f, ss, n)
<1> DEFINE T == {k \in Nat : \E f : IsFlat(f, ss, k)}
<1>1. 0 \in T
  <2>1. IsFlat(<<>>, ss, 0)
    BY DEF IsFlat
  <2> QED BY <2>1
<1>2. ASSUME NEW k \in Nat, k \in T PROVE k + 1 \in T
  <2>1. PICK f : IsFlat(f, ss, k)
    BY <1>2
  <2> DEFINE g == [i \in 1 .. k + 1 |->
                     IF i <= k THEN f[i] ELSE IF i = 1 THEN ss[i] ELSE f[k] \o ss[i]]
  <2>2. ASSUME NEW i \in 1 .. k + 1
        PROVE  g[i] = IF i = 1 THEN ss[i] ELSE g[i - 1] \o ss[i]
    <3>1. CASE i <= k
      <4>1. i \in 1 .. k /\ g[i] = f[i] /\ (i # 1 => i - 1 \in 1 .. k /\ g[i - 1] = f[i - 1])
        BY <3>1
      <4>2. f[i] = IF i = 1 THEN ss[i] ELSE f[i - 1] \o ss[i]
        BY <2>1, <4>1, Zenon DEF IsFlat
      <4> HIDE DEF g
      <4> QED BY <4>1, <4>2
    <3>2. CASE i = k + 1
      <4>1. i # 1 => k \in 1 .. k + 1 /\ k <= k /\ i - 1 = k
        BY <3>2
      <4>2. i # 1 => g[i - 1] = f[k]
        BY <4>1
      <4>3. g[i] = IF i = 1 THEN ss[i] ELSE f[k] \o ss[i]
        BY <3>2
      <4> HIDE DEF g
      <4> QED BY <4>2, <4>3
    <3> QED BY <3>1, <3>2
  <2>3. g = [i \in 1 .. k + 1 |-> g[i]]
    OBVIOUS
  <2> HIDE DEF g
  <2>4. IsFlat(g, ss, k + 1)
    BY <2>2, <2>3, Zenon DEF IsFlat
  <2> QED BY <2>4
<1> HIDE DEF T
<1> QED BY <1>1, <1>2, SetInduction DEF T

LEMMA FlatAgree ==
  ASSUME NEW ss, NEW tt, NEW f, NEW g, NEW n \in Nat, NEW m \in Nat, n <= m,
         IsFlat(f, ss, n), IsFlat(g, tt, m), \A i \in 1 .. n : ss[i] = tt[i]
  PROVE  \A i \in 1 .. n : f[i] = g[i]
<1> DEFINE T == {k \in Nat : k \in 1 .. n => f[k] = g[k]}
<1>1. 0 \in T
  OBVIOUS
<1>2. ASSUME NEW k \in Nat, k \in T PROVE k + 1 \in T
  <2> SUFFICES ASSUME k + 1 \in 1 .. n PROVE f[k + 1] = g[k + 1]
    OBVIOUS
  <2>1. k + 1 \in 1 .. m /\ (k + 1 # 1 => k \in 1 .. n) /\ (k + 1) - 1 = k
    OBVIOUS
  <2>2. f[k + 1] = IF k + 1 = 1 THEN ss[k + 1] ELSE f[k] \o ss[k + 1]
    BY <2>1 DEF IsFlat
  <2>3. g[k + 1] = IF k + 1 = 1 THEN tt[k + 1] ELSE g[k] \o tt[k + 1]
    BY <2>1 DEF IsFlat
  <2> QED BY <1>2, <2>1, <2>2, <2>3
<1> HIDE DEF T
<1>3. Nat \subseteq T
  BY <1>1, <1>2, SetInduction
<1> QED BY <1>3 DEF T

LEMMA FlattenIs ==
  ASSUME NEW ss, Len(ss) # 0
  PROVE  FlattenSeq(ss) = (CHOOSE f : IsFlat(f, ss, Len(ss)))[Len(ss)]
BY DEF FlattenSeq, IsFlat

LEMMA FlatOfMore ==
  ASSUME NEW S, NEW ss \in Seq(Seq(S)), NEW t \in Seq(S)
  PROVE  FlattenSeq(Append(ss, t)) = FlattenSeq(ss) \o t
<1> DEFINE n == Len(ss)
           tt == Append(ss, t)
           f == CHOOSE h : IsFlat(h, ss, n)
           g == CHOOSE h : IsFlat(h, tt, n + 1)
<1>1. n \in Nat /\ Len(tt) = n + 1 /\ tt[n + 1] = t /\ \A i \in 1 .. n : ss[i] = tt[i]
  OBVIOUS
<1> HIDE DEF n, tt
<1>2. FlattenSeq(tt) = g[n + 1]
  BY <1>1, FlattenIs
<1>3. IsFlat(f, ss, n) /\ IsFlat(g, tt, n + 1)
  <2>1. \E h : IsFlat(h, ss, n)
    BY <1>1, FlatExists
  <2>2. n + 1 \in Nat
    BY <1>1
  <2>3. \E h : IsFlat(h, tt, n + 1)
    BY <2>2, FlatExists
  <2> QED BY <2>1, <2>3
<1>4. CASE n = 0
  <2>1. ss = <<>>
    BY <1>4 DEF n
  <2>2. FlattenSeq(ss) = <<>>
    BY <2>1 DEF FlattenSeq
  <2>3. g[n + 1] = t
    BY <1>1, <1>3, <1>4 DEF IsFlat
  <2> QED BY <1>2, <2>2, <2>3 DEF tt
<1>5. CASE n # 0
  <2>1. FlattenSeq(ss) = f[n]
    BY <1>5, FlattenIs DEF n
  <2> HIDE DEF f, g
  <2>2. f[n] = g[n]
    <3>1. n + 1 \in Nat /\ n <= n + 1 /\ n \in 1 .. n
      BY <1>1, <1>5
    <3> QED BY <1>1, <1>3, <3>1, FlatAgree
  <2>3. g[n + 1] = g[n] \o t
    <3>1. n + 1 \in 1 .. n + 1 /\ n + 1 # 1 /\ (n + 1) - 1 = n
      BY <1>1, <1>5
    <3> QED BY <1>1, <1>3, <3>1 DEF IsFlat
  <2> QED BY <1>2, <2>1, <2>2, <2>3 DEF tt
<1> QED BY <1>4, <1>5
-----------------------------------------------------------------------------
\* Filters: each member of a sequence stays as one member, or goes.
AtMostOne(T) == {<<>>} \cup {<<y>> : y \in T}
Filters(F, S, T) == F \in [S -> AtMostOne(T)]
Yields(F, x, y) == F[x] = <<y>>
Drops(F, x) == F[x] = <<>>
Filtered(F, s) == FlattenSeq([i \in DOMAIN s |-> F[s[i]]])

LEMMA FilterOfNothing ==
  ASSUME NEW F
  PROVE  Filtered(F, <<>>) = <<>>
<1>1. [i \in DOMAIN <<>> |-> F[<<>>[i]]] = <<>>
  OBVIOUS
<1> QED BY <1>1 DEF Filtered, FlattenSeq

LEMMA FilterOfMore ==
  ASSUME NEW S, NEW T, NEW F, Filters(F, S, T), NEW s \in Seq(S), NEW x \in S
  PROVE  Filtered(F, Append(s, x)) = Filtered(F, s) \o F[x]
<1> DEFINE ss == [i \in DOMAIN s |-> F[s[i]]]
           tt == [i \in DOMAIN Append(s, x) |-> F[Append(s, x)[i]]]
<1>1. \A y \in S : F[y] \in Seq(T)
  <2>1. AtMostOne(T) \subseteq Seq(T)
    <3>1. <<>> \in Seq(T) /\ \A y \in T : <<y>> \in Seq(T)
      OBVIOUS
    <3> QED BY <3>1 DEF AtMostOne
  <2> QED BY <2>1 DEF Filters
<1>2. ss \in Seq(Seq(T))
  <2>1. DOMAIN s = 1 .. Len(s) /\ Len(s) \in Nat /\ \A i \in DOMAIN s : s[i] \in S
    OBVIOUS
  <2> QED BY <1>1, <2>1
<1>3. tt = Append(ss, F[x])
  <2>1. ss \in Seq(Seq(T)) /\ Len(ss) = Len(s) /\ F[x] \in Seq(T)
    BY <1>1, <1>2
  <2>2. DOMAIN tt = 1 .. Len(s) + 1 /\ DOMAIN Append(ss, F[x]) = 1 .. Len(s) + 1
    BY <2>1
  <2>3. tt \in Seq(Seq(T))
    <3>1. Append(s, x) \in Seq(S) /\ \A i \in DOMAIN Append(s, x) : Append(s, x)[i] \in S
      OBVIOUS
    <3> QED BY <1>1, <2>2, <3>1
  <2>4. \A i \in 1 .. Len(s) + 1 : tt[i] = Append(ss, F[x])[i]
    BY <2>1, <2>2
  <2> QED BY <2>1, <2>2, <2>3, <2>4
<1> HIDE DEF ss, tt
<1>4. FlattenSeq(tt) = FlattenSeq(ss) \o F[x]
  BY <1>1, <1>2, <1>3, FlatOfMore
<1> QED BY <1>4 DEF Filtered, ss, tt

LEMMA RangeOfMore ==
  ASSUME NEW S, NEW s \in Seq(S), NEW x
  PROVE  Range(Append(s, x)) = Range(s) \cup {x}
<1>1. /\ DOMAIN s = 1 .. Len(s) /\ Len(s) \in Nat
      /\ DOMAIN Append(s, x) = 1 .. Len(s) + 1 /\ Append(s, x)[Len(s) + 1] = x
      /\ \A i \in 1 .. Len(s) : Append(s, x)[i] = s[i]
  OBVIOUS
<1>2. DOMAIN Append(s, x) = DOMAIN s \cup {Len(s) + 1}
  BY <1>1
<1> QED BY <1>1, <1>2 DEF Range

\* What a filter returns, of which members, and when it leaves all as they are.
LEMMA FilterFacts ==
  ASSUME NEW S, NEW T, NEW F, Filters(F, S, T), NEW s \in Seq(S)
  PROVE  /\ Filtered(F, s) \in Seq(T)
         /\ \A y \in Range(Filtered(F, s)) : \E x \in Range(s) : Yields(F, x, y)
         /\ (\A x \in Range(s) : Yields(F, x, x)) => Filtered(F, s) = s
         /\ (\A x \in Range(s) : Drops(F, x)) => Filtered(F, s) = <<>>
<1> DEFINE P == {r \in Seq(S) :
                   /\ Filtered(F, r) \in Seq(T)
                   /\ \A y \in Range(Filtered(F, r)) : \E x \in Range(r) : F[x] = <<y>>
                   /\ (\A x \in Range(r) : F[x] = <<x>>) => Filtered(F, r) = r
                   /\ (\A x \in Range(r) : F[x] = <<>>) => Filtered(F, r) = <<>>}
<1>1. <<>> \in P
  <2>1. Range(<<>>) = {} /\ <<>> \in Seq(S) /\ <<>> \in Seq(T)
    BY DEF Range
  <2>2. Filtered(F, <<>>) = <<>>
    BY FilterOfNothing
  <2> QED BY <2>1, <2>2
<1>2. ASSUME NEW r \in Seq(S), NEW x \in S, r \in P PROVE Append(r, x) \in P
  <2>1. Filtered(F, Append(r, x)) = Filtered(F, r) \o F[x]
    BY FilterOfMore
  <2>2. F[x] = <<>> \/ \E y \in T : F[x] = <<y>>
    BY DEF AtMostOne, Filters
  <2> DEFINE f == Filtered(F, r)
  <2>3. /\ f \in Seq(T)
        /\ \A y \in Range(f) : \E z \in Range(r) : F[z] = <<y>>
        /\ (\A z \in Range(r) : F[z] = <<z>>) => f = r
        /\ (\A z \in Range(r) : F[z] = <<>>) => f = <<>>
    BY <1>2
  <2>4. Append(r, x) \in Seq(S) /\ Range(Append(r, x)) = Range(r) \cup {x}
    BY RangeOfMore
  <2> HIDE DEF f
  <2>5. CASE F[x] = <<>>
    <3>1. f \o F[x] = f /\ F[x] # <<x>>
      BY <2>3, <2>5
    <3> QED BY <2>1, <2>3, <2>4, <3>1 DEF f
  <2>6. ASSUME NEW y \in T, F[x] = <<y>> PROVE Append(r, x) \in P
    <3>1. f \o F[x] = Append(f, y) /\ Append(f, y) \in Seq(T)
      BY <2>3, <2>6
    <3>2. Range(Append(f, y)) = Range(f) \cup {y}
      BY <2>3, RangeOfMore
    <3>3. F[x] = <<x>> => y = x
      BY <2>6
    <3>4. F[x] # <<>>
      BY <2>6
    <3>5. Filtered(F, Append(r, x)) = Append(f, y)
      BY <2>1, <3>1 DEF f
    <3>6. \A z \in Range(Append(f, y)) : \E w \in Range(Append(r, x)) : F[w] = <<z>>
      BY <2>3, <2>4, <2>6, <3>2
    <3>7. (\A z \in Range(Append(r, x)) : F[z] = <<z>>) => Append(f, y) = Append(r, x)
      BY <2>3, <2>4, <3>3
    <3>8. ~ \A z \in Range(Append(r, x)) : F[z] = <<>>
      BY <2>4, <3>4
    <3> QED BY <2>4, <3>1, <3>5, <3>6, <3>7, <3>8
  <2> QED BY <2>2, <2>5, <2>6
<1> HIDE DEF P
<1>3. Seq(S) \subseteq P
  BY <1>1, <1>2, AppendInduction
<1> QED BY <1>3 DEF P, Yields, Drops

\* A filter after another one, which changes nothing that the first has not.
LEMMA FilterAgain ==
  ASSUME NEW S, NEW T, NEW U, NEW F, NEW G, NEW H, NEW s \in Seq(S),
         Filters(F, S, T), Filters(G, S, U), Filters(H, T, U),
         \A x \in S : G[x] = IF F[x] = <<>> THEN <<>> ELSE H[F[x][1]]
  PROVE  Filtered(H, Filtered(F, s)) = Filtered(G, s)
<1> DEFINE P == {r \in Seq(S) : Filtered(H, Filtered(F, r)) = Filtered(G, r)}
<1>1. <<>> \in P
  BY FilterOfNothing
<1>2. ASSUME NEW r \in Seq(S), NEW x \in S, r \in P PROVE Append(r, x) \in P
  <2>1. /\ Filtered(F, Append(r, x)) = Filtered(F, r) \o F[x]
        /\ Filtered(G, Append(r, x)) = Filtered(G, r) \o G[x]
    <3> HIDE DEF P
    <3>1. Filtered(F, Append(r, x)) = Filtered(F, r) \o F[x]
      BY FilterOfMore
    <3>2. Filtered(G, Append(r, x)) = Filtered(G, r) \o G[x]
      BY FilterOfMore
    <3> QED BY <3>1, <3>2
  <2>2. Filtered(F, r) \in Seq(T) /\ Filtered(G, r) \in Seq(U)
    BY FilterFacts
  <2>3. CASE F[x] = <<>>
    <3>1. G[x] = <<>>
      BY <2>3
    <3> QED BY <1>2, <2>1, <2>2, <2>3, <3>1
  <2>4. ASSUME NEW y \in T, F[x] = <<y>> PROVE Append(r, x) \in P
    <3>1. G[x] = H[y]
      <4>1. F[x] # <<>> /\ F[x][1] = y
        BY <2>4
      <4>2. G[x] = IF F[x] = <<>> THEN <<>> ELSE H[F[x][1]]
        OBVIOUS
      <4> QED BY <4>1, <4>2
    <3>2. Filtered(F, Append(r, x)) = Append(Filtered(F, r), y)
      BY <2>1, <2>2, <2>4
    <3>3. Filtered(H, Append(Filtered(F, r), y)) = Filtered(H, Filtered(F, r)) \o H[y]
      <4> DEFINE f == Filtered(F, r)
      <4>1. f \in Seq(T)
        BY <2>2
      <4> HIDE DEF f, P
      <4> QED BY <4>1, FilterOfMore DEF f
    <3>4. Filtered(H, Filtered(F, r)) = Filtered(G, r)
      BY <1>2
    <3>5. Filtered(H, Filtered(F, Append(r, x))) = Filtered(G, Append(r, x))
      BY <2>1, <3>1, <3>2, <3>3, <3>4
    <3> QED BY <3>5
  <2>5. F[x] = <<>> \/ \E y \in T : F[x] = <<y>>
    BY DEF AtMostOne, Filters
  <2> QED BY <2>3, <2>4, <2>5
<1> HIDE DEF P
<1>3. Seq(S) \subseteq P
  BY <1>1, <1>2, AppendInduction
<1> QED BY <1>3 DEF P
-----------------------------------------------------------------------------
IsSeq(s) == s \in Seq(Range(s))

LEMMA SeqOfMembers ==
  ASSUME NEW S, NEW s \in Seq(S)
  PROVE  IsSeq(s) /\ Range(s) \subseteq S
<1>1. DOMAIN s = 1 .. Len(s) /\ Len(s) \in Nat /\ \A i \in DOMAIN s : s[i] \in S
  OBVIOUS
<1>2. \A i \in DOMAIN s : s[i] \in Range(s)
  BY DEF Range
<1>3. s \in Seq(Range(s))
  BY <1>1, <1>2
<1> QED BY <1>1, <1>3 DEF IsSeq, Range

LEMMA SeqIn ==
  ASSUME NEW S, NEW s, IsSeq(s), Range(s) \subseteq S
  PROVE  s \in Seq(S)
BY DEF IsSeq

LEMMA Members ==
  ASSUME NEW s
  PROVE  /\ \A i \in DOMAIN s : s[i] \in Range(s)
         /\ \A x \in Range(s) : \E i \in DOMAIN s : s[i] = x
BY DEF Range

KeepForeign(S) == [c \in S |-> IF Owned(c) THEN <<>> ELSE <<c>>]

LEMMA RemainingFilter ==
  ASSUME NEW S, NEW cs \in Seq(S)
  PROVE  Filters(KeepForeign(S), S, S) /\ Remaining(cs) = Filtered(KeepForeign(S), cs)
<1>1. Filters(KeepForeign(S), S, S)
  BY DEF Filters, KeepForeign, AtMostOne
<1>2. \A j \in DOMAIN cs : cs[j] \in S
  OBVIOUS
<1>3. [j \in DOMAIN cs |-> KeepForeign(S)[cs[j]]]
        = [j \in DOMAIN cs |-> IF Owned(cs[j]) THEN <<>> ELSE <<cs[j]>>]
  BY <1>2 DEF KeepForeign
<1> QED BY <1>1, <1>3 DEF Filtered, Remaining

LEMMA RemainingFacts ==
  ASSUME NEW cs, IsSeq(cs)
  PROVE  /\ IsSeq(Remaining(cs))
         /\ \A j \in DOMAIN Remaining(cs) : ~ Owned(Remaining(cs)[j])
         /\ (\A j \in DOMAIN cs : ~ Owned(cs[j])) => Remaining(cs) = cs
<1> DEFINE S == Range(cs)
           F == KeepForeign(S)
<1>1. cs \in Seq(S)
  BY DEF IsSeq
<1>2. \A c \in S : F[c] = IF Owned(c) THEN <<>> ELSE <<c>>
  BY DEF KeepForeign
<1> HIDE DEF F
<1>3. Filters(F, S, S) /\ Remaining(cs) = Filtered(F, cs)
  BY <1>1, RemainingFilter DEF F
<1>4. /\ Remaining(cs) \in Seq(S)
      /\ \A y \in Range(Remaining(cs)) : \E x \in S : Yields(F, x, y)
      /\ (\A x \in S : Yields(F, x, x)) => Remaining(cs) = cs
  <2>1. S = Range(cs)
    OBVIOUS
  <2> HIDE DEF S
  <2>2. /\ Filtered(F, cs) \in Seq(S)
        /\ \A y \in Range(Filtered(F, cs)) : \E x \in Range(cs) : Yields(F, x, y)
        /\ (\A x \in Range(cs) : Yields(F, x, x)) => Filtered(F, cs) = cs
    BY <1>1, <1>3, FilterFacts
  <2> QED BY <1>3, <2>1, <2>2
<1>5. \A y \in Range(Remaining(cs)) : ~ Owned(y)
  <2> SUFFICES ASSUME NEW y \in Range(Remaining(cs)) PROVE ~ Owned(y)
    OBVIOUS
  <2>1. PICK x \in S : F[x] = <<y>>
    BY <1>4 DEF Yields
  <2>2. <<>> # <<y>>
    OBVIOUS
  <2>3. F[x] = <<x>> /\ ~ Owned(x)
    BY <1>2, <2>1, <2>2, Zenon
  <2> QED BY <2>1, <2>3
<1>6. (\A j \in DOMAIN cs : ~ Owned(cs[j])) => \A x \in S : Yields(F, x, x)
  BY <1>2, Members DEF Yields
<1> QED BY <1>3, <1>4, <1>5, <1>6, SeqOfMembers, Members

LEMMA RemainingOfMore ==
  ASSUME NEW cs, IsSeq(cs), NEW c, Owned(c)
  PROVE  Remaining(Append(cs, c)) = Remaining(cs)
<1> DEFINE S == Range(cs) \cup {c}
           F == KeepForeign(S)
<1>1. cs \in Seq(S) /\ c \in S /\ Append(cs, c) \in Seq(S)
  BY SeqIn
<1>2. F[c] = <<>>
  BY DEF KeepForeign
<1>3. Filters(F, S, S) /\ Remaining(cs) = Filtered(F, cs)
      /\ Remaining(Append(cs, c)) = Filtered(F, Append(cs, c))
  BY <1>1, RemainingFilter
<1> HIDE DEF F, S
<1>4. Filtered(F, Append(cs, c)) = Filtered(F, cs) \o F[c]
  BY <1>1, <1>3, FilterOfMore
<1>5. Filtered(F, cs) \in Seq(S)
  BY <1>1, <1>3, FilterFacts
<1> QED BY <1>2, <1>3, <1>4, <1>5
-----------------------------------------------------------------------------
ShapedCommands(c) == c.form = "list" => c = List(c.of) /\ IsSeq(c.of)
ShapedGroup(g) ==
  g.form = "group" => g = Group(g.matcher, g.commands) /\ ShapedCommands(g.commands)

LEMMA CommandsFacts ==
  ASSUME NEW g, ShapedGroup(g)
  PROVE  IsSeq(CommandsOf(g)) /\ (HasOwned(g) => g.form = "group" /\ g.commands = List(CommandsOf(g)))
<1>1. IsSeq(<<>>)
  <2>1. <<>> \in Seq({})
    OBVIOUS
  <2> QED BY <2>1, SeqOfMembers
<1>2. CASE g.form = "group" /\ g.commands.form = "list"
  BY <1>2 DEF CommandsOf, ShapedGroup, ShapedCommands
<1>3. CASE ~ (g.form = "group" /\ g.commands.form = "list")
  <2>1. CommandsOf(g) = <<>>
    BY <1>3 DEF CommandsOf
  <2>2. OursIn(g) = {}
    BY <2>1 DEF OursIn
  <2> QED BY <1>1, <2>1, <2>2 DEF HasOwned
<1> QED BY <1>2, <1>3

LEMMA ListGroup ==
  ASSUME NEW m, NEW cs, IsSeq(cs)
  PROVE  LET g == Group(m, List(cs))
         IN  /\ ShapedGroup(g) /\ g.form = "group" /\ g.matcher = m /\ g.commands = List(cs)
             /\ CommandsOf(g) = cs /\ (HasOwned(g) <=> \E j \in DOMAIN cs : Owned(cs[j]))
             /\ (Bare(g) <=> cs = <<>>)
<1> DEFINE g == Group(m, List(cs))
<1>1. g.form = "group" /\ g.matcher = m /\ g.commands = List(cs)
  BY DEF Group
<1>2. List(cs).form = "list" /\ List(cs).of = cs
  BY DEF List
<1> HIDE DEF g
<1>3. CommandsOf(g) = cs
  BY <1>1, <1>2 DEF CommandsOf
<1>4. ShapedGroup(g)
  BY <1>1, <1>2 DEF ShapedGroup, ShapedCommands, g
<1>5. Bare(g) <=> cs = <<>>
  BY <1>1, <1>2, <1>3 DEF Bare
<1>6. HasOwned(g) <=> \E j \in DOMAIN cs : Owned(cs[j])
  BY <1>3 DEF HasOwned, OursIn
<1> QED BY <1>1, <1>3, <1>4, <1>5, <1>6 DEF g

\* A group without the commands of ours.
LEMMA StrippedFacts ==
  ASSUME NEW g, ShapedGroup(g)
  PROVE  /\ ShapedGroup(Stripped(g)) /\ ~ HasOwned(Stripped(g))
         /\ Stripped(Stripped(g)) = Stripped(g)
         /\ \A M : ~ (HasOwned(g) /\ Remaining(CommandsOf(g)) = <<>>) =>
              ForeignGroup(Stripped(g), M) = ForeignGroup(g, M)
         /\ ~ HasOwned(g) => Stripped(g) = g
         /\ HasOwned(g) => Bare(Stripped(g)) = (Remaining(CommandsOf(g)) = <<>>)
<1> DEFINE h == Stripped(g)
           cs == Remaining(CommandsOf(g))
<1>1. CASE HasOwned(g)
  <2>1. h = Group(g.matcher, List(cs))
    BY <1>1 DEF Stripped
  <2>2. IsSeq(cs) /\ \A j \in DOMAIN cs : ~ Owned(cs[j])
    BY CommandsFacts, RemainingFacts
  <2> HIDE DEF h, cs
  <2>3. ShapedGroup(h) /\ ~ HasOwned(h) /\ (Bare(h) <=> cs = <<>>)
    BY <2>1, <2>2, ListGroup
  <2>4. Stripped(h) = h
    BY <2>3 DEF Stripped
  <2>5. ASSUME NEW M, cs # <<>> PROVE ForeignGroup(h, M) = ForeignGroup(g, M)
    BY <2>3, <2>4, <2>5 DEF ForeignGroup, h
  <2>6. Bare(h) = (cs = <<>>)
    BY <2>3, Zenon DEF Bare
  <2> QED BY <1>1, <2>3, <2>4, <2>5, <2>6 DEF h, cs
<1>2. CASE ~ HasOwned(g)
  <2>1. h = g
    BY <1>2 DEF Stripped
  <2> QED BY <1>2, <2>1 DEF ForeignGroup
<1> QED BY <1>1, <1>2
-----------------------------------------------------------------------------
ShapedGroups(gs) == IsSeq(gs) /\ \A g \in Range(gs) : ShapedGroup(g)

KeepOf(S) == [g \in S |-> KeptGroup(g)]
ForeignOf(S, M) == [g \in S |-> ForeignGroup(g, M)]
StrippedOf(S) == {Stripped(g) : g \in S}

LEMMA KeptFilter ==
  ASSUME NEW S, NEW gs \in Seq(S)
  PROVE  Filters(KeepOf(S), S, StrippedOf(S)) /\ Kept(gs) = Filtered(KeepOf(S), gs)
<1>1. Filters(KeepOf(S), S, StrippedOf(S))
  BY DEF Filters, KeepOf, AtMostOne, KeptGroup, StrippedOf
<1>2. \A j \in DOMAIN gs : gs[j] \in S
  OBVIOUS
<1>3. [j \in DOMAIN gs |-> KeepOf(S)[gs[j]]] = [j \in DOMAIN gs |-> KeptGroup(gs[j])]
  BY <1>2 DEF KeepOf
<1> QED BY <1>1, <1>3 DEF Filtered, Kept

LEMMA ForeignFilter ==
  ASSUME NEW S, NEW gs \in Seq(S), NEW M
  PROVE  /\ Filters(ForeignOf(S, M), S, StrippedOf(S))
         /\ ForeignGroups(gs, M) = Filtered(ForeignOf(S, M), gs)
<1>1. Filters(ForeignOf(S, M), S, StrippedOf(S))
  BY DEF Filters, ForeignOf, AtMostOne, ForeignGroup, StrippedOf
<1>2. \A j \in DOMAIN gs : gs[j] \in S
  OBVIOUS
<1>3. [j \in DOMAIN gs |-> ForeignOf(S, M)[gs[j]]] = [j \in DOMAIN gs |-> ForeignGroup(gs[j], M)]
  BY <1>2 DEF ForeignOf
<1> QED BY <1>1, <1>3 DEF Filtered, ForeignGroups

LEMMA KeptFacts ==
  ASSUME NEW gs, ShapedGroups(gs)
  PROVE  /\ ShapedGroups(Kept(gs))
         /\ \A k \in Range(Kept(gs)) : ~ HasOwned(k) /\ (Bare(k) => k \in Range(gs))
         /\ (\A g \in Range(gs) : ~ HasOwned(g)) => Kept(gs) = gs
<1> DEFINE S == Range(gs)
           F == KeepOf(S)
<1>1. gs \in Seq(S) /\ S = Range(gs) /\ \A g \in S : ShapedGroup(g)
  BY DEF ShapedGroups, IsSeq
<1>2. \A g \in S : F[g] = KeptGroup(g)
  BY DEF KeepOf
<1>3. Filters(F, S, StrippedOf(S)) /\ Kept(gs) = Filtered(F, gs)
  BY <1>1, KeptFilter
<1> HIDE DEF F, S
<1>4. /\ Filtered(F, gs) \in Seq(StrippedOf(S))
      /\ \A y \in Range(Filtered(F, gs)) : \E x \in Range(gs) : Yields(F, x, y)
      /\ (\A x \in Range(gs) : Yields(F, x, x)) => Filtered(F, gs) = gs
  BY <1>1, <1>3, FilterFacts
<1>5. ASSUME NEW k \in Range(Kept(gs))
      PROVE  ShapedGroup(k) /\ ~ HasOwned(k) /\ (Bare(k) => k \in S)
  <2>1. PICK g \in S : F[g] = <<k>>
    BY <1>1, <1>3, <1>4 DEF Yields
  <2>2. KeptGroup(g) = <<k>>
    BY <1>2, <2>1
  <2>3. <<>> # <<k>> /\ (<<Stripped(g)>> = <<k>> => Stripped(g) = k)
    OBVIOUS
  <2>4. k = Stripped(g) /\ ~ (HasOwned(g) /\ Remaining(CommandsOf(g)) = <<>>)
    BY <2>2, <2>3, Zenon DEF KeptGroup
  <2> QED BY <1>1, <2>4, StrippedFacts
<1>6. ASSUME \A g \in S : ~ HasOwned(g) PROVE Kept(gs) = gs
  <2>1. ASSUME NEW g \in S PROVE Yields(F, g, g)
    <3>1. KeptGroup(g) = <<g>>
      BY <1>1, <1>6, StrippedFacts DEF KeptGroup
    <3> QED BY <1>2, <3>1 DEF Yields
  <2> QED BY <1>1, <1>3, <1>4, <2>1
<1>7. IsSeq(Kept(gs))
  BY <1>3, <1>4, SeqOfMembers
<1> QED BY <1>1, <1>5, <1>6, <1>7 DEF ShapedGroups

LEMMA KeptIsForeign ==
  ASSUME NEW gs, ShapedGroups(gs), NEW M
  PROVE  ForeignGroups(Kept(gs), M) = ForeignGroups(gs, M)
<1> DEFINE S == Range(gs)
           T == StrippedOf(S)
           F == KeepOf(S)
           G == ForeignOf(S, M)
           H == ForeignOf(T, M)
<1>1. gs \in Seq(S) /\ \A g \in S : ShapedGroup(g)
  BY DEF ShapedGroups, IsSeq
<1>2. \A g \in S : F[g] = KeptGroup(g) /\ G[g] = ForeignGroup(g, M)
  BY DEF KeepOf, ForeignOf
<1>3. \A t \in T : H[t] = ForeignGroup(t, M)
  BY DEF ForeignOf
<1>4. /\ \A t \in T : Stripped(t) = t /\ ForeignGroup(t, M) \in AtMostOne(T)
      /\ \A g \in S : Stripped(g) \in T
  <2>1. \A g \in S : Stripped(g) \in T
    BY DEF StrippedOf
  <2>2. ASSUME NEW t \in T PROVE Stripped(t) = t /\ ForeignGroup(t, M) \in AtMostOne(T)
    <3>1. PICK g \in S : t = Stripped(g)
      BY DEF StrippedOf
    <3>2. Stripped(t) = t
      BY <1>1, <3>1, StrippedFacts
    <3>3. ForeignGroup(t, M) = <<>> \/ ForeignGroup(t, M) = <<t>>
      BY <3>2 DEF ForeignGroup
    <3> QED BY <3>2, <3>3 DEF AtMostOne
  <2> QED BY <2>1, <2>2
<1>5. Filters(F, S, T) /\ Kept(gs) = Filtered(F, gs)
  BY <1>1, KeptFilter
<1>6. Filters(G, S, T) /\ ForeignGroups(gs, M) = Filtered(G, gs)
  BY <1>1, ForeignFilter
<1>7. Filters(H, T, T)
  BY <1>4 DEF Filters, ForeignOf
<1>8. ASSUME NEW g \in S
      PROVE  G[g] = IF F[g] = <<>> THEN <<>> ELSE H[F[g][1]]
  <2>1. F[g] = KeptGroup(g) /\ G[g] = ForeignGroup(g, M) /\ Stripped(g) \in T
    BY <1>2, <1>4
  <2>2. H[Stripped(g)] = ForeignGroup(Stripped(g), M)
    BY <1>3, <2>1
  <2>3. ~ (HasOwned(g) /\ Remaining(CommandsOf(g)) = <<>>) =>
          ForeignGroup(Stripped(g), M) = ForeignGroup(g, M)
    BY <1>1, StrippedFacts
  <2> HIDE DEF F, G, H, T, S
  <2>4. CASE HasOwned(g) /\ Remaining(CommandsOf(g)) = <<>>
    <3>1. F[g] = <<>>
      BY <2>1, <2>4 DEF KeptGroup
    <3>2. ForeignGroup(g, M) = <<>>
      BY <1>1, <2>4, StrippedFacts DEF ForeignGroup
    <3> QED BY <2>1, <3>1, <3>2
  <2>5. CASE ~ (HasOwned(g) /\ Remaining(CommandsOf(g)) = <<>>)
    <3>1. F[g] = <<Stripped(g)>>
      BY <2>1, <2>5 DEF KeptGroup
    <3>2. F[g] # <<>> /\ F[g][1] = Stripped(g)
      BY <3>1
    <3> QED BY <2>1, <2>2, <2>3, <2>5, <3>2
  <2> QED BY <2>4, <2>5
<1> HIDE DEF F, G, H
<1>9. Kept(gs) \in Seq(T)
  BY <1>1, <1>5, FilterFacts
<1>10. ForeignGroups(Kept(gs), M) = Filtered(H, Kept(gs))
  BY <1>9, ForeignFilter DEF H
<1> HIDE DEF S, T
<1>11. Filtered(H, Filtered(F, gs)) = Filtered(G, gs)
  BY <1>1, <1>5, <1>6, <1>7, <1>8, FilterAgain
<1> QED BY <1>5, <1>6, <1>10, <1>11
-----------------------------------------------------------------------------
\* A group that a command of ours was put into, g, and what it was before, old.
LEMMA NewListed ==
  ASSUME NEW m, NEW c, NEW cs, IsSeq(cs)
  PROVE  LET ds == Append(cs, c)
             g == Group(m, List(ds))
         IN  /\ IsSeq(ds) /\ ds[Len(cs) + 1] = c /\ Len(cs) + 1 \in DOMAIN ds
             /\ ShapedGroup(g) /\ g.form = "group" /\ g.matcher = m /\ CommandsOf(g) = ds
<1> DEFINE ds == Append(cs, c)
<1>1. cs \in Seq(Range(cs) \cup {c})
  BY SeqIn
<1>2. ds \in Seq(Range(cs) \cup {c}) /\ ds[Len(cs) + 1] = c /\ Len(cs) + 1 \in DOMAIN ds
  BY <1>1
<1>3. IsSeq(ds)
  BY <1>2, SeqOfMembers
<1> HIDE DEF ds
<1>4. LET g == Group(m, List(ds))
      IN  ShapedGroup(g) /\ g.form = "group" /\ g.matcher = m /\ CommandsOf(g) = ds
  BY <1>3, ListGroup
<1> QED BY <1>2, <1>3, <1>4 DEF ds

LEMMA NewGroup ==
  ASSUME NEW m, NEW c, Owned(c), NEW cs, IsSeq(cs)
  PROVE  LET g == Group(m, List(Append(cs, c)))
             kept == IF Remaining(cs) = <<>> THEN <<>> ELSE <<Group(m, List(Remaining(cs)))>>
         IN  KeptGroup(g) = kept /\ \A M : ForeignGroup(g, M) = kept
<1> DEFINE g == Group(m, List(Append(cs, c)))
           rest == Remaining(cs)
<1>1. /\ ShapedGroup(g) /\ g.matcher = m /\ CommandsOf(g) = Append(cs, c)
      /\ Append(cs, c)[Len(cs) + 1] = c /\ Len(cs) + 1 \in DOMAIN Append(cs, c)
  BY NewListed
<1> HIDE DEF g
<1>2. HasOwned(g)
  BY <1>1 DEF HasOwned, OursIn
<1>3. Remaining(CommandsOf(g)) = rest
  BY <1>1, RemainingOfMore
<1>4. Stripped(g) = Group(m, List(rest))
  BY <1>1, <1>2, <1>3 DEF Stripped
<1>5. Bare(Stripped(g)) = (rest = <<>>)
  BY <1>1, <1>2, <1>3, StrippedFacts
<1> HIDE DEF rest
<1>6. KeptGroup(g) = IF rest = <<>> THEN <<>> ELSE <<Group(m, List(rest))>>
  BY <1>2, <1>3, <1>4 DEF KeptGroup
<1>7. \A M : ForeignGroup(g, M) = IF rest = <<>> THEN <<>> ELSE <<Group(m, List(rest))>>
  BY <1>2, <1>4, <1>5 DEF ForeignGroup
<1> QED BY <1>6, <1>7 DEF g, rest

LEMMA OldGroup ==
  ASSUME NEW old, ShapedGroup(old), old.form = "group", old.commands.form # "odd",
         NEW c, Owned(c), NEW M
  PROVE  LET g == Group(old.matcher, List(Append(CommandsOf(old), c)))
         IN  /\ ~ Bare(old) \/ old.matcher \in M => ForeignGroup(g, M) = ForeignGroup(old, M)
             /\ ~ Bare(old) => KeptGroup(g) = KeptGroup(old)
<1> DEFINE g == Group(old.matcher, List(Append(CommandsOf(old), c)))
           cs == CommandsOf(old)
           rest == Remaining(cs)
<1>1. IsSeq(cs)
  BY CommandsFacts
<1>2. /\ KeptGroup(g) = IF rest = <<>> THEN <<>> ELSE <<Group(old.matcher, List(rest))>>
      /\ ForeignGroup(g, M) = IF rest = <<>> THEN <<>> ELSE <<Group(old.matcher, List(rest))>>
  BY <1>1, NewGroup
<1> HIDE DEF g
<1>3. CASE HasOwned(old)
  <2>1. Stripped(old) = Group(old.matcher, List(rest))
    BY <1>3 DEF Stripped
  <2>2. Bare(Stripped(old)) = (rest = <<>>)
    BY <1>3, StrippedFacts
  <2> HIDE DEF cs, rest
  <2>3. KeptGroup(old) = IF rest = <<>> THEN <<>> ELSE <<Group(old.matcher, List(rest))>>
    BY <1>3, <2>1 DEF KeptGroup, cs, rest
  <2>4. ForeignGroup(old, M) = IF rest = <<>> THEN <<>> ELSE <<Group(old.matcher, List(rest))>>
    BY <1>3, <2>1, <2>2 DEF ForeignGroup
  <2> QED BY <1>2, <2>3, <2>4 DEF g, cs, rest
<1>4. CASE ~ HasOwned(old)
  <2>1. Stripped(old) = old /\ KeptGroup(old) = <<old>>
    BY <1>4, StrippedFacts DEF KeptGroup
  <2>2. rest = cs
    BY <1>1, <1>4, RemainingFacts DEF HasOwned, OursIn
  <2>3. CASE cs = <<>>
    <3>1. Bare(old)
      BY <2>3 DEF Bare
    <3>2. old.matcher \in M => ForeignGroup(old, M) = <<>> /\ ForeignGroup(g, M) = <<>>
      BY <1>2, <2>1, <2>2, <2>3, <3>1 DEF ForeignGroup
    <3> QED BY <3>1, <3>2 DEF g
  <2>4. CASE cs # <<>>
    <3>1. old.commands.form = "list" /\ old.commands.of = cs
      BY <2>4 DEF CommandsOf
    <3>2. old.commands = List(cs)
      BY <3>1 DEF ShapedGroup, ShapedCommands
    <3>3. old = Group(old.matcher, List(cs))
      BY <3>2 DEF ShapedGroup
    <3>4. ~ Bare(old)
      BY <2>4 DEF Bare
    <3> HIDE DEF cs, rest
    <3>5. ForeignGroup(old, M) = <<old>>
      BY <2>1, <3>4 DEF ForeignGroup
    <3>6. ForeignGroup(g, M) = <<old>> /\ KeptGroup(g) = <<old>>
      BY <1>2, <2>2, <2>4, <3>3
    <3> QED BY <2>1, <3>5, <3>6 DEF g, cs
  <2> QED BY <2>3, <2>4
<1> QED BY <1>3, <1>4

\* The groups of an event with one command more, in the group at i.
JoinedAt(gs, ns, m, c, i) ==
  /\ ShapedGroups(ns)
  /\ DOMAIN ns = DOMAIN gs \cup {i}
  /\ \A j \in DOMAIN gs \ {i} : ns[j] = gs[j]
  /\ i \in DOMAIN gs =>
       /\ gs[i].form = "group" /\ gs[i].matcher = m /\ gs[i].commands.form # "odd"
       /\ ns[i] = Group(m, List(Append(CommandsOf(gs[i]), c)))
  /\ i \notin DOMAIN gs =>
       ns[i] = Group(m, List(Append(<<>>, c))) /\ ns = Append(gs, Group(m, List(Append(<<>>, c))))

LEMMA JoinedFacts ==
  ASSUME NEW gs, ShapedGroups(gs), NEW m, NEW c,
         Matching(gs, m) # {} => gs[Min(Matching(gs, m))].commands.form # "odd"
  PROVE  \E i : JoinedAt(gs, Joined(gs, m, c), m, c, i)
<1> DEFINE ns == Joined(gs, m, c)
           n == Len(gs)
<1>1. /\ gs \in Seq(Range(gs)) /\ n \in Nat /\ DOMAIN gs = 1 .. n
      /\ \A g \in Range(gs) : ShapedGroup(g)
  BY DEF ShapedGroups, IsSeq
<1>2. CASE Matching(gs, m) = {}
  <2> DEFINE g == Group(m, List(Append(<<>>, c)))
  <2>1. ns = Append(gs, g)
    <3>1. Append(<<>>, c) = <<c>>
      OBVIOUS
    <3> QED BY <1>2, <3>1 DEF Joined
  <2>2. ShapedGroup(g)
    <3>1. IsSeq(<<>>)
      <4>1. <<>> \in Seq({})
        OBVIOUS
      <4> QED BY <4>1, SeqOfMembers
    <3> QED BY <3>1, NewListed
  <2> HIDE DEF ns, g
  <2>3. /\ DOMAIN ns = DOMAIN gs \cup {n + 1} /\ n + 1 \notin DOMAIN gs
        /\ \A j \in DOMAIN gs : ns[j] = gs[j]
        /\ ns[n + 1] = g
    BY <1>1, <2>1
  <2>4. ShapedGroups(ns)
    <3>1. Range(ns) = Range(gs) \cup {g}
      BY <1>1, <2>1, RangeOfMore
    <3>2. gs \in Seq(Range(gs) \cup {g})
      BY SeqIn DEF ShapedGroups
    <3>3. ns \in Seq(Range(gs) \cup {g})
      BY <2>1, <3>2
    <3> QED BY <1>1, <2>2, <3>1, <3>3 DEF ShapedGroups, IsSeq
  <2>5. JoinedAt(gs, ns, m, c, n + 1)
    BY <2>1, <2>3, <2>4 DEF JoinedAt, g
  <2> QED BY <2>5 DEF ns
<1>3. CASE Matching(gs, m) # {}
  <2> DEFINE i == Min(Matching(gs, m))
             g == Group(m, List(Append(CommandsOf(gs[i]), c)))
  <2>1. i \in Matching(gs, m)
    <3>1. Matching(gs, m) \subseteq Nat
      BY <1>1 DEF Matching
    <3>2. PICK x \in Matching(gs, m) :
            \A y \in Matching(gs, m) : ~ (<<y, x>> \in OpToRel(<, Nat))
      BY <1>3, <3>1, NatLessThanWellFounded, WFMin
    <3>3. \A y \in Matching(gs, m) : x <= y
      <4>1. \A y \in Matching(gs, m) : ~ (y < x)
        BY <3>1, <3>2 DEF OpToRel
      <4> QED BY <3>1, <4>1
    <3> QED BY <3>3 DEF Min
  <2>2. i \in DOMAIN gs /\ gs[i].form = "group" /\ gs[i].matcher = m
    BY <2>1 DEF Matching
  <2>3. ns = [gs EXCEPT ![i] = g]
    BY <1>3 DEF Joined
  <2>4. gs[i].commands.form # "odd"
    BY <1>3
  <2> HIDE DEF i
  <2>5. ShapedGroup(g)
    BY <1>1, <2>2, Members, CommandsFacts, NewListed
  <2> HIDE DEF ns, g
  <2>6. /\ DOMAIN ns = DOMAIN gs /\ \A j \in DOMAIN gs \ {i} : ns[j] = gs[j] /\ ns[i] = g
    BY <2>2, <2>3
  <2>7. ShapedGroups(ns)
    <3>1. gs \in Seq(Range(gs) \cup {g})
      BY SeqIn DEF ShapedGroups
    <3>2. ns \in Seq(Range(gs) \cup {g})
      BY <2>2, <2>3, <3>1
    <3>3. ASSUME NEW x \in Range(ns) PROVE ShapedGroup(x)
      <4>1. PICK j \in DOMAIN ns : x = ns[j]
        BY Members
      <4>2. x = g \/ x \in Range(gs)
        BY <2>6, <2>2, <2>3, <4>1, Members
      <4> QED BY <1>1, <2>5, <4>2
    <3> QED BY <3>2, <3>3, SeqOfMembers DEF ShapedGroups
  <2>8. ns[i] = g
    BY <2>2, <2>3
  <2>9. JoinedAt(gs, ns, m, c, i)
    BY <2>2, <2>4, <2>6, <2>7, <2>8 DEF JoinedAt, g
  <2> QED BY <2>9 DEF ns
<1> QED BY <1>2, <1>3

\* What joins a group is no part of what others put there, and goes again.
LEMMA JoinedKeeps ==
  ASSUME NEW gs, ShapedGroups(gs), NEW ns, NEW m, NEW c, Owned(c), NEW i, JoinedAt(gs, ns, m, c, i),
         NEW M
  PROVE  /\ m \in M \/ (i \in DOMAIN gs => ~ Bare(gs[i])) => ForeignGroups(ns, M) = ForeignGroups(gs, M)
         /\ (i \in DOMAIN gs => ~ Bare(gs[i])) => Kept(ns) = Kept(gs)
<1>1. \A j \in DOMAIN gs : ShapedGroup(gs[j])
  BY Members DEF ShapedGroups
<1>2. CASE i \in DOMAIN gs
  <2>1. DOMAIN ns = DOMAIN gs
    BY <1>2 DEF JoinedAt
  <2>2. /\ ~ Bare(gs[i]) \/ m \in M => ForeignGroup(ns[i], M) = ForeignGroup(gs[i], M)
        /\ ~ Bare(gs[i]) => KeptGroup(ns[i]) = KeptGroup(gs[i])
    <3>1. /\ gs[i].form = "group" /\ gs[i].matcher = m /\ gs[i].commands.form # "odd"
          /\ ns[i] = Group(m, List(Append(CommandsOf(gs[i]), c)))
      BY <1>2, Zenon DEF JoinedAt
    <3> QED BY <1>1, <1>2, <3>1, OldGroup
  <2>3. \A j \in DOMAIN gs : j # i => ns[j] = gs[j]
    BY DEF JoinedAt
  <2>4. ASSUME ~ Bare(gs[i]) \/ m \in M
        PROVE  [j \in DOMAIN ns |-> ForeignGroup(ns[j], M)] = [j \in DOMAIN gs |-> ForeignGroup(gs[j], M)]
    <3>1. \A j \in DOMAIN gs : ForeignGroup(ns[j], M) = ForeignGroup(gs[j], M)
      BY <2>2, <2>3, <2>4
    <3> QED BY <2>1, <3>1, Zenon
  <2>5. ASSUME ~ Bare(gs[i])
        PROVE  [j \in DOMAIN ns |-> KeptGroup(ns[j])] = [j \in DOMAIN gs |-> KeptGroup(gs[j])]
    <3>1. \A j \in DOMAIN gs : KeptGroup(ns[j]) = KeptGroup(gs[j])
      BY <2>2, <2>3, <2>5
    <3> QED BY <2>1, <3>1, Zenon
  <2> QED BY <1>2, <2>4, <2>5, Zenon DEF ForeignGroups, Kept
<1>3. CASE i \notin DOMAIN gs
  <2> DEFINE g == Group(m, List(Append(<<>>, c)))
             S == Range(gs) \cup {g}
             F == KeepOf(S)
             G == ForeignOf(S, M)
  <2>1. ns = Append(gs, g)
    BY <1>3, Zenon DEF JoinedAt
  <2>2. KeptGroup(g) = <<>> /\ ForeignGroup(g, M) = <<>>
    <3>1. IsSeq(<<>>)
      <4>1. <<>> \in Seq({})
        OBVIOUS
      <4> QED BY <4>1, SeqOfMembers
    <3>2. Remaining(<<>>) = <<>>
      <4>1. \A j \in DOMAIN <<>> : ~ Owned(<<>>[j])
        OBVIOUS
      <4> QED BY <3>1, <4>1, RemainingFacts
    <3> DEFINE none == <<>>
               h == Group(m, List(Append(none, c)))
    <3>3. IsSeq(none) /\ Remaining(none) = <<>>
      BY <3>1, <3>2
    <3> HIDE DEF none
    <3>4. KeptGroup(h) = <<>> /\ ForeignGroup(h, M) = <<>>
      BY <3>3, NewGroup
    <3> QED BY <3>4 DEF none
  <2>3. F[g] = <<>> /\ G[g] = <<>>
    BY <2>2 DEF KeepOf, ForeignOf
  <2>4. gs \in Seq(S) /\ g \in S
    BY SeqIn DEF ShapedGroups
  <2>5. ns \in Seq(S)
    BY <2>1, <2>4
  <2> HIDE DEF g, S, F, G
  <2>6. /\ Filters(F, S, StrippedOf(S)) /\ Kept(gs) = Filtered(F, gs) /\ Kept(ns) = Filtered(F, ns)
    BY <2>4, <2>5, KeptFilter DEF F
  <2>7. /\ Filters(G, S, StrippedOf(S)) /\ ForeignGroups(gs, M) = Filtered(G, gs)
        /\ ForeignGroups(ns, M) = Filtered(G, ns)
    BY <2>4, <2>5, ForeignFilter DEF G
  <2>8. Filtered(F, ns) = Filtered(F, gs) \o F[g] /\ Filtered(G, ns) = Filtered(G, gs) \o G[g]
    BY <2>1, <2>4, <2>6, <2>7, FilterOfMore
  <2>9. Filtered(F, gs) \in Seq(StrippedOf(S)) /\ Filtered(G, gs) \in Seq(StrippedOf(S))
    BY <2>4, <2>6, <2>7, FilterFacts
  <2>10. Filtered(F, gs) \o <<>> = Filtered(F, gs) /\ Filtered(G, gs) \o <<>> = Filtered(G, gs)
    BY <2>9
  <2> QED BY <2>3, <2>6, <2>7, <2>8, <2>10
<1> QED BY <1>2, <1>3
-----------------------------------------------------------------------------
(***************************************************************************)
(* The hooks of a file: events with their groups.                          *)
(***************************************************************************)
IsFun(f) == f = [x \in DOMAIN f |-> f[x]]

GroupsIn(h, e) == IF e \in DOMAIN h /\ h[e].form = "list" THEN h[e].of ELSE <<>>

ShapedValue(v) == v.form = "list" => v = List(v.of) /\ ShapedGroups(v.of)
ShapedHooks(h) == \A e \in DOMAIN h : ShapedValue(h[e])

ForeignIn(h, e, M) ==
  IF e \notin DOMAIN h THEN <<>>
  ELSE IF h[e].form = "list" THEN ForeignGroups(h[e].of, M) ELSE <<h[e]>>

Present(h, e, M) ==
  e \in DOMAIN h /\ (ForeignIn(h, e, M) # <<>> \/ (M = {} /\ GroupsIn(h, e) = <<>>))

\* What others have put at event e, groups without commands for M left out.
SameAt(h, g, e, M) ==
  ForeignIn(h, e, M) = ForeignIn(g, e, M) /\ (Present(h, e, M) <=> Present(g, e, M))

Unowned(h) == \A e \in DOMAIN h : h[e].form = "list" => \A g \in Range(h[e].of) : ~ HasOwned(g)

\* No expected entry will go into a group without commands, or an event without groups.
Bareless(h) ==
  \A x \in Range(Expected) : \A g \in Range(GroupsIn(h, x.event)) :
    g.form = "group" /\ g.matcher = x.matcher => ~ Bare(g)
Gapless(h) ==
  /\ Bareless(h)
  /\ \A x \in Range(Expected) : x.event \in DOMAIN h => h[x.event] # List(<<>>)

LEMMA NoGroups ==
  IsSeq(<<>>) /\ ShapedGroups(<<>>) /\ Kept(<<>>) = <<>> /\ \A M : ForeignGroups(<<>>, M) = <<>>
<1>1. <<>> \in Seq({}) /\ Range(<<>>) = {}
  BY DEF Range
<1>2. IsSeq(<<>>)
  BY <1>1, SeqOfMembers
<1>3. ShapedGroups(<<>>)
  BY <1>1, <1>2 DEF ShapedGroups
<1>4. Kept(<<>>) = <<>>
  BY <1>1, <1>3, KeptFacts
<1>5. ASSUME NEW M PROVE ForeignGroups(<<>>, M) = <<>>
  <2>1. ForeignGroups(<<>>, M) = Filtered(ForeignOf({}, M), <<>>)
    BY <1>1, ForeignFilter
  <2> QED BY <2>1, FilterOfNothing
<1> QED BY <1>2, <1>3, <1>4, <1>5

LEMMA RemoveFacts ==
  ASSUME NEW h
  PROVE  LET r == RemoveOwned(h)
         IN  /\ DOMAIN r \subseteq DOMAIN h
             /\ \A e \in DOMAIN r :
                  r[e] = IF h[e].form = "list" THEN List(Kept(h[e].of)) ELSE h[e]
             /\ \A e \in DOMAIN h \ DOMAIN r :
                  /\ h[e].form = "list" /\ Kept(h[e].of) = <<>>
                  /\ \E g \in Range(h[e].of) : HasOwned(g)
             /\ \A e \in DOMAIN r : h[e].form = "list" /\ Kept(h[e].of) = <<>> =>
                  \A g \in Range(h[e].of) : ~ HasOwned(g)
BY Members DEF RemoveOwned

LEMMA RemoveKeeps ==
  ASSUME NEW h, ShapedHooks(h)
  PROVE  LET r == RemoveOwned(h)
         IN  /\ ShapedHooks(r) /\ Unowned(r)
             /\ \A e, M : SameAt(r, h, e, M)
             /\ Bareless(h) => Bareless(r)
             /\ Gapless(h) => Gapless(r)
<1> DEFINE r == RemoveOwned(h)
<1>1. /\ DOMAIN r \subseteq DOMAIN h
      /\ \A e \in DOMAIN r :
           r[e] = IF h[e].form = "list" THEN List(Kept(h[e].of)) ELSE h[e]
      /\ \A e \in DOMAIN h \ DOMAIN r :
           /\ h[e].form = "list" /\ Kept(h[e].of) = <<>>
           /\ \E g \in Range(h[e].of) : HasOwned(g)
      /\ \A e \in DOMAIN r : h[e].form = "list" /\ Kept(h[e].of) = <<>> =>
           \A g \in Range(h[e].of) : ~ HasOwned(g)
  BY RemoveFacts
<1> HIDE DEF r
<1>2. ASSUME NEW e \in DOMAIN h, h[e].form = "list"
      PROVE  /\ ShapedGroups(h[e].of) /\ ShapedGroups(Kept(h[e].of))
             /\ \A M : ForeignGroups(Kept(h[e].of), M) = ForeignGroups(h[e].of, M)
             /\ (\A g \in Range(h[e].of) : ~ HasOwned(g)) => Kept(h[e].of) = h[e].of
             /\ h[e] = List(h[e].of)
             /\ \A k \in Range(Kept(h[e].of)) : ~ HasOwned(k) /\ (Bare(k) => k \in Range(h[e].of))
  <2>1. ShapedGroups(h[e].of) /\ h[e] = List(h[e].of)
    BY <1>2 DEF ShapedHooks, ShapedValue
  <2> QED BY <2>1, KeptFacts, KeptIsForeign
<1>3. ASSUME NEW e \in DOMAIN r, h[e].form = "list"
      PROVE  r[e].form = "list" /\ r[e].of = Kept(h[e].of) /\ r[e] = List(r[e].of)
  BY <1>1, <1>3 DEF List
<1>4. ShapedHooks(r)
  <2> SUFFICES ASSUME NEW e \in DOMAIN r, r[e].form = "list"
               PROVE  r[e] = List(r[e].of) /\ ShapedGroups(r[e].of)
    BY DEF ShapedHooks, ShapedValue
  <2>1. h[e].form = "list"
    BY <1>1
  <2> QED BY <1>1, <1>2, <1>3, <2>1
<1>5. Unowned(r)
  <2> SUFFICES ASSUME NEW e \in DOMAIN r, r[e].form = "list", NEW g \in Range(r[e].of)
               PROVE  ~ HasOwned(g)
    BY DEF Unowned
  <2>1. h[e].form = "list"
    BY <1>1
  <2> QED BY <1>1, <1>2, <1>3, <2>1
<1>6. ASSUME NEW e, NEW M PROVE SameAt(r, h, e, M)
  <2>1. CASE e \notin DOMAIN h
    BY <1>1, <2>1 DEF SameAt, Present, ForeignIn
  <2>2. CASE e \in DOMAIN h \ DOMAIN r
    <3>1. ForeignGroups(h[e].of, M) = <<>>
      BY <1>1, <1>2, <2>2, NoGroups
    <3>2. h[e].of # <<>>
      <4>1. Range(<<>>) = {}
        BY DEF Range
      <4> QED BY <1>1, <2>2, <4>1
    <3>3. ForeignIn(h, e, M) = <<>> /\ ForeignIn(r, e, M) = <<>> /\ GroupsIn(h, e) # <<>>
      BY <1>1, <2>2, <3>1, <3>2 DEF ForeignIn, GroupsIn
    <3> QED BY <2>2, <3>3 DEF SameAt, Present
  <2>3. CASE e \in DOMAIN r
    <3>1. CASE h[e].form = "list"
      <4>1. ForeignIn(r, e, M) = ForeignIn(h, e, M)
        BY <1>1, <1>2, <1>3, <2>3, <3>1 DEF ForeignIn
      <4>2. GroupsIn(r, e) = Kept(h[e].of) /\ GroupsIn(h, e) = h[e].of
        BY <1>1, <1>3, <2>3, <3>1 DEF GroupsIn
      <4>3. GroupsIn(r, e) = <<>> <=> GroupsIn(h, e) = <<>>
        <5>1. ASSUME h[e].of = <<>> PROVE Kept(h[e].of) = <<>>
          BY <5>1, NoGroups
        <5>2. ASSUME Kept(h[e].of) = <<>> PROVE h[e].of = <<>>
          BY <1>1, <1>2, <2>3, <3>1, <5>2
        <5> QED BY <4>2, <5>1, <5>2
      <4> QED BY <1>1, <2>3, <4>1, <4>3 DEF SameAt, Present
    <3>2. CASE h[e].form # "list"
      <4>1. r[e] = h[e] /\ e \in DOMAIN h
        BY <1>1, <2>3, <3>2
      <4> QED BY <2>3, <4>1 DEF SameAt, Present, ForeignIn, GroupsIn
    <3> QED BY <3>1, <3>2
  <2> QED BY <2>1, <2>2, <2>3
<1>7. ASSUME Bareless(h) PROVE Bareless(r)
  <2> SUFFICES ASSUME NEW x \in Range(Expected), NEW g \in Range(GroupsIn(r, x.event)),
                      g.form = "group", g.matcher = x.matcher, Bare(g)
               PROVE  FALSE
    BY DEF Bareless
  <2>1. x.event \in DOMAIN r /\ r[x.event].form = "list" /\ g \in Range(r[x.event].of)
    <3>1. Range(<<>>) = {}
      BY DEF Range
    <3> QED BY <3>1 DEF GroupsIn
  <2>2. h[x.event].form = "list" /\ x.event \in DOMAIN h
    BY <1>1, <2>1
  <2>3. g \in Range(h[x.event].of)
    BY <1>2, <1>3, <2>1, <2>2
  <2> QED BY <1>7, <2>2, <2>3 DEF Bareless, GroupsIn
<1>8. ASSUME Gapless(h) PROVE Gapless(r)
  <2> SUFFICES ASSUME NEW x \in Range(Expected), x.event \in DOMAIN r, r[x.event] = List(<<>>)
               PROVE  FALSE
    BY <1>7, <1>8 DEF Gapless
  <2>1. List(<<>>).form = "list" /\ List(<<>>).of = <<>>
    BY DEF List
  <2>2. x.event \in DOMAIN h /\ h[x.event].form = "list" /\ Kept(h[x.event].of) = <<>>
    BY <1>1, <1>3, <2>1
  <2>3. h[x.event].of = <<>>
    BY <1>1, <1>2, <2>2
  <2>4. h[x.event] = List(<<>>)
    BY <1>2, <2>2, <2>3
  <2> QED BY <1>8, <2>2, <2>4 DEF Gapless
<1> QED BY <1>4, <1>5, <1>6, <1>7, <1>8 DEF r
-----------------------------------------------------------------------------
\* g is h with entry x added, in group i of its event.
EntryAdded(h, g, x, root, i) ==
  /\ DOMAIN g = DOMAIN h \cup {x.event}
  /\ \A e \in DOMAIN h \ {x.event} : g[e] = h[e]
  /\ g[x.event] = List(GroupsIn(g, x.event))
  /\ x.event \in DOMAIN h => h[x.event] = List(GroupsIn(h, x.event))
  /\ JoinedAt(GroupsIn(h, x.event), GroupsIn(g, x.event), x.matcher, Ours(x.hook, root), i)

LEMMA ShapedGroupsIn ==
  ASSUME NEW h, ShapedHooks(h), NEW e
  PROVE  /\ ShapedGroups(GroupsIn(h, e))
         /\ e \in DOMAIN h /\ h[e].form = "list" => h[e] = List(GroupsIn(h, e))
BY NoGroups DEF GroupsIn, ShapedHooks, ShapedValue

LEMMA AddEntryFacts ==
  ASSUME NEW h, ShapedHooks(h), NEW x, NEW root, AddEntry(h, x, root) # Refused
  PROVE  \E g, i : /\ AddEntry(h, x, root) = Events(g) /\ IsFun(g)
                   /\ EntryAdded(h, g, x, root, i)
<1> DEFINE value == ValueAt(h, x.event)
           gs == GroupsIn(h, x.event)
           c == Ours(x.hook, root)
           ns == Joined(gs, x.matcher, c)
           g == [e \in DOMAIN h \cup {x.event} |-> IF e = x.event THEN List(ns) ELSE h[e]]
<1>1. ~ Refuses(value, x.matcher)
  BY DEF AddEntry
<1>2. value.form = "list"
  BY <1>1 DEF Refuses
<1>3. value.of = gs /\ (x.event \in DOMAIN h => h[x.event] = List(gs))
  <2>1. CASE x.event \in DOMAIN h
    BY <1>2, <2>1, ShapedGroupsIn DEF ValueAt, GroupsIn
  <2>2. CASE x.event \notin DOMAIN h
    BY <2>2 DEF ValueAt, GroupsIn, List
  <2> QED BY <2>1, <2>2
<1>4. Matching(gs, x.matcher) # {} => gs[Min(Matching(gs, x.matcher))].commands.form # "odd"
  BY <1>1, <1>3 DEF Refuses
<1>5. ShapedGroups(gs)
  BY ShapedGroupsIn
<1>6. AddEntry(h, x, root) = Events(g)
  BY <1>1, <1>3 DEF AddEntry
<1>7. IsFun(g)
  BY DEF IsFun
<1> HIDE DEF gs, c, value
<1>8. PICK i : JoinedAt(gs, ns, x.matcher, c, i)
  BY <1>4, <1>5, JoinedFacts
<1>9. /\ DOMAIN g = DOMAIN h \cup {x.event} /\ g[x.event] = List(ns)
      /\ \A e \in DOMAIN h \ {x.event} : g[e] = h[e]
  OBVIOUS
<1> HIDE DEF g, ns
<1>10. GroupsIn(g, x.event) = ns
  BY <1>9 DEF GroupsIn, List
<1>11. EntryAdded(h, g, x, root, i)
  BY <1>3, <1>8, <1>9, <1>10 DEF EntryAdded, gs, c
<1> QED BY <1>6, <1>7, <1>11

LEMMA OtherGroups ==
  ASSUME NEW h, NEW g, NEW x, NEW root, NEW i, EntryAdded(h, g, x, root, i), NEW e, e # x.event
  PROVE  /\ e \in DOMAIN g <=> e \in DOMAIN h
         /\ e \in DOMAIN h => g[e] = h[e]
         /\ GroupsIn(g, e) = GroupsIn(h, e) 
         /\ \A M : SameAt(g, h, e, M)
BY DEF EntryAdded, GroupsIn, ForeignIn, SameAt, Present

\* A command is known by where it points to.
LEMMA OursOwned ==
  ASSUME NEW hook, NEW root
  PROVE  Owned(Ours(hook, root)) <=> root \in Recognised
BY DEF Owned, Ours

\* What stands in the group that the command went into.
LEMMA EntryGroups ==
  ASSUME NEW h, ShapedHooks(h), NEW g, NEW x, NEW root, NEW i, EntryAdded(h, g, x, root, i)
  PROVE  LET gs == GroupsIn(h, x.event)
             ns == GroupsIn(g, x.event)
         IN  /\ \A j \in DOMAIN ns : j # i => j \in DOMAIN gs /\ ns[j] = gs[j]
             /\ i \in DOMAIN ns /\ ~ Bare(ns[i])
             /\ root \notin Recognised /\ (\A k \in Range(gs) : ~ HasOwned(k)) => ~ HasOwned(ns[i])
<1> DEFINE gs == GroupsIn(h, x.event)
           ns == GroupsIn(g, x.event)
           c == Ours(x.hook, root)
<1>1. ShapedGroups(gs) /\ JoinedAt(gs, ns, x.matcher, c, i)
  BY ShapedGroupsIn DEF EntryAdded
<1> HIDE DEF gs, ns
<1>2. \E cs : /\ IsSeq(cs) /\ ns[i] = Group(x.matcher, List(Append(cs, c)))
              /\ (\A k \in Range(gs) : ~ HasOwned(k)) => \A j \in DOMAIN cs : ~ Owned(cs[j])
  <2>1. CASE i \in DOMAIN gs
    <3>1. ShapedGroup(gs[i]) /\ gs[i] \in Range(gs)
      BY <1>1, <2>1, Members DEF ShapedGroups
    <3>2. IsSeq(CommandsOf(gs[i]))
      BY <3>1, CommandsFacts
    <3>3. ~ HasOwned(gs[i]) => \A j \in DOMAIN CommandsOf(gs[i]) : ~ Owned(CommandsOf(gs[i])[j])
      BY DEF HasOwned, OursIn
    <3>4. ns[i] = Group(x.matcher, List(Append(CommandsOf(gs[i]), c)))
      BY <1>1, <2>1 DEF JoinedAt
    <3> QED BY <3>1, <3>2, <3>3, <3>4
  <2>2. CASE i \notin DOMAIN gs
    <3>1. ns[i] = Group(x.matcher, List(Append(<<>>, c)))
      BY <1>1, <2>2 DEF JoinedAt
    <3>2. \A j \in DOMAIN <<>> : ~ Owned(<<>>[j])
      OBVIOUS
    <3>3. IsSeq(<<>>)
      BY NoGroups
    <3> QED BY <3>1, <3>2, <3>3
  <2> QED BY <2>1, <2>2
<1>3. PICK cs : /\ IsSeq(cs) /\ ns[i] = Group(x.matcher, List(Append(cs, c)))
                /\ (\A k \in Range(gs) : ~ HasOwned(k)) => \A j \in DOMAIN cs : ~ Owned(cs[j])
  BY <1>2
<1> DEFINE ds == Append(cs, c)
<1>4. /\ IsSeq(ds) /\ ds # <<>>
      /\ \A j \in DOMAIN ds : ds[j] = c \/ (j \in DOMAIN cs /\ ds[j] = cs[j])
  <2>1. cs \in Seq(Range(cs) \cup {c})
    BY <1>3, SeqIn
  <2>2. /\ ds \in Seq(Range(cs) \cup {c}) /\ ds # <<>>
        /\ \A j \in DOMAIN ds : ds[j] = c \/ (j \in DOMAIN cs /\ ds[j] = cs[j])
    BY <2>1
  <2> QED BY <2>2, SeqOfMembers
<1> HIDE DEF ds
<1>5. LET k == Group(x.matcher, List(ds))
      IN  (Bare(k) <=> ds = <<>>) /\ (HasOwned(k) <=> \E j \in DOMAIN ds : Owned(ds[j]))
  BY <1>4, ListGroup
<1>6. ns[i] = Group(x.matcher, List(ds))
  BY <1>3 DEF ds
<1>7. ~ Bare(ns[i])
  BY <1>4, <1>5, <1>6
<1>8. ASSUME root \notin Recognised, \A k \in Range(gs) : ~ HasOwned(k) PROVE ~ HasOwned(ns[i])
  <2>1. ~ Owned(c)
    BY <1>8, OursOwned
  <2>2. \A j \in DOMAIN ds : ~ Owned(ds[j])
    BY <1>3, <1>4, <1>8, <2>1
  <2> QED BY <1>5, <1>6, <2>2
<1>9. i \in DOMAIN ns /\ \A j \in DOMAIN ns : j # i => j \in DOMAIN gs /\ ns[j] = gs[j]
  BY <1>1 DEF JoinedAt
<1> QED BY <1>7, <1>8, <1>9 DEF gs, ns

LEMMA EntryShaped ==
  ASSUME NEW h, ShapedHooks(h), NEW g, NEW x \in Range(Expected), NEW root, NEW i,
         EntryAdded(h, g, x, root, i)
  PROVE  /\ ShapedHooks(g)
         /\ Bareless(h) => Bareless(g)
         /\ Gapless(h) => Gapless(g)
         /\ root \notin Recognised /\ Unowned(h) => Unowned(g)
<1> DEFINE gs == GroupsIn(h, x.event)
           ns == GroupsIn(g, x.event)
<1>1. ShapedGroups(gs) /\ ShapedGroups(ns)
  BY ShapedGroupsIn DEF EntryAdded, JoinedAt
<1>2. g[x.event] = List(ns) /\ x.event \in DOMAIN g
  BY DEF EntryAdded
<1>3. \A s : List(s).form = "list" /\ List(s).of = s
  BY DEF List
<1>4. ShapedHooks(g)
  <2>1. ShapedValue(g[x.event])
    BY <1>1, <1>2, <1>3 DEF ShapedValue
  <2>2. ASSUME NEW e \in DOMAIN g, e # x.event PROVE ShapedValue(g[e])
    BY <2>2, OtherGroups DEF ShapedHooks
  <2> QED BY <2>1, <2>2 DEF ShapedHooks
<1> HIDE DEF gs, ns
<1>5. /\ \A j \in DOMAIN ns : j # i => j \in DOMAIN gs /\ ns[j] = gs[j]
      /\ i \in DOMAIN ns /\ ~ Bare(ns[i])
      /\ root \notin Recognised /\ (\A k \in Range(gs) : ~ HasOwned(k)) => ~ HasOwned(ns[i])
  BY EntryGroups DEF gs, ns
<1>6. ASSUME Bareless(h) PROVE Bareless(g)
  <2> SUFFICES ASSUME NEW y \in Range(Expected), NEW k \in Range(GroupsIn(g, y.event)),
                      k.form = "group", k.matcher = y.matcher, Bare(k)
               PROVE  FALSE
    BY DEF Bareless
  <2>1. k \in Range(GroupsIn(h, y.event))
    <3>1. CASE y.event = x.event
      BY <1>5, <3>1, Members DEF gs, ns
    <3>2. CASE y.event # x.event
      BY <3>2, OtherGroups
    <3> QED BY <3>1, <3>2
  <2> QED BY <1>6, <2>1 DEF Bareless
<1>7. ASSUME Gapless(h) PROVE Gapless(g)
  <2> SUFFICES ASSUME NEW y \in Range(Expected), y.event \in DOMAIN g, g[y.event] = List(<<>>)
               PROVE  FALSE
    BY <1>6, <1>7 DEF Gapless
  <2>1. CASE y.event = x.event
    <3>1. ns = <<>>
      BY <1>2, <1>3, <2>1
    <3> QED BY <1>5, <3>1
  <2>2. CASE y.event # x.event
    BY <1>7, <2>2, OtherGroups DEF Gapless
  <2> QED BY <2>1, <2>2
<1>8. ASSUME root \notin Recognised, Unowned(h) PROVE Unowned(g)
  <2>1. \A k \in Range(gs) : ~ HasOwned(k)
    <3>1. Range(<<>>) = {}
      BY DEF Range
    <3> QED BY <1>8, <3>1 DEF Unowned, GroupsIn, gs
  <2>2. \A k \in Range(ns) : ~ HasOwned(k)
    BY <1>5, <1>8, <2>1, Members
  <2> SUFFICES ASSUME NEW e \in DOMAIN g, g[e].form = "list", NEW k \in Range(g[e].of)
               PROVE  ~ HasOwned(k)
    BY DEF Unowned
  <2>3. CASE e = x.event
    BY <1>2, <1>3, <2>2, <2>3
  <2>4. CASE e # x.event
    BY <1>8, <2>4, OtherGroups DEF Unowned
  <2> QED BY <2>3, <2>4
<1> QED BY <1>4, <1>6, <1>7, <1>8

\* What an entry leaves alone.
LEMMA EntryKeeps ==
  ASSUME NEW h, ShapedHooks(h), NEW g, NEW x \in Range(Expected), NEW root \in Recognised, NEW i,
         EntryAdded(h, g, x, root, i)
  PROVE  /\ \A e, M : e # x.event \/ x.matcher \in M \/ Gapless(h) => SameAt(g, h, e, M)
         /\ Bareless(h) => \A e : Kept(GroupsIn(g, e)) = Kept(GroupsIn(h, e))
<1> DEFINE gs == GroupsIn(h, x.event)
           ns == GroupsIn(g, x.event)
           c == Ours(x.hook, root)
<1>1. ShapedGroups(gs) /\ JoinedAt(gs, ns, x.matcher, c, i) /\ Owned(c)
  BY ShapedGroupsIn, OursOwned DEF EntryAdded
<1>2. /\ g[x.event] = List(ns) /\ x.event \in DOMAIN g /\ DOMAIN g = DOMAIN h \cup {x.event}
      /\ x.event \in DOMAIN h => h[x.event] = List(gs)
      /\ x.event \notin DOMAIN h => gs = <<>>
  BY DEF EntryAdded, GroupsIn
<1>3. \A s : List(s).form = "list" /\ List(s).of = s
  BY DEF List
<1> HIDE DEF c
<1>4. ns # <<>>
  <2>1. i \in DOMAIN ns
    BY EntryGroups
  <2> HIDE DEF ns
  <2> QED BY <2>1
<1>5. Bareless(h) => (i \in DOMAIN gs => ~ Bare(gs[i]))
  <2>1. i \in DOMAIN gs => gs[i].form = "group" /\ gs[i].matcher = x.matcher
    BY <1>1 DEF JoinedAt
  <2> QED BY <2>1, Members DEF Bareless
<1>6. ASSUME NEW M, x.matcher \in M \/ Gapless(h) PROVE SameAt(g, h, x.event, M)
  <2>1. ForeignIn(g, x.event, M) = ForeignGroups(ns, M)
    BY <1>2, <1>3 DEF ForeignIn
  <2>2. ForeignIn(h, x.event, M) = ForeignGroups(gs, M)
    <3>1. CASE x.event \in DOMAIN h
      BY <1>2, <1>3, <3>1 DEF ForeignIn
    <3>2. CASE x.event \notin DOMAIN h
      BY <1>2, <3>2, NoGroups DEF ForeignIn
    <3> QED BY <3>1, <3>2
  <2>3. ForeignGroups(ns, M) = ForeignGroups(gs, M)
    <3>1. x.matcher \in M \/ (i \in DOMAIN gs => ~ Bare(gs[i]))
      BY <1>5, <1>6 DEF Gapless
    <3> HIDE DEF gs, ns
    <3> QED BY <1>1, <3>1, JoinedKeeps
  <2>4. gs = <<>> => ForeignGroups(gs, M) = <<>>
    BY NoGroups
  <2>5. gs = <<>> /\ x.event \in DOMAIN h => M # {}
    BY <1>2, <1>6 DEF Gapless
  <2> QED BY <1>2, <1>4, <2>1, <2>2, <2>3, <2>4, <2>5 DEF SameAt, Present
<1>7. ASSUME NEW e, NEW M, e # x.event \/ x.matcher \in M \/ Gapless(h) PROVE SameAt(g, h, e, M)
  BY <1>6, <1>7, OtherGroups
<1>8. ASSUME Bareless(h), NEW e PROVE Kept(GroupsIn(g, e)) = Kept(GroupsIn(h, e))
  <2>1. Kept(ns) = Kept(gs)
    <3> HIDE DEF gs, ns
    <3> QED BY <1>1, <1>5, <1>8, JoinedKeeps
  <2> QED BY <2>1, OtherGroups
<1> QED BY <1>7, <1>8
-----------------------------------------------------------------------------
\* Where commands of ours are, and which entry one of them is.
Placed(h, e, i, j) == i \in DOMAIN GroupsIn(h, e) /\ j \in OursIn(GroupsIn(h, e)[i])

Stands(h, e, i, j, x, root) ==
  /\ Placed(h, e, i, j)
  /\ e = x.event /\ GroupsIn(h, e)[i].matcher = x.matcher
  /\ CommandsOf(GroupsIn(h, e)[i])[j] = Ours(x.hook, root)

\* The commands of ours are the first n entries, each once.
Carries(h, root, n) ==
  /\ \A e, i, j : Placed(h, e, i, j) => \E k \in 1 .. n : Stands(h, e, i, j, Expected[k], root)
  /\ \A k \in 1 .. n : \E e, i, j : Stands(h, e, i, j, Expected[k], root)
  /\ \A k \in 1 .. n : \A e, i, j, f, i2, j2 :
       Stands(h, e, i, j, Expected[k], root) /\ Stands(h, f, i2, j2, Expected[k], root)
       => i = i2 /\ j = j2

LEMMA NewPlace ==
  ASSUME NEW h, ShapedHooks(h), NEW g, NEW x, NEW root \in Recognised, NEW i,
         EntryAdded(h, g, x, root, i)
  PROVE  \E j : /\ Stands(g, x.event, i, j, x, root)
                /\ ~ Placed(h, x.event, i, j)
                /\ \A e, p, q : Placed(g, e, p, q) <=>
                      Placed(h, e, p, q) \/ (e = x.event /\ p = i /\ q = j)
                /\ \A y, e, p, q : Placed(h, e, p, q) =>
                      (Stands(g, e, p, q, y, root) <=> Stands(h, e, p, q, y, root))
<1> DEFINE gs == GroupsIn(h, x.event)
           ns == GroupsIn(g, x.event)
           c == Ours(x.hook, root)
           cs == IF i \in DOMAIN gs THEN CommandsOf(gs[i]) ELSE <<>>
           ds == Append(cs, c)
           j == Len(cs) + 1
<1>1. ShapedGroups(gs) /\ JoinedAt(gs, ns, x.matcher, c, i) /\ Owned(c)
  BY ShapedGroupsIn, OursOwned DEF EntryAdded
<1> HIDE DEF gs, ns, c
<1>2. IsSeq(cs)
  <2>1. CASE i \in DOMAIN gs
    <3>1. ShapedGroup(gs[i])
      BY <1>1, <2>1, Members DEF ShapedGroups
    <3> QED BY <2>1, <3>1, CommandsFacts
  <2>2. CASE i \notin DOMAIN gs
    BY <2>2, NoGroups
  <2> QED BY <2>1, <2>2
<1>3. /\ ns[i] = Group(x.matcher, List(ds)) /\ i \in DOMAIN ns
      /\ DOMAIN ns = DOMAIN gs \cup {i} /\ \A p \in DOMAIN gs : p # i => ns[p] = gs[p]
      /\ i \in DOMAIN gs => gs[i].matcher = x.matcher /\ CommandsOf(gs[i]) = cs
  <2>1. CASE i \in DOMAIN gs
    BY <1>1, <2>1 DEF JoinedAt
  <2>2. CASE i \notin DOMAIN gs
    BY <1>1, <2>2 DEF JoinedAt
  <2> QED BY <2>1, <2>2
<1> HIDE DEF cs
<1>4. /\ IsSeq(ds) /\ Len(cs) \in Nat /\ DOMAIN cs = 1 .. Len(cs) /\ DOMAIN ds = DOMAIN cs \cup {j}
      /\ j \notin DOMAIN cs /\ ds[j] = c /\ \A q \in DOMAIN cs : ds[q] = cs[q]
  <2>1. cs \in Seq(Range(cs) \cup {c})
    BY <1>2, SeqIn
  <2>2. /\ ds \in Seq(Range(cs) \cup {c}) /\ Len(cs) \in Nat /\ DOMAIN cs = 1 .. Len(cs)
        /\ DOMAIN ds = 1 .. Len(cs) + 1 /\ ds[j] = c /\ \A q \in DOMAIN cs : ds[q] = cs[q]
    BY <2>1
  <2>3. DOMAIN ds = DOMAIN cs \cup {j} /\ j \notin DOMAIN cs
    BY <2>2
  <2> HIDE DEF ds, j
  <2> QED BY <2>2, <2>3, SeqOfMembers
<1> HIDE DEF ds, j
<1>5. CommandsOf(ns[i]) = ds /\ ns[i].matcher = x.matcher
  BY <1>3, <1>4, ListGroup
<1>6. \A q : q \in OursIn(ns[i]) <=> (q \in DOMAIN cs /\ Owned(cs[q])) \/ q = j
  BY <1>1, <1>4, <1>5 DEF OursIn
<1>7. \A q : Placed(h, x.event, i, q) <=> i \in DOMAIN gs /\ q \in DOMAIN cs /\ Owned(cs[q])
  BY <1>3 DEF Placed, OursIn, gs
<1>8. cs # <<>> => i \in DOMAIN gs
  BY DEF cs
<1>9. \A q : q \in DOMAIN cs => i \in DOMAIN gs
  BY <1>4, <1>8
<1>10. ASSUME NEW e, NEW p, NEW q
       PROVE  Placed(g, e, p, q) <=> Placed(h, e, p, q) \/ (e = x.event /\ p = i /\ q = j)
  <2>1. CASE e # x.event
    BY <2>1, OtherGroups DEF Placed
  <2>2. CASE e = x.event /\ p # i
    BY <1>3, <2>2 DEF Placed, gs, ns
  <2>3. CASE e = x.event /\ p = i
    <3>1. Placed(g, e, p, q) <=> q \in OursIn(ns[i])
      BY <1>3, <2>3 DEF Placed, ns
    <3> QED BY <1>6, <1>7, <1>9, <2>3, <3>1
  <2> QED BY <2>1, <2>2, <2>3
<1>11. ASSUME NEW y, NEW e, NEW p, NEW q, Placed(h, e, p, q)
       PROVE  Stands(g, e, p, q, y, root) <=> Stands(h, e, p, q, y, root)
  <2>0. Placed(g, e, p, q)
    BY <1>10, <1>11
  <2>1. CASE e # x.event
    BY <1>11, <2>0, <2>1, OtherGroups DEF Stands
  <2>2. CASE e = x.event /\ p # i
    <3>1. GroupsIn(g, e)[p] = GroupsIn(h, e)[p]
      BY <1>3, <1>11, <2>2 DEF Placed, gs, ns
    <3> QED BY <1>11, <2>0, <3>1 DEF Stands
  <2>3. CASE e = x.event /\ p = i
    <3>1. i \in DOMAIN gs /\ q \in DOMAIN cs
      BY <1>7, <1>11, <2>3
    <3>2. /\ GroupsIn(g, e)[p].matcher = GroupsIn(h, e)[p].matcher
          /\ CommandsOf(GroupsIn(g, e)[p])[q] = CommandsOf(GroupsIn(h, e)[p])[q]
      BY <1>3, <1>4, <1>5, <2>3, <3>1 DEF gs, ns
    <3> QED BY <1>11, <2>0, <3>2 DEF Stands
  <2> QED BY <2>1, <2>2, <2>3
<1>12. Stands(g, x.event, i, j, x, root)
  <2>1. Placed(g, x.event, i, j)
    BY <1>10
  <2>2. GroupsIn(g, x.event)[i].matcher = x.matcher /\ CommandsOf(GroupsIn(g, x.event)[i])[j] = c
    BY <1>4, <1>5 DEF ns
  <2> QED BY <2>1, <2>2 DEF Stands, c
<1>13. ~ Placed(h, x.event, i, j)
  BY <1>4, <1>7
<1> QED BY <1>10, <1>11, <1>12, <1>13

LEMMA EntryCarried ==
  ASSUME NEW h, ShapedHooks(h), NEW root \in Recognised, NEW n \in Nat, n + 1 \in DOMAIN Expected,
         Carries(h, root, n), NEW g, NEW i, EntryAdded(h, g, Expected[n + 1], root, i)
  PROVE  Carries(g, root, n + 1)
<1> DEFINE x == Expected[n + 1]
<1>1. PICK j : /\ Stands(g, x.event, i, j, x, root)
               /\ ~ Placed(h, x.event, i, j)
               /\ \A e, p, q : Placed(g, e, p, q) <=>
                     Placed(h, e, p, q) \/ (e = x.event /\ p = i /\ q = j)
               /\ \A y, e, p, q : Placed(h, e, p, q) =>
                     (Stands(g, e, p, q, y, root) <=> Stands(h, e, p, q, y, root))
  BY NewPlace
<1>2. n + 1 \in 1 .. n + 1 /\ 1 .. n + 1 = (1 .. n) \cup {n + 1} /\ n + 1 \notin 1 .. n
  OBVIOUS
<1>3. 1 .. n \subseteq DOMAIN Expected
  BY ExpectedAssumption
<1>4. ASSUME NEW k \in 1 .. n, NEW e, NEW p, NEW q, Stands(g, e, p, q, Expected[k], root)
      PROVE  Stands(h, e, p, q, Expected[k], root)
  <2>1. Placed(g, e, p, q)
    BY <1>4 DEF Stands
  <2>2. ~ (e = x.event /\ p = i /\ q = j)
    <3> SUFFICES ASSUME e = x.event, p = i, q = j PROVE FALSE
      OBVIOUS
    <3>1. Expected[k].event = x.event /\ Expected[k].matcher = x.matcher
      BY <1>1, <1>4 DEF Stands
    <3>2. k = n + 1
      BY <1>3, <3>1, ExpectedAssumption
    <3> QED BY <1>2, <3>2
  <2> HIDE DEF x
  <2> QED BY <1>1, <1>4, <2>1, <2>2
<1>5. ASSUME NEW e, NEW p, NEW q, Stands(g, e, p, q, x, root)
      PROVE  e = x.event /\ p = i /\ q = j
  <2> SUFFICES ASSUME ~ (e = x.event /\ p = i /\ q = j) PROVE FALSE
    OBVIOUS
  <2>1. Placed(h, e, p, q)
    BY <1>1, <1>5 DEF Stands
  <2>2. Stands(h, e, p, q, x, root)
    BY <1>1, <1>5, <2>1
  <2>3. PICK k \in 1 .. n : Stands(h, e, p, q, Expected[k], root)
    BY <2>1 DEF Carries
  <2>4. Expected[k].event = x.event /\ Expected[k].matcher = x.matcher
    BY <2>2, <2>3 DEF Stands
  <2>5. k = n + 1
    BY <1>3, <2>4, ExpectedAssumption
  <2> QED BY <1>2, <2>5
<1> HIDE DEF x
<1>6. ASSUME NEW e, NEW p, NEW q, Placed(g, e, p, q)
      PROVE  \E k \in 1 .. n + 1 : Stands(g, e, p, q, Expected[k], root)
  <2>1. CASE Placed(h, e, p, q)
    <3>1. PICK k \in 1 .. n : Stands(h, e, p, q, Expected[k], root)
      BY <2>1 DEF Carries
    <3> QED BY <1>1, <1>2, <2>1, <3>1
  <2>2. CASE e = x.event /\ p = i /\ q = j
    BY <1>1, <1>2, <2>2 DEF x
  <2> QED BY <1>1, <1>6, <2>1, <2>2
<1>7. ASSUME NEW k \in 1 .. n + 1
      PROVE  \E e, p, q : Stands(g, e, p, q, Expected[k], root)
  <2>1. CASE k \in 1 .. n
    <3>1. PICK e, p, q : Stands(h, e, p, q, Expected[k], root)
      BY <2>1 DEF Carries
    <3>2. Placed(h, e, p, q)
      BY <3>1 DEF Stands
    <3> QED BY <1>1, <3>1, <3>2
  <2>2. CASE k = n + 1
    BY <1>1, <2>2 DEF x
  <2> QED BY <1>2, <2>1, <2>2
<1>8. ASSUME NEW k \in 1 .. n + 1, NEW e, NEW p, NEW q, NEW f, NEW p2, NEW q2,
             Stands(g, e, p, q, Expected[k], root), Stands(g, f, p2, q2, Expected[k], root)
      PROVE  p = p2 /\ q = q2
  <2>1. CASE k \in 1 .. n
    <3>1. Stands(h, e, p, q, Expected[k], root) /\ Stands(h, f, p2, q2, Expected[k], root)
      BY <1>4, <1>8, <2>1
    <3> QED BY <2>1, <3>1 DEF Carries
  <2>2. CASE k = n + 1
    BY <1>5, <1>8, <2>2 DEF x
  <2> QED BY <1>2, <2>1, <2>2
<1> QED BY <1>6, <1>7, <1>8 DEF Carries
-----------------------------------------------------------------------------
\* The walk of _add_owned over the first n entries.
Adds(f, h, root, n) ==
  f = [k \in 0 .. n |-> IF k = 0 THEN Events(h)
                        ELSE IF f[k - 1] = Refused THEN Refused
                        ELSE AddEntry(f[k - 1].of, Expected[k], root)]

LEMMA AddsExist ==
  ASSUME NEW h, NEW root, NEW n \in Nat
  PROVE  \E f : Adds(f, h, root, n)
<1> DEFINE Turn(v, k) == IF v = Refused THEN Refused ELSE AddEntry(v.of, Expected[k], root)
           T == {k \in Nat : \E f : Adds(f, h, root, k)}
<1>1. \A f, k : Adds(f, h, root, k) <=>
                  f = [j \in 0 .. k |-> IF j = 0 THEN Events(h) ELSE Turn(f[j - 1], j)]
  BY DEF Adds
<1> HIDE DEF Turn
<1>2. 0 \in T
  <2> DEFINE f == [j \in 0 .. 0 |-> Events(h)]
  <2>1. f = [j \in 0 .. 0 |-> IF j = 0 THEN Events(h) ELSE Turn(f[j - 1], j)]
    OBVIOUS
  <2> QED BY <1>1, <2>1
<1>3. ASSUME NEW k \in Nat, k \in T PROVE k + 1 \in T
  <2>1. PICK f : f = [j \in 0 .. k |-> IF j = 0 THEN Events(h) ELSE Turn(f[j - 1], j)]
    BY <1>1, <1>3
  <2> DEFINE g == [j \in 0 .. k + 1 |-> IF j <= k THEN f[j] ELSE Turn(f[k], j)]
  <2>2. ASSUME NEW j \in 0 .. k + 1
        PROVE  g[j] = IF j = 0 THEN Events(h) ELSE Turn(g[j - 1], j)
    <3>1. CASE j <= k
      <4>1. j \in 0 .. k /\ g[j] = f[j] /\ (j # 0 => j - 1 \in 0 .. k /\ g[j - 1] = f[j - 1])
        BY <3>1
      <4>2. f[j] = IF j = 0 THEN Events(h) ELSE Turn(f[j - 1], j)
        BY <2>1, <4>1, Zenon
      <4> HIDE DEF g
      <4> QED BY <4>1, <4>2
    <3>2. CASE j = k + 1
      <4>1. j # 0 /\ k \in 0 .. k + 1 /\ k <= k /\ j - 1 = k /\ ~ (j <= k)
        BY <3>2
      <4>2. g[j - 1] = f[k] /\ g[j] = Turn(f[k], j)
        BY <4>1
      <4> HIDE DEF g
      <4> QED BY <4>1, <4>2
    <3> QED BY <3>1, <3>2
  <2>3. g = [j \in 0 .. k + 1 |-> g[j]]
    OBVIOUS
  <2> HIDE DEF g
  <2>4. g = [j \in 0 .. k + 1 |-> IF j = 0 THEN Events(h) ELSE Turn(g[j - 1], j)]
    BY <2>2, <2>3, Zenon
  <2>5. Adds(g, h, root, k + 1)
    BY <2>4, Zenon DEF Adds, Turn
  <2> QED BY <2>5
<1> HIDE DEF T
<1> QED BY <1>2, <1>3, SetInduction DEF T

LEMMA AddOwnedIs ==
  ASSUME NEW h, NEW root
  PROVE  /\ Len(Expected) \in Nat /\ DOMAIN Expected = 1 .. Len(Expected)
         /\ \E f : Adds(f, h, root, Len(Expected)) /\ AddOwned(h, root) = f[Len(Expected)]
<1> DEFINE N == Len(Expected)
           f == CHOOSE g : Adds(g, h, root, N)
<1>1. N \in Nat /\ DOMAIN Expected = 1 .. N
  BY ExpectedAssumption
<1>2. AddOwned(h, root) = f[N]
  BY DEF AddOwned, Adds
<1> HIDE DEF N
<1>3. \E g : Adds(g, h, root, N)
  BY <1>1, AddsExist
<1>4. Adds(f, h, root, N)
  BY <1>3
<1> QED BY <1>1, <1>2, <1>4 DEF N

LEMMA AddsTurns ==
  ASSUME NEW f, NEW h, NEW root, NEW n \in Nat, Adds(f, h, root, n)
  PROVE  /\ f[0] = Events(h)
         /\ \A k \in 0 .. n : k + 1 \in 0 .. n =>
              f[k + 1] = IF f[k] = Refused THEN Refused ELSE AddEntry(f[k].of, Expected[k + 1], root)
<1>1. 0 \in 0 .. n
  OBVIOUS
<1>2. f[0] = Events(h)
  BY <1>1 DEF Adds
<1>3. ASSUME NEW k \in 0 .. n, k + 1 \in 0 .. n
      PROVE  f[k + 1] = IF f[k] = Refused THEN Refused
                        ELSE AddEntry(f[k].of, Expected[k + 1], root)
  <2>1. k + 1 # 0 /\ (k + 1) - 1 = k
    OBVIOUS
  <2> QED BY <1>3, <2>1 DEF Adds
<1> QED BY <1>2, <1>3

\* Where the walk from h has got to with n entries.
ExpectedEvents == {x.event : x \in Range(Expected)}

Reached(h, g, root, n) ==
  /\ ShapedHooks(g) /\ IsFun(g)
  /\ root \in Recognised =>
       /\ Carries(g, root, n)
       /\ \A e : SameAt(g, h, e, ExpectedMatchers(e))
       /\ Gapless(h) => Gapless(g) /\ \A e : SameAt(g, h, e, {})
       /\ Bareless(h) => Bareless(g) /\ \A e : Kept(GroupsIn(g, e)) = Kept(GroupsIn(h, e))
  /\ root \notin Recognised => Unowned(g)
  /\ DOMAIN h \subseteq DOMAIN g
  /\ \A k \in 1 .. n : Expected[k].event \in DOMAIN g
  /\ \A e \in DOMAIN g :
       \/ e \in DOMAIN h /\ g[e] = h[e]
       \/ /\ e \in ExpectedEvents /\ g[e] = List(GroupsIn(g, e))
          /\ e \in DOMAIN h => h[e] = List(GroupsIn(h, e))

LEMMA NothingPlaced ==
  ASSUME NEW h, Unowned(h)
  PROVE  \A e, i, j : ~ Placed(h, e, i, j)
<1> SUFFICES ASSUME NEW e, NEW i, NEW j, Placed(h, e, i, j) PROVE FALSE
  OBVIOUS
<1>1. i \in DOMAIN GroupsIn(h, e) /\ HasOwned(GroupsIn(h, e)[i])
  BY DEF Placed, HasOwned
<1>2. GroupsIn(h, e)[i] \in Range(GroupsIn(h, e))
  BY <1>1, Members
<1>3. e \in DOMAIN h /\ h[e].form = "list" /\ GroupsIn(h, e) = h[e].of
  BY <1>1 DEF GroupsIn
<1> QED BY <1>1, <1>2, <1>3 DEF Unowned

LEMMA ReachedStart ==
  ASSUME NEW h, ShapedHooks(h), Unowned(h), IsFun(h), NEW root
  PROVE  Reached(h, h, root, 0)
<1>1. \A e, i, j : ~ Placed(h, e, i, j)
  BY NothingPlaced
<1>2. 1 .. 0 = {}
  OBVIOUS
<1>3. Carries(h, root, 0)
  BY <1>1, <1>2 DEF Carries
<1>4. \A e, M : SameAt(h, h, e, M)
  BY DEF SameAt
<1> QED BY <1>2, <1>3, <1>4 DEF Reached

LEMMA ReachedMore ==
  ASSUME NEW h, NEW g, NEW root, NEW n \in Nat, n + 1 \in DOMAIN Expected,
         Reached(h, g, root, n), AddEntry(g, Expected[n + 1], root) # Refused
  PROVE  \E k : AddEntry(g, Expected[n + 1], root) = Events(k) /\ Reached(h, k, root, n + 1)
<1> DEFINE x == Expected[n + 1]
<1>1. ShapedHooks(g) /\ x \in Range(Expected)
  BY Members DEF Reached
<1>2. PICK k, i : AddEntry(g, x, root) = Events(k) /\ IsFun(k) /\ EntryAdded(g, k, x, root, i)
  BY <1>1, AddEntryFacts
<1>3. /\ ShapedHooks(k)
      /\ Bareless(g) => Bareless(k)
      /\ Gapless(g) => Gapless(k)
      /\ root \notin Recognised /\ Unowned(g) => Unowned(k)
  BY <1>1, <1>2, EntryShaped
<1>4. ASSUME root \in Recognised
      PROVE  /\ Carries(k, root, n + 1)
             /\ \A e : SameAt(k, h, e, ExpectedMatchers(e))
             /\ Gapless(h) => Gapless(k) /\ \A e : SameAt(k, h, e, {})
             /\ Bareless(h) => Bareless(k) /\ \A e : Kept(GroupsIn(k, e)) = Kept(GroupsIn(h, e))
  <2>1. /\ Carries(g, root, n)
        /\ \A e : SameAt(g, h, e, ExpectedMatchers(e))
        /\ Gapless(h) => Gapless(g) /\ \A e : SameAt(g, h, e, {})
        /\ Bareless(h) => Bareless(g) /\ \A e : Kept(GroupsIn(g, e)) = Kept(GroupsIn(h, e))
    BY <1>4 DEF Reached
  <2>2. Carries(k, root, n + 1)
    BY <1>1, <1>2, <1>4, <2>1, EntryCarried
  <2>3. x.matcher \in ExpectedMatchers(x.event)
    BY <1>1 DEF ExpectedMatchers
  <2> HIDE DEF x
  <2>4. /\ \A e, M : e # x.event \/ x.matcher \in M \/ Gapless(g) => SameAt(k, g, e, M)
        /\ Bareless(g) => \A e : Kept(GroupsIn(k, e)) = Kept(GroupsIn(g, e))
    BY <1>1, <1>2, <1>4, EntryKeeps
  <2>5. \A e, M : SameAt(k, g, e, M) /\ SameAt(g, h, e, M) => SameAt(k, h, e, M)
    BY DEF SameAt
  <2>6. ASSUME NEW e PROVE SameAt(k, h, e, ExpectedMatchers(e))
    <3>1. SameAt(k, g, e, ExpectedMatchers(e))
      BY <2>3, <2>4
    <3> QED BY <2>1, <2>5, <3>1
  <2>7. ASSUME Gapless(h) PROVE Gapless(k) /\ \A e : SameAt(k, h, e, {})
    BY <1>3, <2>1, <2>4, <2>5, <2>7
  <2>8. ASSUME Bareless(h)
        PROVE  Bareless(k) /\ \A e : Kept(GroupsIn(k, e)) = Kept(GroupsIn(h, e))
    BY <1>3, <2>1, <2>4, <2>8
  <2> QED BY <2>2, <2>6, <2>7, <2>8
<1>5. root \notin Recognised => Unowned(k)
  BY <1>3 DEF Reached
<1>6. 1 .. n + 1 = (1 .. n) \cup {n + 1}
  OBVIOUS
<1>7. /\ DOMAIN k = DOMAIN g \cup {x.event} /\ k[x.event] = List(GroupsIn(k, x.event))
      /\ \A e \in DOMAIN g \ {x.event} : k[e] = g[e] /\ GroupsIn(k, e) = GroupsIn(g, e)
      /\ x.event \in DOMAIN g => g[x.event] = List(GroupsIn(g, x.event))
  <2> HIDE DEF x
  <2>1. \A e : e # x.event => GroupsIn(k, e) = GroupsIn(g, e)
    BY <1>2, OtherGroups
  <2> QED BY <1>2, <2>1 DEF EntryAdded
<1>8. x.event \in ExpectedEvents
  BY <1>1 DEF ExpectedEvents
<1> HIDE DEF x
<1>9. ASSUME NEW e \in DOMAIN k
      PROVE  \/ e \in DOMAIN h /\ k[e] = h[e]
             \/ /\ e \in ExpectedEvents /\ k[e] = List(GroupsIn(k, e))
                /\ e \in DOMAIN h => h[e] = List(GroupsIn(h, e))
  <2>1. CASE e # x.event
    BY <1>7, <2>1 DEF Reached
  <2>2. CASE e = x.event
    <3>1. ASSUME e \in DOMAIN h PROVE h[e] = List(GroupsIn(h, e))
      <4>1. e \in DOMAIN g /\ g[e] = List(GroupsIn(g, e))
        BY <1>7, <2>2, <3>1 DEF Reached
      <4>2. CASE g[e] = h[e]
        BY <3>1, <4>1, <4>2 DEF GroupsIn, List
      <4>3. CASE g[e] # h[e]
        BY <3>1, <4>1, <4>3 DEF Reached
      <4> QED BY <4>2, <4>3
    <3> QED BY <1>7, <1>8, <2>2, <3>1
  <2> QED BY <2>1, <2>2
<1>10. DOMAIN h \subseteq DOMAIN k /\ \A j \in 1 .. n + 1 : Expected[j].event \in DOMAIN k
  BY <1>6, <1>7 DEF Reached, x
<1>11. Reached(h, k, root, n + 1)
  BY <1>2, <1>3, <1>4, <1>5, <1>9, <1>10 DEF Reached
<1> QED BY <1>2, <1>11 DEF x

\* _add_owned adds every entry once, or refuses.
LEMMA AddOwnedFacts ==
  ASSUME NEW h, ShapedHooks(h), Unowned(h), IsFun(h), NEW root,
         AddOwned(h, root) # Refused
  PROVE  \E g : AddOwned(h, root) = Events(g) /\ Reached(h, g, root, Len(Expected))
<1> DEFINE N == Len(Expected)
<1>1. N \in Nat /\ DOMAIN Expected = 1 .. N
  BY AddOwnedIs
<1>2. PICK f : Adds(f, h, root, N) /\ AddOwned(h, root) = f[N]
  BY AddOwnedIs
<1> DEFINE T == {k \in Nat : k \in 0 .. N /\ f[k] # Refused =>
                               \E g : f[k] = Events(g) /\ Reached(h, g, root, k)}
<1> HIDE DEF N
<1>3. 0 \in T
  BY <1>1, <1>2, AddsTurns, ReachedStart
<1>4. ASSUME NEW k \in Nat, k \in T PROVE k + 1 \in T
  <2> SUFFICES ASSUME k + 1 \in 0 .. N, f[k + 1] # Refused
               PROVE  \E g : f[k + 1] = Events(g) /\ Reached(h, g, root, k + 1)
    OBVIOUS
  <2>1. k \in 0 .. N /\ k + 1 \in DOMAIN Expected
    BY <1>1
  <2>2. f[k + 1] = IF f[k] = Refused THEN Refused ELSE AddEntry(f[k].of, Expected[k + 1], root)
    BY <1>1, <1>2, <2>1, AddsTurns
  <2>3. PICK g : f[k] = Events(g) /\ Reached(h, g, root, k)
    BY <1>4, <2>1, <2>2
  <2>4. f[k].of = g /\ f[k] # Refused
    BY <2>2, <2>3 DEF Events
  <2> QED BY <2>1, <2>2, <2>3, <2>4, ReachedMore
<1> HIDE DEF T
<1>5. N \in T
  BY <1>1, <1>3, <1>4, SetInduction
<1>6. N \in 0 .. N
  BY <1>1
<1> QED BY <1>2, <1>5, <1>6 DEF T, N
-----------------------------------------------------------------------------
\* Hooks that an install cannot tell apart: an event without groups is as good
\* as none, if an entry is expected there.
SameHooks(h, g) ==
  /\ \A e : e \in ExpectedEvents \/ (e \in DOMAIN h <=> e \in DOMAIN g)
  /\ \A e : ValueAt(h, e) = ValueAt(g, e)

LEMMA SameEntry ==
  ASSUME NEW h, NEW g, SameHooks(h, g), NEW x \in Range(Expected), NEW root,
         AddEntry(h, x, root) # Refused
  PROVE  \E h2, g2 : /\ AddEntry(h, x, root) = Events(h2) /\ AddEntry(g, x, root) = Events(g2)
                     /\ IsFun(g2) /\ DOMAIN g2 = DOMAIN g \cup {x.event}
                     /\ SameHooks(h2, g2)
<1> DEFINE v == ValueAt(h, x.event)
           l == List(Joined(v.of, x.matcher, Ours(x.hook, root)))
           h2 == [e \in DOMAIN h \cup {x.event} |-> IF e = x.event THEN l ELSE h[e]]
           g2 == [e \in DOMAIN g \cup {x.event} |-> IF e = x.event THEN l ELSE g[e]]
<1>1. ValueAt(g, x.event) = v
  BY DEF SameHooks
<1>2. ~ Refuses(v, x.matcher)
  BY DEF AddEntry
<1>3. AddEntry(h, x, root) = Events(h2)
  BY <1>2 DEF AddEntry
<1>4. AddEntry(g, x, root) = Events(g2)
  BY <1>1, <1>2 DEF AddEntry
<1> HIDE DEF v, l
<1>5. IsFun(g2)
  BY DEF IsFun
<1>6. x.event \in ExpectedEvents
  BY DEF ExpectedEvents
<1>7. /\ DOMAIN h2 = DOMAIN h \cup {x.event} /\ DOMAIN g2 = DOMAIN g \cup {x.event}
      /\ h2[x.event] = l /\ g2[x.event] = l
      /\ \A e \in DOMAIN h \ {x.event} : h2[e] = h[e]
      /\ \A e \in DOMAIN g \ {x.event} : g2[e] = g[e]
  OBVIOUS
<1> HIDE DEF h2, g2
<1>8. ASSUME NEW e PROVE ValueAt(h2, e) = ValueAt(g2, e)
  <2>1. CASE e = x.event
    BY <1>7, <2>1 DEF ValueAt
  <2>2. CASE e # x.event
    <3>1. ValueAt(h2, e) = ValueAt(h, e) /\ ValueAt(g2, e) = ValueAt(g, e)
      BY <1>7, <2>2 DEF ValueAt
    <3> QED BY <3>1 DEF SameHooks
  <2> QED BY <2>1, <2>2
<1>9. SameHooks(h2, g2)
  BY <1>6, <1>7, <1>8 DEF SameHooks
<1> QED BY <1>3, <1>4, <1>5, <1>7, <1>9

\* Two installs from the same hooks end with the same.
LEMMA SameAdded ==
  ASSUME NEW h, NEW g, SameHooks(h, g), IsFun(g), NEW root,
         NEW h2, AddOwned(h, root) = Events(h2), IsFun(h2),
         ExpectedEvents \subseteq DOMAIN h2
  PROVE  AddOwned(g, root) = Events(h2)
<1> DEFINE N == Len(Expected)
<1>1. N \in Nat /\ DOMAIN Expected = 1 .. N
  BY AddOwnedIs
<1>2. PICK p : Adds(p, h, root, N) /\ AddOwned(h, root) = p[N]
  BY AddOwnedIs
<1>3. PICK q : Adds(q, g, root, N) /\ AddOwned(g, root) = q[N]
  BY AddOwnedIs
<1> DEFINE T == {k \in Nat : k \in 0 .. N /\ p[k] # Refused =>
                   \E a, b : /\ p[k] = Events(a) /\ q[k] = Events(b)
                             /\ IsFun(b) /\ SameHooks(a, b)
                             /\ \A j \in 1 .. k : Expected[j].event \in DOMAIN b}
<1> HIDE DEF N
<1>4. 0 \in T
  <2>1. p[0] = Events(h) /\ q[0] = Events(g)
    BY <1>1, <1>2, <1>3, AddsTurns
  <2>2. 1 .. 0 = {}
    OBVIOUS
  <2> QED BY <2>1, <2>2
<1>5. ASSUME NEW k \in Nat, k \in T PROVE k + 1 \in T
  <2> SUFFICES ASSUME k + 1 \in 0 .. N, p[k + 1] # Refused
               PROVE  \E a, b : /\ p[k + 1] = Events(a) /\ q[k + 1] = Events(b)
                                /\ IsFun(b) /\ SameHooks(a, b)
                                /\ \A j \in 1 .. k + 1 : Expected[j].event \in DOMAIN b
    OBVIOUS
  <2>1. k \in 0 .. N /\ Expected[k + 1] \in Range(Expected)
    BY <1>1, Members
  <2>2. p[k + 1] = IF p[k] = Refused THEN Refused ELSE AddEntry(p[k].of, Expected[k + 1], root)
    BY <1>1, <1>2, <2>1, AddsTurns
  <2>3. q[k + 1] = IF q[k] = Refused THEN Refused ELSE AddEntry(q[k].of, Expected[k + 1], root)
    BY <1>1, <1>3, <2>1, AddsTurns
  <2>4. PICK a, b : /\ p[k] = Events(a) /\ q[k] = Events(b)
                    /\ IsFun(b) /\ SameHooks(a, b)
                    /\ \A j \in 1 .. k : Expected[j].event \in DOMAIN b
    BY <1>5, <2>1, <2>2
  <2>5. /\ p[k].of = a /\ q[k].of = b /\ p[k] # Refused /\ q[k] # Refused
    BY <2>4 DEF Events, Refused
  <2>6. /\ p[k + 1] = AddEntry(a, Expected[k + 1], root)
        /\ q[k + 1] = AddEntry(b, Expected[k + 1], root)
    BY <2>2, <2>3, <2>5
  <2>7. PICK a2, b2 : /\ p[k + 1] = Events(a2) /\ q[k + 1] = Events(b2)
                      /\ IsFun(b2) /\ SameHooks(a2, b2)
                      /\ DOMAIN b2 = DOMAIN b \cup {Expected[k + 1].event}
    <3> DEFINE x == Expected[k + 1]
    <3>1. x \in Range(Expected) /\ SameHooks(a, b) /\ AddEntry(a, x, root) # Refused
      BY <2>1, <2>4, <2>6
    <3> HIDE DEF x
    <3>2. \E a2, b2 : /\ AddEntry(a, x, root) = Events(a2) /\ AddEntry(b, x, root) = Events(b2)
                      /\ IsFun(b2) /\ DOMAIN b2 = DOMAIN b \cup {x.event}
                      /\ SameHooks(a2, b2)
      BY <3>1, SameEntry
    <3> QED BY <2>6, <3>2 DEF x
  <2>8. 1 .. k + 1 = (1 .. k) \cup {k + 1}
    OBVIOUS
  <2>9. \A j \in 1 .. k + 1 : Expected[j].event \in DOMAIN b2
    BY <2>4, <2>7, <2>8
  <2> QED BY <2>7, <2>9
<1> HIDE DEF T
<1>6. N \in T /\ N \in 0 .. N
  BY <1>1, <1>4, <1>5, SetInduction
<1>7. p[N] # Refused
  BY <1>2 DEF Events, Refused
<1>8. PICK a, b : /\ p[N] = Events(a) /\ q[N] = Events(b)
                  /\ IsFun(b) /\ SameHooks(a, b)
                  /\ \A j \in 1 .. N : Expected[j].event \in DOMAIN b
  BY <1>6, <1>7 DEF T
<1>9. a = h2
  <2>1. Events(a).of = a /\ Events(h2).of = h2
    BY DEF Events
  <2> QED BY <1>2, <1>8, <2>1
<1>10. b = h2
  <2>1. \A e \in ExpectedEvents : e \in DOMAIN b
    BY <1>1, <1>8, Members DEF ExpectedEvents
  <2>2. DOMAIN b = DOMAIN h2
    BY <1>8, <1>9, <2>1 DEF SameHooks
  <2>3. \A e \in DOMAIN h2 : b[e] = h2[e]
    BY <1>8, <1>9, <2>2 DEF SameHooks, ValueAt
  <2> QED BY <1>8, <2>2, <2>3 DEF IsFun
<1> QED BY <1>3, <1>8, <1>10
-----------------------------------------------------------------------------
\* What a settings value says, in terms of its hooks.
HooksOf(s) == IF s.form = "object" /\ s.hooks.form = "events" THEN s.hooks.of ELSE <<>>

LEMMA EmptyHooks ==
  /\ DOMAIN <<>> = {} /\ IsFun(<<>>) /\ ShapedHooks(<<>>) /\ Unowned(<<>>)
  /\ \A e : GroupsIn(<<>>, e) = <<>>
  /\ \A e, M : ForeignIn(<<>>, e, M) = <<>> /\ ~ Present(<<>>, e, M)
<1>1. <<>> \in Seq({}) /\ DOMAIN <<>> = {}
  OBVIOUS
<1> DEFINE none == <<>>
<1>2. IsFun(none)
  BY <1>1 DEF IsFun
<1> HIDE DEF none
<1>3. DOMAIN none = {}
  BY <1>1 DEF none
<1>4. ShapedHooks(none) /\ Unowned(none)
  BY <1>3 DEF ShapedHooks, Unowned
<1>5. /\ \A e : GroupsIn(none, e) = <<>>
      /\ \A e, M : ForeignIn(none, e, M) = <<>> /\ ~ Present(none, e, M)
  BY <1>3 DEF ForeignIn, GroupsIn, Present
<1> QED BY <1>1, <1>2, <1>4, <1>5 DEF none

LEMMA SettingsHooks ==
  ASSUME NEW s
  PROVE  /\ EventsOf(s) = DOMAIN HooksOf(s)
         /\ \A e : GroupsAt(s, e) = GroupsIn(HooksOf(s), e)
         /\ \A e \in EventsOf(s) : \A M : ForeignAt(s, e, M) = ForeignIn(HooksOf(s), e, M)
<1>1. CASE s.form = "object" /\ s.hooks.form = "events"
  <2>1. HooksOf(s) = s.hooks.of /\ EventsOf(s) = DOMAIN HooksOf(s)
    BY <1>1 DEF HooksOf, EventsOf
  <2>2. \A e : GroupsAt(s, e) = GroupsIn(HooksOf(s), e)
    BY <1>1, <2>1 DEF GroupsAt, GroupsIn
  <2>3. \A e \in EventsOf(s) : \A M : ForeignAt(s, e, M) = ForeignIn(HooksOf(s), e, M)
    BY <2>1 DEF ForeignAt, ForeignIn
  <2> QED BY <2>1, <2>2, <2>3
<1>2. CASE ~ (s.form = "object" /\ s.hooks.form = "events")
  <2>1. HooksOf(s) = <<>> /\ EventsOf(s) = {}
    BY <1>2 DEF HooksOf, EventsOf
  <2>2. \A e : GroupsAt(s, e) = <<>>
    BY <1>2 DEF GroupsAt
  <2> QED BY <2>1, <2>2, EmptyHooks
<1> QED BY <1>1, <1>2

LEMMA OthersAre ==
  ASSUME NEW s, NEW t, NEW open, NEW open2,
         \A e \in EventsOf(s) : SameAt(HooksOf(s), HooksOf(t), e, open[e]),
         \A e \in EventsOf(t) : SameAt(HooksOf(s), HooksOf(t), e, open2[e]),
         \A e \in EventsOf(s) \cap EventsOf(t) : open[e] = open2[e]
  PROVE  Others(s, open) = Others(t, open2)
<1> DEFINE A == {e \in EventsOf(s) : \/ ForeignAt(s, e, open[e]) # <<>>
                                     \/ open[e] = {} /\ GroupsAt(s, e) = <<>>}
           B == {e \in EventsOf(t) : \/ ForeignAt(t, e, open2[e]) # <<>>
                                     \/ open2[e] = {} /\ GroupsAt(t, e) = <<>>}
<1>1. /\ \A e \in EventsOf(s) : ForeignAt(s, e, open[e]) = ForeignIn(HooksOf(s), e, open[e])
      /\ \A e \in EventsOf(t) : ForeignAt(t, e, open2[e]) = ForeignIn(HooksOf(t), e, open2[e])
      /\ \A e : GroupsAt(s, e) = GroupsIn(HooksOf(s), e)
      /\ \A e : GroupsAt(t, e) = GroupsIn(HooksOf(t), e)
      /\ EventsOf(s) = DOMAIN HooksOf(s) /\ EventsOf(t) = DOMAIN HooksOf(t)
  BY SettingsHooks
<1>2. /\ \A e : e \in A <=> e \in EventsOf(s) /\ Present(HooksOf(s), e, open[e])
      /\ \A e : e \in B <=> e \in EventsOf(t) /\ Present(HooksOf(t), e, open2[e])
  BY <1>1 DEF Present
<1>3. /\ \A e \in A : e \in EventsOf(s) \cap EventsOf(t)
      /\ \A e \in B : e \in EventsOf(s) \cap EventsOf(t)
  BY <1>1, <1>2 DEF SameAt, Present
<1>4. A \subseteq EventsOf(s) /\ B \subseteq EventsOf(t)
  OBVIOUS
<1> HIDE DEF A, B
<1>5. \A e : e \in A <=> e \in B
  BY <1>2, <1>3 DEF SameAt
<1>6. A = B
  BY <1>5
<1>7. \A e \in A : ForeignAt(s, e, open[e]) = ForeignAt(t, e, open2[e])
  BY <1>1, <1>3 DEF SameAt
<1>8. [e \in A |-> ForeignAt(s, e, open[e])] = [e \in B |-> ForeignAt(t, e, open2[e])]
  BY <1>6, <1>7
<1> QED BY <1>8, Zenon DEF Others, A, B

LEMMA ForeignIs ==
  ASSUME NEW s, NEW t, \A e : SameAt(HooksOf(s), HooksOf(t), e, {})
  PROVE  Foreign(s) = Foreign(t)
<1> DEFINE open == [e \in EventsOf(s) |-> {}]
           open2 == [e \in EventsOf(t) |-> {}]
<1>1. /\ \A e \in EventsOf(s) : open[e] = {}
      /\ \A e \in EventsOf(t) : open2[e] = {}
  OBVIOUS
<1> HIDE DEF open, open2
<1>2. /\ \A e \in EventsOf(s) : SameAt(HooksOf(s), HooksOf(t), e, open[e])
      /\ \A e \in EventsOf(t) : SameAt(HooksOf(s), HooksOf(t), e, open2[e])
      /\ \A e \in EventsOf(s) \cap EventsOf(t) : open[e] = open2[e]
  BY <1>1
<1>3. Others(s, open) = Others(t, open2)
  BY <1>2, OthersAre
<1> QED BY <1>3 DEF Foreign, open, open2

LEMMA SparedIs ==
  ASSUME NEW s, NEW t, \A e : SameAt(HooksOf(s), HooksOf(t), e, ExpectedMatchers(e))
  PROVE  Spared(s) = Spared(t)
<1> DEFINE open == [e \in EventsOf(s) |-> ExpectedMatchers(e)]
           open2 == [e \in EventsOf(t) |-> ExpectedMatchers(e)]
<1>1. /\ \A e \in EventsOf(s) : open[e] = ExpectedMatchers(e)
      /\ \A e \in EventsOf(t) : open2[e] = ExpectedMatchers(e)
  OBVIOUS
<1> HIDE DEF open, open2
<1>2. /\ \A e \in EventsOf(s) : SameAt(HooksOf(s), HooksOf(t), e, open[e])
      /\ \A e \in EventsOf(t) : SameAt(HooksOf(s), HooksOf(t), e, open2[e])
      /\ \A e \in EventsOf(s) \cap EventsOf(t) : open[e] = open2[e]
  BY <1>1
<1>3. Others(s, open) = Others(t, open2)
  BY <1>2, OthersAre
<1> QED BY <1>3 DEF Spared, open, open2

LEMMA PlacesAre ==
  ASSUME NEW s
  PROVE  /\ \A e, i, j : Placed(HooksOf(s), e, i, j) => <<e, i, j>> \in OurPlaces(s)
         /\ \A p \in OurPlaces(s) : \E e, i, j : p = <<e, i, j>> /\ Placed(HooksOf(s), e, i, j)
<1>1. /\ EventsOf(s) = DOMAIN HooksOf(s)
      /\ \A e : GroupsAt(s, e) = GroupsIn(HooksOf(s), e)
  BY SettingsHooks
<1>2. ASSUME NEW e, NEW i, NEW j, Placed(HooksOf(s), e, i, j) PROVE <<e, i, j>> \in OurPlaces(s)
  <2>1. e \in EventsOf(s)
    BY <1>1, <1>2 DEF Placed, GroupsIn
  <2>2. i \in DOMAIN GroupsAt(s, e) /\ j \in OursIn(GroupsAt(s, e)[i])
    BY <1>1, <1>2 DEF Placed
  <2> QED BY <2>1, <2>2 DEF OurPlaces
<1>3. ASSUME NEW p \in OurPlaces(s)
      PROVE  \E e, i, j : p = <<e, i, j>> /\ Placed(HooksOf(s), e, i, j)
  <2>1. PICK e \in EventsOf(s) : p \in UNION {{<<e, i, j>> : j \in OursIn(GroupsAt(s, e)[i])}
                                              : i \in DOMAIN GroupsAt(s, e)}
    BY DEF OurPlaces
  <2>2. PICK i \in DOMAIN GroupsAt(s, e) : p \in {<<e, i, j>> : j \in OursIn(GroupsAt(s, e)[i])}
    BY <2>1
  <2>3. PICK j \in OursIn(GroupsAt(s, e)[i]) : p = <<e, i, j>>
    BY <2>2
  <2> QED BY <1>1, <2>2, <2>3 DEF Placed
<1> QED BY <1>2, <1>3

LEMMA CleanIs ==
  ASSUME NEW s, Unowned(HooksOf(s))
  PROVE  Registered(s) = {}
<1>1. \A e, i, j : ~ Placed(HooksOf(s), e, i, j)
  BY NothingPlaced
<1> QED BY <1>1, PlacesAre DEF Registered

LEMMA WholeIs ==
  ASSUME NEW s, NEW root, Carries(HooksOf(s), root, Len(Expected))
  PROVE  Whole(s, root)
<1> DEFINE h == HooksOf(s)
           N == Len(Expected)
           Reg(x) == [event |-> x.event, matcher |-> x.matcher, hook |-> x.hook, root |-> root]
<1>1. DOMAIN Expected = 1 .. N
  BY AddOwnedIs
<1>2. \A e : GroupsAt(s, e) = GroupsIn(h, e)
  BY SettingsHooks
<1>3. ASSUME NEW e, NEW i, NEW j, NEW k \in 1 .. N, Stands(h, e, i, j, Expected[k], root)
      PROVE  /\ e = Expected[k].event /\ <<e, i, j>> \in OurPlaces(s)
             /\ Registration(s, <<e, i, j>>) = Reg(Expected[k])
  <2>1. <<e, i, j>> \in OurPlaces(s)
    BY <1>3, PlacesAre DEF Stands
  <2>2. Ours(Expected[k].hook, root).hook = Expected[k].hook /\ Ours(Expected[k].hook, root).root = root
    BY DEF Ours
  <2>3. <<e, i, j>>[1] = e /\ <<e, i, j>>[2] = i /\ <<e, i, j>>[3] = j
    OBVIOUS
  <2> QED BY <1>2, <1>3, <2>1, <2>2, <2>3 DEF Stands, Registration
<1>4. ASSUME NEW p \in OurPlaces(s)
      PROVE  \E e, i, j : \E k \in 1 .. N : p = <<e, i, j>> /\ Stands(h, e, i, j, Expected[k], root)
  BY <1>4, PlacesAre DEF Carries
<1> HIDE DEF h, N, Reg
<1>5. ASSUME NEW x \in Range(Expected) PROVE Reg(x) \in Registered(s)
  <2>1. PICK k \in 1 .. N : Expected[k] = x
    BY <1>1, Members
  <2>2. PICK e, i, j : Stands(h, e, i, j, Expected[k], root)
    BY DEF Carries, h, N
  <2> QED BY <1>3, <2>1, <2>2 DEF Registered
<1>6. ASSUME NEW r \in Registered(s) PROVE \E x \in Range(Expected) : r = Reg(x)
  <2>1. PICK p \in OurPlaces(s) : r = Registration(s, p)
    BY DEF Registered
  <2>2. PICK e, i, j : \E k \in 1 .. N : p = <<e, i, j>> /\ Stands(h, e, i, j, Expected[k], root)
    BY <1>4
  <2>3. PICK k \in 1 .. N : p = <<e, i, j>> /\ Stands(h, e, i, j, Expected[k], root)
    BY <2>2
  <2>4. r = Reg(Expected[k])
    BY <1>3, <2>1, <2>3
  <2>5. Expected[k] \in Range(Expected)
    BY <1>1, Members
  <2> QED BY <2>4, <2>5
<1>7. Registered(s) = {Reg(x) : x \in Range(Expected)}
  BY <1>5, <1>6
<1>8. ASSUME NEW p \in OurPlaces(s), NEW q \in OurPlaces(s), Registration(s, p) = Registration(s, q)
      PROVE  p = q
  <2>1. PICK e, i, j : \E k \in 1 .. N : p = <<e, i, j>> /\ Stands(h, e, i, j, Expected[k], root)
    BY <1>4
  <2>2. PICK k \in 1 .. N : p = <<e, i, j>> /\ Stands(h, e, i, j, Expected[k], root)
    BY <2>1
  <2>3. PICK f, i2, j2 : \E l \in 1 .. N : q = <<f, i2, j2>> /\ Stands(h, f, i2, j2, Expected[l], root)
    BY <1>4
  <2>4. PICK l \in 1 .. N : q = <<f, i2, j2>> /\ Stands(h, f, i2, j2, Expected[l], root)
    BY <2>3
  <2>5. Reg(Expected[k]) = Reg(Expected[l]) /\ e = Expected[k].event /\ f = Expected[l].event
    BY <1>3, <1>8, <2>2, <2>4
  <2>6. Expected[k].event = Expected[l].event /\ Expected[k].matcher = Expected[l].matcher
    BY <2>5 DEF Reg
  <2>7. k = l
    BY <1>1, <2>6, ExpectedAssumption
  <2>8. i = i2 /\ j = j2
    BY <2>2, <2>4, <2>7 DEF Carries, h, N
  <2> QED BY <2>2, <2>4, <2>5, <2>7, <2>8
<1> QED BY <1>7, <1>8 DEF Whole, Reg
-----------------------------------------------------------------------------
\* The settings values that a file can hold.
ShapedSettings(s) ==
  \/ s \in {Absent, Invalid, Object(Missing), Object(Odd)}
  \/ \E h : s = Object(Events(h)) /\ IsFun(h) /\ ShapedHooks(h)

LEMMA HooksOfEvents ==
  ASSUME NEW h
  PROVE  HooksOf(Object(Events(h))) = h
BY DEF HooksOf, Object, Events

LEMMA HooksOfShaped ==
  ASSUME NEW s, ShapedSettings(s)
  PROVE  IsFun(HooksOf(s)) /\ ShapedHooks(HooksOf(s))
<1>1. CASE s \in {Absent, Invalid, Object(Missing), Object(Odd)}
  <2>1. HooksOf(s) = <<>>
    BY <1>1 DEF HooksOf, Absent, Invalid, Object, Missing, Odd
  <2> QED BY <2>1, EmptyHooks
<1>2. CASE \E h : s = Object(Events(h)) /\ IsFun(h) /\ ShapedHooks(h)
  BY <1>2, HooksOfEvents
<1> QED BY <1>1, <1>2 DEF ShapedSettings

\* install, as a walk from the hooks it has cleared.
LEMMA InstalledIs ==
  ASSUME NEW s, ShapedSettings(s), NEW root, Installed(s, root) # Refused
  PROVE  /\ AddOwned(RemoveOwned(HooksOf(s)), root) # Refused
         /\ Installed(s, root) = Object(AddOwned(RemoveOwned(HooksOf(s)), root))
<1> DEFINE before == IF s = Absent THEN Missing ELSE s.hooks
           hooks == IF before = Missing THEN <<>> ELSE before.of
           after == AddOwned(RemoveOwned(hooks), root)
<1>1. /\ s # Invalid /\ before # Odd /\ after # Refused
      /\ Installed(s, root) = Object(after)
  BY DEF Installed
<1>2. hooks = HooksOf(s)
  <2>1. CASE s \in {Absent, Object(Missing)}
    BY <2>1 DEF HooksOf, Absent, Object, Missing
  <2>2. CASE s = Object(Odd)
    BY <1>1, <2>2 DEF Absent, Object, Odd
  <2>3. CASE \E h : s = Object(Events(h)) /\ IsFun(h) /\ ShapedHooks(h)
    <3>1. PICK h : s = Object(Events(h))
      BY <2>3
    <3>2. s # Absent /\ s.hooks = Events(h) /\ Events(h) # Missing /\ Events(h).of = h
      BY <3>1 DEF Absent, Object, Missing, Events
    <3> QED BY <3>1, <3>2, HooksOfEvents
  <2> QED BY <1>1, <2>1, <2>2, <2>3 DEF ShapedSettings
<1> QED BY <1>1, <1>2

LEMMA InstalledEvents ==
  ASSUME NEW h, NEW root, AddOwned(RemoveOwned(h), root) # Refused
  PROVE  Installed(Object(Events(h)), root) = Object(AddOwned(RemoveOwned(h), root))
<1> DEFINE s == Object(Events(h))
<1>1. /\ s # Absent /\ s # Invalid /\ s.hooks = Events(h)
      /\ Events(h) # Missing /\ Events(h) # Odd /\ Events(h).of = h
  BY DEF Absent, Invalid, Object, Missing, Odd, Events
<1> QED BY <1>1 DEF Installed

LEMMA InstalledFacts ==
  ASSUME NEW s, ShapedSettings(s), NEW root, Installed(s, root) # Refused
  PROVE  \E g : /\ Installed(s, root) = Object(Events(g))
                /\ AddOwned(RemoveOwned(HooksOf(s)), root) = Events(g)
                /\ Reached(RemoveOwned(HooksOf(s)), g, root, Len(Expected))
<1> DEFINE r == RemoveOwned(HooksOf(s))
<1>1. AddOwned(r, root) # Refused /\ Installed(s, root) = Object(AddOwned(r, root))
  BY InstalledIs
<1>2. ShapedHooks(r) /\ Unowned(r)
  BY HooksOfShaped, RemoveKeeps
<1>3. IsFun(r)
  BY DEF IsFun, RemoveOwned
<1> HIDE DEF r
<1>4. \E g : AddOwned(r, root) = Events(g) /\ Reached(r, g, root, Len(Expected))
  BY <1>1, <1>2, <1>3, AddOwnedFacts
<1> QED BY <1>1, <1>4 DEF r

LEMMA BarelessIs ==
  ASSUME NEW s, ~ HasBareGroup(s)
  PROVE  Bareless(HooksOf(s)) /\ (~ HasBareEvent(s) => Gapless(HooksOf(s)))
<1> DEFINE h == HooksOf(s)
<1>1. (\A e : GroupsAt(s, e) = GroupsIn(h, e)) /\ EventsOf(s) = DOMAIN h
  BY SettingsHooks
<1>2. \A e \in EventsOf(s) : s.hooks.of[e] = h[e]
  BY DEF HooksOf, EventsOf
<1> HIDE DEF h
<1>3. Bareless(h)
  <2> SUFFICES ASSUME NEW x \in Range(Expected), NEW g \in Range(GroupsIn(h, x.event)),
                      g.form = "group", g.matcher = x.matcher, Bare(g)
               PROVE  FALSE
    BY DEF Bareless
  <2>1. PICK i \in DOMAIN GroupsIn(h, x.event) : GroupsIn(h, x.event)[i] = g
    BY Members
  <2>2. i \in Matching(GroupsAt(s, x.event), x.matcher) /\ Bare(GroupsAt(s, x.event)[i])
    BY <1>1, <2>1 DEF Matching
  <2> QED BY <2>2 DEF HasBareGroup
<1>4. ASSUME ~ HasBareEvent(s) PROVE Gapless(h)
  BY <1>1, <1>2, <1>3, <1>4 DEF Gapless, HasBareEvent
<1> QED BY <1>3, <1>4 DEF h

\* An install writes every entry once, and only that; for a root that is not
\* recognised, nothing that would be known again.
LEMMA InstalledIsExact ==
  ASSUME NEW s, ShapedSettings(s), NEW root, Installed(s, root) # Refused
  PROVE  LET t == Installed(s, root)
         IN  /\ ShapedSettings(t)
             /\ root \in Recognised =>
                  /\ Whole(t, root) /\ Spared(t) = Spared(s)
                  /\ ~ HasBareGroup(s) /\ ~ HasBareEvent(s) => Foreign(t) = Foreign(s)
             /\ root \notin Recognised => Registered(t) = {}
<1> DEFINE r == RemoveOwned(HooksOf(s))
           t == Installed(s, root)
<1>1. PICK g : t = Object(Events(g)) /\ Reached(r, g, root, Len(Expected))
  BY InstalledFacts
<1>2. /\ \A e, M : SameAt(r, HooksOf(s), e, M)
      /\ Gapless(HooksOf(s)) => Gapless(r)
  BY HooksOfShaped, RemoveKeeps
<1>3. \A e, M : SameAt(g, r, e, M) /\ SameAt(r, HooksOf(s), e, M) => SameAt(g, HooksOf(s), e, M)
  BY DEF SameAt
<1> HIDE DEF r, t
<1>4. HooksOf(t) = g
  BY <1>1, HooksOfEvents
<1>5. ShapedSettings(t)
  BY <1>1 DEF ShapedSettings, Reached
<1>6. ASSUME root \in Recognised
      PROVE  /\ Whole(t, root) /\ Spared(t) = Spared(s)
             /\ ~ HasBareGroup(s) /\ ~ HasBareEvent(s) => Foreign(t) = Foreign(s)
  <2>1. /\ Carries(g, root, Len(Expected))
        /\ \A e : SameAt(g, r, e, ExpectedMatchers(e))
        /\ Gapless(r) => \A e : SameAt(g, r, e, {})
    BY <1>1, <1>6 DEF Reached
  <2>2. Whole(t, root)
    BY <1>4, <2>1, WholeIs
  <2>3. Spared(t) = Spared(s)
    <3>1. \A e : SameAt(g, HooksOf(s), e, ExpectedMatchers(e))
      BY <1>2, <1>3, <2>1
    <3> QED BY <1>4, <3>1, SparedIs
  <2>4. ASSUME ~ HasBareGroup(s), ~ HasBareEvent(s) PROVE Foreign(t) = Foreign(s)
    <3>1. Gapless(r)
      BY <1>2, <2>4, BarelessIs
    <3>2. \A e : SameAt(g, HooksOf(s), e, {})
      BY <1>2, <1>3, <2>1, <3>1
    <3> QED BY <1>4, <3>2, ForeignIs
  <2> QED BY <2>2, <2>3, <2>4
<1>7. ASSUME root \notin Recognised PROVE Registered(t) = {}
  <2>1. Unowned(g)
    BY <1>1, <1>7 DEF Reached
  <2> QED BY <1>4, <2>1, CleanIs
<1> QED BY <1>5, <1>6, <1>7 DEF t

\* An uninstall leaves nothing of ours, and all else.
LEMMA UninstalledIsClean ==
  ASSUME NEW s, ShapedSettings(s), Uninstalled(s) # Refused
  PROVE  /\ ShapedSettings(Uninstalled(s)) /\ Registered(Uninstalled(s)) = {}
         /\ Foreign(Uninstalled(s)) = Foreign(s) /\ Spared(Uninstalled(s)) = Spared(s)
<1> DEFINE t == Uninstalled(s)
<1>1. CASE s \in {Absent, Object(Missing), Object(Odd)}
  <2>1. t = s /\ HooksOf(s) = <<>>
    BY <1>1 DEF Uninstalled, HooksOf, Absent, Invalid, Object, Missing, Odd
  <2>2. Registered(s) = {}
    BY <2>1, EmptyHooks, CleanIs
  <2> QED BY <2>1, <2>2
<1>2. CASE s = Invalid
  <2>1. t = Refused
    BY <1>2 DEF Uninstalled, Absent, Invalid
  <2> QED BY <2>1
<1>3. CASE \E h : s = Object(Events(h)) /\ IsFun(h) /\ ShapedHooks(h)
  <2>1. PICK h : s = Object(Events(h)) /\ IsFun(h) /\ ShapedHooks(h)
    BY <1>3
  <2> DEFINE r == RemoveOwned(h)
  <2>2. s # Absent /\ s # Invalid /\ s.hooks.form = "events" /\ s.hooks.of = h
    BY <2>1 DEF Absent, Invalid, Object, Events
  <2>3. t = Object(IF DOMAIN r = {} THEN Missing ELSE Events(r))
    BY <2>2 DEF Uninstalled
  <2>4. ShapedHooks(r) /\ Unowned(r) /\ \A e, M : SameAt(r, h, e, M)
    BY <2>1, RemoveKeeps
  <2>5. IsFun(r)
    BY DEF IsFun, RemoveOwned
  <2> HIDE DEF r, t
  <2>6. ShapedSettings(t)
    BY <2>3, <2>4, <2>5 DEF ShapedSettings
  <2>7. Unowned(HooksOf(t)) /\ \A e, M : SameAt(HooksOf(t), r, e, M)
    <3>1. CASE DOMAIN r = {}
      <4>1. HooksOf(t) = <<>>
        BY <2>3, <3>1 DEF HooksOf, Object, Missing
      <4>2. \A e, M : ForeignIn(r, e, M) = <<>> /\ ~ Present(r, e, M)
        BY <3>1 DEF ForeignIn, Present
      <4>3. \A e, M : ForeignIn(HooksOf(t), e, M) = <<>> /\ ~ Present(HooksOf(t), e, M)
        BY <4>1, EmptyHooks
      <4>4. Unowned(HooksOf(t))
        BY <4>1, EmptyHooks
      <4> QED BY <4>2, <4>3, <4>4 DEF SameAt
    <3>2. CASE DOMAIN r # {}
      <4>1. HooksOf(t) = r
        BY <2>3, <3>2, HooksOfEvents
      <4> QED BY <2>4, <4>1 DEF SameAt
    <3> QED BY <3>1, <3>2
  <2>8. \A e, M : SameAt(HooksOf(t), HooksOf(s), e, M)
    <3>1. HooksOf(s) = h
      BY <2>1, HooksOfEvents
    <3> QED BY <2>4, <2>7, <3>1 DEF SameAt
  <2>9. Foreign(t) = Foreign(s) /\ Spared(t) = Spared(s)
    BY <2>8, ForeignIs, SparedIs
  <2> QED BY <2>6, <2>7, <2>9, CleanIs DEF t
<1> QED BY <1>1, <1>2, <1>3 DEF ShapedSettings
-----------------------------------------------------------------------------
\* If no entry went into a group without commands, a second install starts from
\* hooks like those the first one started from.
LEMMA SameStart ==
  ASSUME NEW r, IsFun(r), ShapedHooks(r), Unowned(r), Bareless(r),
         NEW g, NEW root \in Recognised, Reached(r, g, root, Len(Expected))
  PROVE  SameHooks(r, RemoveOwned(g))
<1> DEFINE s == RemoveOwned(g)
<1>1. /\ DOMAIN s \subseteq DOMAIN g
      /\ \A e \in DOMAIN s : s[e] = IF g[e].form = "list" THEN List(Kept(g[e].of)) ELSE g[e]
      /\ \A e \in DOMAIN g \ DOMAIN s :
           /\ g[e].form = "list" /\ Kept(g[e].of) = <<>>
           /\ \E k \in Range(g[e].of) : HasOwned(k)
  BY RemoveFacts
<1> HIDE DEF s
<1>2. ShapedHooks(g) /\ DOMAIN r \subseteq DOMAIN g
  BY DEF Reached
<1>3. ASSUME NEW e \in DOMAIN g
      PROVE  \/ e \in DOMAIN r /\ g[e] = r[e]
             \/ /\ e \in ExpectedEvents /\ g[e] = List(GroupsIn(g, e))
                /\ e \in DOMAIN r => r[e] = List(GroupsIn(r, e))
  BY <1>3 DEF Reached
<1>4. ASSUME NEW e PROVE Kept(GroupsIn(g, e)) = GroupsIn(r, e)
  <2>1. Kept(GroupsIn(g, e)) = Kept(GroupsIn(r, e))
    BY DEF Reached
  <2>2. ShapedGroups(GroupsIn(r, e))
    BY ShapedGroupsIn
  <2>3. ASSUME NEW k \in Range(GroupsIn(r, e)) PROVE ~ HasOwned(k)
    <3>1. Range(<<>>) = {}
      BY DEF Range
    <3> QED BY <2>3, <3>1 DEF Unowned, GroupsIn
  <2> QED BY <2>1, <2>2, <2>3, KeptFacts
<1>5. ASSUME NEW e \in DOMAIN r, r[e].form = "list" PROVE r[e] = List(GroupsIn(r, e))
  BY <1>5, ShapedGroupsIn
<1>6. ASSUME NEW e \in DOMAIN g, g[e].form = "list"
      PROVE  /\ g[e].of = GroupsIn(g, e)
             /\ e \in DOMAIN r => r[e] = List(GroupsIn(r, e))
             /\ ValueAt(r, e) = List(GroupsIn(r, e))
  <2>1. e \in DOMAIN r => r[e] = List(GroupsIn(r, e))
    BY <1>3, <1>5, <1>6
  <2>2. ValueAt(r, e) = List(GroupsIn(r, e))
    BY <2>1 DEF ValueAt, GroupsIn
  <2> QED BY <1>6, <2>1, <2>2 DEF GroupsIn
<1>7. ASSUME NEW e PROVE ValueAt(r, e) = ValueAt(s, e)
  <2>1. CASE e \in DOMAIN s /\ g[e].form = "list"
    BY <1>1, <1>4, <1>6, <2>1 DEF ValueAt
  <2>2. CASE e \in DOMAIN s /\ g[e].form # "list"
    <3>1. g[e] # List(GroupsIn(g, e))
      BY <2>2 DEF List
    <3> QED BY <1>1, <1>3, <2>2, <3>1 DEF ValueAt
  <2>3. CASE e \in DOMAIN g \ DOMAIN s
    <3>1. GroupsIn(r, e) = <<>>
      BY <1>1, <1>4, <1>6, <2>3
    <3> QED BY <1>1, <1>6, <2>3, <3>1 DEF ValueAt
  <2>4. CASE e \notin DOMAIN g
    BY <1>1, <1>2, <2>4 DEF ValueAt
  <2> QED BY <2>1, <2>2, <2>3, <2>4
<1>8. ASSUME NEW e, e \notin ExpectedEvents PROVE e \in DOMAIN r <=> e \in DOMAIN s
  <2>1. CASE e \in DOMAIN s
    BY <1>1, <1>3, <1>8, <2>1
  <2>2. CASE e \in DOMAIN r \ DOMAIN s
    <3>1. e \in DOMAIN g /\ g[e] = r[e]
      BY <1>2, <1>3, <1>8, <2>2
    <3>2. g[e].form = "list" /\ \E k \in Range(g[e].of) : HasOwned(k)
      BY <1>1, <2>2, <3>1
    <3> QED BY <2>2, <3>1, <3>2 DEF Unowned
  <2> QED BY <2>1, <2>2
<1> QED BY <1>7, <1>8 DEF SameHooks, s

\* A second install then writes what stands there.
LEMMA InstalledAgain ==
  ASSUME NEW s, ShapedSettings(s), NEW root \in Recognised, Installed(s, root) # Refused,
         ~ HasBareGroup(s)
  PROVE  Installed(Installed(s, root), root) = Installed(s, root)
<1> DEFINE r == RemoveOwned(HooksOf(s))
<1>1. PICK g : /\ Installed(s, root) = Object(Events(g)) /\ AddOwned(r, root) = Events(g)
               /\ Reached(r, g, root, Len(Expected))
  BY InstalledFacts
<1>2. Bareless(r) /\ ShapedHooks(r) /\ Unowned(r)
  BY HooksOfShaped, BarelessIs, RemoveKeeps
<1>3. IsFun(r) /\ IsFun(RemoveOwned(g))
  BY DEF IsFun, RemoveOwned
<1> HIDE DEF r
<1>4. SameHooks(r, RemoveOwned(g))
  BY <1>1, <1>2, <1>3, SameStart
<1>5. IsFun(g) /\ \A k \in 1 .. Len(Expected) : Expected[k].event \in DOMAIN g
  BY <1>1 DEF Reached, IsFun
<1>6. ExpectedEvents \subseteq DOMAIN g
  BY <1>5, AddOwnedIs, Members DEF ExpectedEvents
<1>7. AddOwned(RemoveOwned(g), root) = Events(g)
  BY <1>1, <1>3, <1>4, <1>5, <1>6, SameAdded
<1>8. Events(g) # Refused
  BY DEF Events, Refused
<1> QED BY <1>1, <1>7, <1>8, InstalledEvents
-----------------------------------------------------------------------------
\* Every file and everything that is about to be written is of a known shape, and
\* an installer writes what it made of what it read.
Prepared(w) ==
  \/ w = NoWork
  \/ /\ ShapedSettings(w.seen) /\ w.text # Refused
     /\ \/ w.kind = "install" /\ w.root \in Checkout /\ w.text = Installed(w.seen, w.root)
        \/ w.kind = "uninstall" /\ w.text = Uninstalled(w.seen)

HooksInv ==
  /\ ShapedSettings(settings) /\ DOMAIN work = Installer
  /\ \A p \in Installer : Prepared(work[p])

\* Others may save what they like, in the shape that a settings file has.
SettingsAreShaped ==
  /\ \A s \in InitialSettings : ShapedSettings(s)
  /\ \A s : ShapedSettings(s) => \A t \in Rewrites(s) : ShapedSettings(t)

LEMMA UninstallRefuses ==
  ASSUME NEW h
  PROVE  Uninstalled(Object(Events(h))) # Refused
BY DEF Uninstalled, Object, Events, Absent, Invalid, Refused

LEMMA PreparedTexts ==
  ASSUME NEW w, Prepared(w), w # NoWork
  PROVE  /\ ShapedSettings(w.text)
         /\ Spared(w.text) = Spared(w.seen) \/ w.root \in Checkout \ Recognised
         /\ Registered(w.text) = {} \/ \E root \in Recognised : Whole(w.text, root)
<1>1. CASE w.kind = "install"
  BY <1>1, InstalledIsExact DEF Prepared
<1>2. CASE w.kind = "uninstall"
  BY <1>2, UninstalledIsClean DEF Prepared
<1> QED BY <1>1, <1>2 DEF Prepared

LEMMA InitHooksInv ==
  ASSUME SettingsAreShaped
  PROVE  Init => HooksInv
BY DEF SettingsAreShaped, Init, HooksInit, HooksInv, Prepared

LEMMA WorkInv ==
  ASSUME HooksInv, NEW p \in Installer, NEW w, Prepared(w), ShapedSettings(settings'),
         work' = [work EXCEPT ![p] = w]
  PROVE  HooksInv'
<1>1. DOMAIN work' = Installer
  BY DEF HooksInv
<1>2. ASSUME NEW q \in Installer PROVE Prepared(work'[q])
  <2>1. work'[q] = IF q = p THEN w ELSE work[q]
    BY DEF HooksInv
  <2> QED BY <2>1 DEF HooksInv
<1> QED BY <1>1, <1>2 DEF HooksInv

LEMMA ReadInv ==
  ASSUME HooksInv, NEW p \in Installer, NEW kind, NEW root, NEW text, Read(p, kind, root, text),
         \/ kind = "install" /\ root \in Checkout /\ text = Installed(settings, root)
         \/ kind = "uninstall" /\ text = Uninstalled(settings)
  PROVE  HooksInv'
<1> DEFINE w == [kind |-> kind, root |-> root, seen |-> settings, text |-> text]
<1>1. /\ w.kind = kind /\ w.root = root /\ w.seen = settings /\ w.text = text
      /\ ShapedSettings(settings) /\ text # Refused
  BY DEF Read, HooksInv
<1>2. work' = [work EXCEPT ![p] = w] /\ settings' = settings
  BY DEF Read
<1> HIDE DEF w
<1>3. Prepared(w)
  BY <1>1 DEF Prepared
<1> QED BY <1>1, <1>2, <1>3, WorkInv

LEMMA NextHooksInv ==
  ASSUME SettingsAreShaped
  PROVE  HooksInv /\ [Next]_vars => HooksInv'
<1> SUFFICES ASSUME HooksInv, [Next]_vars PROVE HooksInv'
  OBVIOUS
<1>1. CASE UNCHANGED hookVars
  BY <1>1 DEF hookVars, HooksInv
<1>2. ASSUME NEW p \in Installer, InstallerStep(p) PROVE HooksInv'
  <2>1. Prepared(NoWork)
    BY DEF Prepared
  <2>2. CASE Replace(p)
    <3>1. ShapedSettings(settings')
      BY <2>2, PreparedTexts DEF Replace, HooksInv
    <3> QED BY <2>1, <2>2, <3>1, WorkInv DEF Replace
  <2>3. CASE CrashInstaller(p)
    <3>1. ShapedSettings(settings')
      BY <2>3 DEF CrashInstaller, HooksInv
    <3> QED BY <2>1, <2>3, <3>1, WorkInv DEF CrashInstaller
  <2> QED BY <1>2, <2>2, <2>3 DEF InstallerStep
<1>3. ASSUME NEW p \in Installer, CallInstall(p) PROVE HooksInv'
  BY <1>3, ReadInv DEF CallInstall
<1>4. ASSUME NEW p \in Installer, CallUninstall(p) PROVE HooksInv'
  BY <1>4, ReadInv DEF CallUninstall
<1>5. CASE Rewrite
  BY <1>5 DEF Rewrite, HooksInv, SettingsAreShaped
<1> QED BY <1>1, <1>2, <1>3, <1>4, <1>5 DEF Next, HooksNext, GateNext, Around, vars

\* Whatever the file held, an install for a recognised root writes each entry
\* once, an uninstall leaves none, also after an install, and what others put there
\* stays, but for the groups without commands and the events without groups that an
\* entry goes into; and a second install changes nothing unless the first has filled
\* such a group.
THEOREM InstallsExact ==
  ASSUME SettingsAreShaped
  PROVE  Spec => []InstallIsExact
<1>1. HooksInv => InstallIsExact
  <2> SUFFICES ASSUME HooksInv, NEW p \in Installer, work[p] # NoWork
               PROVE  LET seen == work[p].seen
                          text == work[p].text
                          again == Installed(text, work[p].root)
                          Exact(s) == Whole(s, work[p].root) /\ Spared(s) = Spared(seen)
                          Clean(s, t) == Registered(t) = {} /\ Foreign(t) = Foreign(s)
                      IN  IF work[p].kind = "uninstall" THEN Clean(seen, text)
                          ELSE /\ Clean(text, Uninstalled(text))
                               /\ IF work[p].root \notin Recognised THEN Registered(text) = {}
                                  ELSE /\ Exact(text)
                                       /\ again # Refused => Exact(again)
                                       /\ HasBareGroup(seen) \/ again = text
                                       /\ \/ HasBareGroup(seen) \/ HasBareEvent(seen)
                                          \/ Foreign(text) = Foreign(seen)
    BY DEF InstallIsExact
  <2> DEFINE seen == work[p].seen
             text == work[p].text
             root == work[p].root
             again == Installed(text, root)
  <2>1. Prepared(work[p])
    BY DEF HooksInv
  <2>2. CASE work[p].kind = "uninstall"
    <3>1. text = Uninstalled(seen) /\ ShapedSettings(seen) /\ text # Refused
      BY <2>1, <2>2 DEF Prepared
    <3> QED BY <2>2, <3>1, UninstalledIsClean
  <2>3. CASE work[p].kind # "uninstall"
    <3>1. text = Installed(seen, root) /\ ShapedSettings(seen) /\ text # Refused
      BY <2>1, <2>3 DEF Prepared
    <3> HIDE DEF seen, text, root
    <3>2. ShapedSettings(text) /\ (root \notin Recognised => Registered(text) = {})
      BY <3>1, InstalledIsExact
    <3>3. Uninstalled(text) # Refused
      BY <3>1, UninstallRefuses, InstalledFacts
    <3>4. Registered(Uninstalled(text)) = {} /\ Foreign(Uninstalled(text)) = Foreign(text)
      BY <3>2, <3>3, UninstalledIsClean
    <3>5. ASSUME root \in Recognised
          PROVE  /\ Whole(text, root) /\ Spared(text) = Spared(seen)
                 /\ again # Refused => Whole(again, root) /\ Spared(again) = Spared(seen)
                 /\ HasBareGroup(seen) \/ again = text
                 /\ HasBareGroup(seen) \/ HasBareEvent(seen) \/ Foreign(text) = Foreign(seen)
      <4>1. /\ Whole(text, root) /\ Spared(text) = Spared(seen)
            /\ ~ HasBareGroup(seen) /\ ~ HasBareEvent(seen) => Foreign(text) = Foreign(seen)
        BY <3>1, <3>5, InstalledIsExact
      <4>2. again # Refused => Whole(again, root) /\ Spared(again) = Spared(text)
        BY <3>2, <3>5, InstalledIsExact
      <4>3. HasBareGroup(seen) \/ again = text
        BY <3>1, <3>5, InstalledAgain
      <4> QED BY <4>1, <4>2, <4>3
    <3> QED BY <2>3, <3>2, <3>4, <3>5 DEF seen, text, root
  <2> QED BY <2>2, <2>3
<1> QED BY <1>1, InitHooksInv, NextHooksInv, PTL DEF Spec

\* Whoever overtakes whom, a file that an installer replaces holds one whole
\* install or none of what is known; and what others had put there, and no entry
\* goes into, is lost only by a process that was overtaken.
THEOREM ReplacementsWhole ==
  ASSUME SettingsAreShaped
  PROVE  Spec => ReplacementsAreWhole
<1> DEFINE A == \A p \in Installer : Replace(p) =>
                  /\ Registered(settings') = {} \/ \E root \in Recognised : Whole(settings', root)
                  /\ \/ Spared(settings') = Spared(settings)
                     \/ settings # work[p].seen
                     \/ work[p].root \in Checkout \ Recognised
<1>1. HooksInv => A
  <2> SUFFICES ASSUME HooksInv, NEW p \in Installer, Replace(p)
               PROVE  /\ \/ Registered(settings') = {}
                         \/ \E root \in Recognised : Whole(settings', root)
                      /\ \/ Spared(settings') = Spared(settings)
                         \/ settings # work[p].seen
                         \/ work[p].root \in Checkout \ Recognised
    OBVIOUS
  <2>1. Prepared(work[p]) /\ work[p] # NoWork /\ settings' = work[p].text
    BY DEF Replace, HooksInv
  <2> QED BY <2>1, PreparedTexts
<1>2. HooksInv /\ [Next]_vars => [A]_hookVars
  BY <1>1
<1> QED BY <1>2, InitHooksInv, NextHooksInv, PTL DEF Spec, ReplacementsAreWhole
=============================================================================
