---------------------------- MODULE ProfileProofs ----------------------------
(***************************************************************************)
(* Theorems of Profile, for any directories, places, answers, drafts,      *)
(* dispatch classes and processes.  Those about files rest on Knows: what a *)
(* command under way knows of the files that others have not changed.      *)
(* Those about ladders hold for whatever profile is loaded.                *)
(***************************************************************************)
EXTENDS Profile, FiniteSetTheorems, NaturalsInduction, WellFoundedInduction, TLAPS

Points ==
  {"idle", "reading", "swapping", "writing", "filling", "validating", "deciding",
   "planning", "merging"}

Shapes ==
  /\ DOMAIN disk = Path
  /\ pc \in [Process -> Points] /\ changed \in [Process -> SUBSET Path]
  /\ linked \in [Process -> BOOLEAN]
  /\ DOMAIN call = Process /\ DOMAIN todo = Process

\* The command at each point, and the files that it writes.
Class(i) == DispatchClasses[i]

Purpose(p) ==
  /\ pc[p] \in {"reading", "swapping"} => call[p].kind = "models" /\ call[p].at \in Dir
  /\ pc[p] \in {"validating", "deciding"} => call[p].kind = "init"
  /\ pc[p] = "planning" => call[p].kind = "install"
  /\ pc[p] = "merging" => call[p].kind = "hermes"
  /\ pc[p] \in {"writing", "filling"} => call[p].kind \in {"init", "install", "hermes"}
  /\ pc[p] = "swapping" =>
       DOMAIN todo[p] = {1} /\ todo[p][1][1] = ProfileAt(call[p].at)
  /\ pc[p] \in {"writing", "filling"} =>
       /\ DOMAIN todo[p] \subseteq Nat /\ DOMAIN todo[p] # {}
       /\ call[p].kind = "init" => DOMAIN todo[p] = {1}
       /\ \A i \in DOMAIN todo[p] :
            /\ call[p].kind = "init" => todo[p][i][1] \in {InitCheck, ProfileAt(Home)}
            /\ call[p].kind = "hermes" => todo[p][i][1] = HermesConfig
            /\ call[p].kind = "install" =>
                 i \in DOMAIN DispatchClasses /\ todo[p][i][1] = AgentPath(Class(i))

\* A file that is open is the one that was truncated and still empty, unless others
\* changed it; and whoever writes one by hand takes its name away from the writer.
KnowsFile(p) ==
  LET path == NextFile(p)[1]
  IN  pc[p] = "filling" =>
        /\ path \notin changed[p] =>
             disk[path] = Empty /\ (path \in Agents \cup {InitCheck} => linked[p])
        /\ linked[p] /\ path \in Agents => disk[path] # HandWritten

\* What models set is about to swap in holds the answer, and rests on the profile
\* that is there, unless others changed it.
KnowsModels(p) ==
  /\ call[p].tier \in ModelTiers
  /\ pc[p] = "swapping" =>
       /\ todo[p][1][2].models[call[p].tier] = call[p].entry
       /\ ProfileAt(call[p].at) \notin changed[p] =>
            todo[p][1][2] = Patched(disk[ProfileAt(call[p].at)], call[p].tier, call[p].entry)

\* The draft that init validates is its own, and what it writes can be loaded,
\* unless others changed the file that it validated.
KnowsInit(p) ==
  LET text == NewProfile(call[p].draft)
  IN  /\ pc[p] \in {"writing", "filling"} =>
           \A i \in DOMAIN todo[p] :
             /\ todo[p][i][2] = text
             /\ todo[p][i][1] # InitCheck => InitCheck \in changed[p] \/ Loads(text)
      /\ pc[p] = "validating" => InitCheck \in changed[p] \/ disk[InitCheck] = text
      /\ pc[p] = "deciding" => InitCheck \in changed[p] \/ Loads(text)

\* No file that install found there by hand is to be written; and unless others
\* changed a profile, each planned agent is on disk, changed, or still to be written.
KnowsInstall(p) ==
  LET c == Loaded(call[p].where)
  IN  /\ call[p].where \in Where
      /\ pc[p] \in {"writing", "filling"} =>
           /\ \A i \in DOMAIN todo[p] :
                /\ todo[p][i][2] # HandWritten
                /\ AgentPath(Class(i)) \in changed[p] \/ disk[AgentPath(Class(i))] # HandWritten
           /\ changed[p] \cap Profiles = {} =>
                /\ \A i \in DOMAIN todo[p] : todo[p][i][2] = Planned(c, Class(i))
                /\ \A i \in DOMAIN DispatchClasses :
                     \/ Planned(c, Class(i)) = NoFile
                     \/ AgentPath(Class(i)) \in changed[p]
                     \/ disk[AgentPath(Class(i))] = Planned(c, Class(i))
                     \/ \E j \in DOMAIN todo[p] : Class(j) = Class(i)

Knows(p) ==
  /\ KnowsFile(p)
  /\ (~Idle(p) /\ call[p].kind = "models") => KnowsModels(p)
  /\ (~Idle(p) /\ call[p].kind = "init") => KnowsInit(p)
  /\ (~Idle(p) /\ call[p].kind = "install") => KnowsInstall(p)

Inv == Shapes /\ \A p \in Process : Purpose(p) /\ Knows(p)
-----------------------------------------------------------------------------
(***************************************************************************)
(* Files and their places.                                                 *)
(***************************************************************************)
LEMMA PathsDiffer ==
  ASSUME NEW d \in Dir, NEW c \in DispatchClass
  PROVE  /\ ProfileAt(d) \in Profiles /\ AgentPath(c) \in Agents
         /\ ProfileAt(d) # AgentPath(c) /\ ProfileAt(d) # InitCheck
         /\ ProfileAt(d) # HermesConfig /\ AgentPath(c) # InitCheck
         /\ AgentPath(c) # HermesConfig /\ InitCheck # HermesConfig
         /\ {ProfileAt(d), AgentPath(c), InitCheck, HermesConfig} \subseteq Path
         /\ InitCheck \notin Profiles /\ HermesConfig \notin Profiles
         /\ AgentPath(c) \notin Profiles
         /\ ProfileAt(d) \notin Agents /\ InitCheck \notin Agents /\ HermesConfig \notin Agents
BY DEF ProfileAt, AgentPath, InitCheck, HermesConfig, Profiles, Agents, Path

LEMMA SamePlaces ==
  /\ \A c, e : AgentPath(c) = AgentPath(e) <=> c = e
  /\ \A c, e : ProfileAt(c) = ProfileAt(e) <=> c = e
  /\ \A a \in Agents : \E c \in DispatchClass : a = AgentPath(c)
  /\ \A a \in Profiles : \E d \in Dir : a = ProfileAt(d)
BY DEF ProfileAt, AgentPath, Agents, Profiles

LEMMA ClassIs ==
  ASSUME NEW i \in DOMAIN DispatchClasses
  PROVE  Class(i) \in DispatchClass /\ i \in Nat
BY ClassesAssumption DEF Class, DispatchClass, Range

\* A generated file is none written by hand, and neither is an empty one.
LEMMA TextsDiffer ==
  /\ \A c, class : Planned(c, class) # HandWritten /\ Planned(c, class) # Empty
  /\ Empty # HandWritten /\ Empty # NoFile /\ Garbled # NoFile /\ Unmarked(HandWritten)
BY DEF Planned, HandWritten, Empty, NoFile, Garbled, Unmarked

Less == {x \in Nat \X Nat : x[1] < x[2]}

LEMMA LessIsWellFounded == IsWellFoundedOn(Less, Nat)
<1>1. OpToRel(<, Nat) = Less
  BY DEF OpToRel, Less
<1> QED BY <1>1, NatLessThanWellFounded

LEMMA LeastIs ==
  ASSUME NEW S \in SUBSET Nat, S # {}
  PROVE  Min(S) \in S /\ \A x \in S : Min(S) <= x
<1>1. PICK x \in S : \A y \in S : <<y, x>> \notin Less
  BY LessIsWellFounded, WFMin
<1>2. ASSUME NEW y \in S PROVE x <= y
  <2>1. x \in Nat /\ y \in Nat /\ <<y, x>> \notin Less
    BY <1>1
  <2>2. ~(y < x)
    BY <2>1 DEF Less
  <2> QED BY <2>1, <2>2
<1> QED BY <1>2 DEF Min

\* The profile that commands at a place find.
LEMMA FoundIsPlace ==
  ASSUME NEW w \in Where
  PROVE  FindProfile(w) \in Dir
<1> DEFINE searched == {i \in DOMAIN w.chain :
                          /\ \A j \in 1 .. i : w.chain[j] # Home
                          /\ \A j \in 1 .. i - 1 : w.chain[j] # w.ceiling}
           hits == {i \in searched :
                      w.chain[i] \in Dir /\ disk[ProfileAt(w.chain[i])] # NoFile}
<1>1. hits \in SUBSET Nat
  BY WhereAssumption
<1>2. \A i \in hits : w.chain[i] \in Dir
  OBVIOUS
<1>3. FindProfile(w) = IF w.override # "none" THEN w.override
                       ELSE IF hits # {} THEN w.chain[Min(hits)] ELSE Home
  BY DEF FindProfile
<1> HIDE DEF hits
<1>4. hits # {} => Min(hits) \in hits
  BY <1>1, LeastIs
<1> QED BY <1>2, <1>3, <1>4, WhereAssumption, HomeAssumption

\* A step that leaves the profiles alone changes nothing for the commands.
LEMMA SameProfiles ==
  ASSUME NEW w \in Where, \A d \in Dir : disk'[ProfileAt(d)] = disk[ProfileAt(d)]
  PROVE  FindProfile(w)' = FindProfile(w) /\ Loaded(w)' = Loaded(w)
<1> DEFINE searched == {i \in DOMAIN w.chain :
                          /\ \A j \in 1 .. i : w.chain[j] # Home
                          /\ \A j \in 1 .. i - 1 : w.chain[j] # w.ceiling}
           Hits(f) == {i \in searched : w.chain[i] \in Dir /\ f[ProfileAt(w.chain[i])] # NoFile}
<1>1. Hits(disk') = Hits(disk)
  OBVIOUS
<1>2. /\ FindProfile(w) = IF w.override # "none" THEN w.override
                          ELSE IF Hits(disk) # {} THEN w.chain[Min(Hits(disk))] ELSE Home
      /\ FindProfile(w)' = IF w.override # "none" THEN w.override
                           ELSE IF Hits(disk') # {} THEN w.chain[Min(Hits(disk'))] ELSE Home
  BY DEF FindProfile
<1>3. FindProfile(w)' = FindProfile(w)
  BY <1>1, <1>2
<1>4. FileFor(w)' = FileFor(w)
  BY <1>3, FoundIsPlace DEF FileFor
<1> QED BY <1>3, <1>4 DEF Loaded

\* A profile written where the commands at a place look, or where they would look
\* for want of another, is the one they find there afterwards.
LEMMA FoundAgain ==
  ASSUME NEW w \in Where, NEW text, text # NoFile, DOMAIN disk = Path,
         disk' = [disk EXCEPT ![ProfileAt(FindProfile(w))] = text]
  PROVE  Loaded(w)' = text
<1> DEFINE searched == {i \in DOMAIN w.chain :
                          /\ \A j \in 1 .. i : w.chain[j] # Home
                          /\ \A j \in 1 .. i - 1 : w.chain[j] # w.ceiling}
           Hits(f) == {i \in searched : w.chain[i] \in Dir /\ f[ProfileAt(w.chain[i])] # NoFile}
           at == FindProfile(w)
<1>1. /\ at = IF w.override # "none" THEN w.override
              ELSE IF Hits(disk) # {} THEN w.chain[Min(Hits(disk))] ELSE Home
      /\ FindProfile(w)' = IF w.override # "none" THEN w.override
                           ELSE IF Hits(disk') # {} THEN w.chain[Min(Hits(disk'))] ELSE Home
  BY DEF FindProfile
<1>2. at \in Dir
  BY FoundIsPlace
<1>3. /\ disk'[ProfileAt(at)] = text
      /\ \A d \in Dir \ {at} : disk'[ProfileAt(d)] = disk[ProfileAt(d)]
  <2>1. \A d \in Dir : ProfileAt(d) \in Path /\ (d # at => ProfileAt(d) # ProfileAt(at))
    BY SamePlaces DEF ProfileAt, Profiles, Path
  <2> QED BY <1>2, <2>1
<1>4. \A i \in searched : w.chain[i] # Home
  BY WhereAssumption
<1>5. Hits(disk) # {} => Min(Hits(disk)) \in Hits(disk)
  <2>1. Hits(disk) \in SUBSET Nat
    BY WhereAssumption
  <2> QED BY <2>1, LeastIs
<1>6. CASE w.override = "none"
  <2>1. CASE Hits(disk) # {}
    <3>1. \A i \in searched : w.chain[i] = at => i \in Hits(disk)
      BY <1>1, <1>5, <1>6, <2>1
    <3>2. Hits(disk') = Hits(disk)
      BY <1>2, <1>3, <3>1
    <3> QED BY <1>1, <1>3, <2>1, <3>2 DEF Loaded, FileFor
  <2>2. CASE Hits(disk) = {}
    <3>1. at = Home
      BY <1>1, <1>6, <2>2
    <3>2. Hits(disk') = Hits(disk)
      BY <1>3, <1>4, <3>1
    <3> QED BY <1>1, <1>3, <1>6, <2>2, <3>2 DEF Loaded, FileFor
  <2> QED BY <2>1, <2>2
<1>7. CASE w.override # "none"
  BY <1>1, <1>3, <1>7 DEF Loaded, FileFor
<1> QED BY <1>6, <1>7
-----------------------------------------------------------------------------
(***************************************************************************)
(* Steps of a process, calls and edits.                                    *)
(***************************************************************************)
\* What the step of somebody else leaves of a process, and tells it.
Bystander(q) ==
  /\ pc'[q] = pc[q] /\ call'[q] = call[q] /\ todo'[q] = todo[q]
  /\ changed'[q] = IF Idle(q) THEN {} ELSE changed[q] \cup {f \in Path : disk'[f] # disk[f]}
  /\ LET path == NextFile(q)[1]
     IN  pc[q] = "filling" =>
           /\ linked'[q] => linked[q]
           /\ path \in Agents \cup {InitCheck} => linked'[q] = linked[q] \/ disk'[path] # Empty
           /\ linked'[q] /\ path \in Agents =>
                disk'[path] = disk[path] \/ disk'[path] # HandWritten

LEMMA NextIs ==
  ASSUME Inv, NEW p \in Process, pc[p] \in {"writing", "filling"}
  PROVE  /\ Turn(p) \in DOMAIN todo[p] /\ NextFile(p) = todo[p][Turn(p)]
         /\ NextFile(p)[1] \in Path
         /\ call[p].kind \in {"init", "install", "hermes"}
         /\ call[p].kind = "init" => NextFile(p)[1] \in {InitCheck, ProfileAt(Home)}
         /\ call[p].kind = "hermes" => NextFile(p)[1] = HermesConfig
         /\ call[p].kind = "install" =>
              /\ Turn(p) \in DOMAIN DispatchClasses
              /\ NextFile(p)[1] = AgentPath(Class(Turn(p))) /\ NextFile(p)[1] \in Agents
<1>1. Purpose(p)
  BY DEF Inv
<1>2. DOMAIN todo[p] \in SUBSET Nat /\ DOMAIN todo[p] # {}
  BY <1>1 DEF Purpose
<1>3. Turn(p) \in DOMAIN todo[p] /\ NextFile(p) = todo[p][Turn(p)]
  BY <1>2, LeastIs DEF Turn, NextFile
<1>4. call[p].kind = "install" =>
        /\ Turn(p) \in DOMAIN DispatchClasses
        /\ NextFile(p)[1] = AgentPath(Class(Turn(p))) /\ NextFile(p)[1] \in Agents
  <2>1. call[p].kind = "install" => Turn(p) \in DOMAIN DispatchClasses
          /\ NextFile(p)[1] = AgentPath(Class(Turn(p)))
    BY <1>1, <1>3 DEF Purpose
  <2> QED BY <2>1, ClassIs DEF AgentPath, Agents
<1>5. /\ call[p].kind \in {"init", "install", "hermes"}
      /\ call[p].kind = "init" => NextFile(p)[1] \in {InitCheck, ProfileAt(Home)}
      /\ call[p].kind = "hermes" => NextFile(p)[1] = HermesConfig
  BY <1>1, <1>3 DEF Purpose
<1>6. {InitCheck, ProfileAt(Home), HermesConfig} \cup Agents \subseteq Path
  BY HomeAssumption DEF Path, Profiles, ProfileAt
<1> QED BY <1>3, <1>4, <1>5, <1>6

\* A bystander knows what it knew: what has changed, it is told.
LEMMA BystanderInv ==
  ASSUME Inv, NEW q \in Process, Bystander(q)
  PROVE  Purpose(q)' /\ Knows(q)'
<1>1. Purpose(q) /\ Knows(q) /\ DOMAIN disk = Path
  BY DEF Inv, Shapes
<1>2. /\ pc'[q] = pc[q] /\ call'[q] = call[q] /\ todo'[q] = todo[q]
      /\ Idle(q)' = Idle(q) /\ NextFile(q)' = NextFile(q) /\ Turn(q)' = Turn(q)
      /\ ~Idle(q) => changed'[q] = changed[q] \cup {f \in Path : disk'[f] # disk[f]}
  BY DEF Bystander, Idle, NextFile, Turn
<1>3. Purpose(q)'
  BY <1>1, <1>2 DEF Purpose
<1>4. ~Idle(q) => \A f \in Path : f \notin changed'[q] => f \notin changed[q] /\ disk'[f] = disk[f]
  BY <1>2
<1>5. KnowsFile(q)'
  <2> DEFINE path == NextFile(q)[1]
  <2> SUFFICES ASSUME pc[q] = "filling"
               PROVE  /\ path \notin changed'[q] =>
                           /\ disk'[path] = Empty
                           /\ path \in Agents \cup {InitCheck} => linked'[q]
                      /\ linked'[q] /\ path \in Agents => disk'[path] # HandWritten
    BY <1>2 DEF KnowsFile
  <2>1. path \in Path /\ ~Idle(q)
    BY NextIs DEF Idle
  <2>2. /\ path \notin changed[q] =>
             disk[path] = Empty /\ (path \in Agents \cup {InitCheck} => linked[q])
        /\ linked[q] /\ path \in Agents => disk[path] # HandWritten
    BY <1>1 DEF Knows, KnowsFile
  <2>3. /\ linked'[q] => linked[q]
        /\ path \in Agents \cup {InitCheck} => linked'[q] = linked[q] \/ disk'[path] # Empty
        /\ linked'[q] /\ path \in Agents => disk'[path] = disk[path] \/ disk'[path] # HandWritten
    BY DEF Bystander
  <2> HIDE DEF path
  <2> QED BY <1>4, <2>1, <2>2, <2>3
<1>6. ASSUME ~Idle(q), call[q].kind = "models" PROVE KnowsModels(q)'
  <2>1. KnowsModels(q)
    BY <1>1, <1>6 DEF Knows
  <2>2. pc[q] = "swapping" => ProfileAt(call[q].at) \in Path
    BY <1>1 DEF Purpose, ProfileAt, Profiles, Path
  <2>3. pc[q] = "swapping" /\ ProfileAt(call[q].at) \notin changed'[q] =>
          /\ ProfileAt(call[q].at) \notin changed[q]
          /\ disk'[ProfileAt(call[q].at)] = disk[ProfileAt(call[q].at)]
    BY <1>4, <1>6, <2>2
  <2> QED BY <1>2, <2>1, <2>3 DEF KnowsModels, Patched, NewProfile, Placeholder, ProfileAt
<1>7. ASSUME ~Idle(q), call[q].kind = "init" PROVE KnowsInit(q)'
  <2>1. KnowsInit(q) /\ InitCheck \in Path
    BY <1>1, <1>7 DEF Knows, Path
  <2>2. InitCheck \notin changed'[q] => InitCheck \notin changed[q] /\ disk'[InitCheck] = disk[InitCheck]
    BY <1>4, <1>7, <2>1
  <2> QED BY <1>2, <2>1, <2>2 DEF KnowsInit, NewProfile, InitCheck, Loads
<1>8. ASSUME ~Idle(q), call[q].kind = "install" PROVE KnowsInstall(q)'
  <2> DEFINE c == Loaded(call[q].where)
  <2>1. KnowsInstall(q)
    BY <1>1, <1>8 DEF Knows
  <2>2. changed'[q] \cap Profiles = {} => changed[q] \cap Profiles = {} /\ c' = c
    <3> SUFFICES ASSUME changed'[q] \cap Profiles = {}
                 PROVE  changed[q] \cap Profiles = {} /\ c' = c
      OBVIOUS
    <3>1. \A d \in Dir : ProfileAt(d) \in Path /\ ProfileAt(d) \in Profiles
      BY DEF ProfileAt, Profiles, Path
    <3>2. \A d \in Dir : disk'[ProfileAt(d)] = disk[ProfileAt(d)]
      BY <1>4, <1>8, <3>1
    <3>3. changed[q] \subseteq changed'[q]
      BY <1>2, <1>8
    <3>4. PICK w \in Where : call[q].where = w
      BY <2>1 DEF KnowsInstall
    <3>5. Loaded(w)' = Loaded(w)
      BY <3>2, SameProfiles
    <3>6. c' = Loaded(w)' /\ c = Loaded(w)
      BY <1>2, <3>4
    <3> QED BY <3>3, <3>5, <3>6
  <2>3. \A i \in DOMAIN DispatchClasses : AgentPath(Class(i)) \in Path
    BY ClassIs, HomeAssumption, PathsDiffer
  <2>4. \A i \in DOMAIN DispatchClasses :
          AgentPath(Class(i)) \notin changed'[q] =>
            /\ AgentPath(Class(i)) \notin changed[q]
            /\ disk'[AgentPath(Class(i))] = disk[AgentPath(Class(i))]
    BY <1>4, <1>8, <2>3
  <2>5. pc[q] \in {"writing", "filling"} => \A i \in DOMAIN todo[q] : i \in DOMAIN DispatchClasses
    BY <1>1, <1>8 DEF Purpose
  <2>6. /\ call[q].where \in Where
        /\ pc[q] \in {"writing", "filling"} =>
             /\ \A i \in DOMAIN todo[q] :
                  /\ todo[q][i][2] # HandWritten
                  /\ AgentPath(Class(i)) \in changed[q] \/ disk[AgentPath(Class(i))] # HandWritten
             /\ changed[q] \cap Profiles = {} =>
                  /\ \A i \in DOMAIN todo[q] : todo[q][i][2] = Planned(c, Class(i))
                  /\ \A i \in DOMAIN DispatchClasses :
                       \/ Planned(c, Class(i)) = NoFile
                       \/ AgentPath(Class(i)) \in changed[q]
                       \/ disk[AgentPath(Class(i))] = Planned(c, Class(i))
                       \/ \E j \in DOMAIN todo[q] : Class(j) = Class(i)
    BY <2>1 DEF KnowsInstall
  <2>7. c' = Loaded(call[q].where)'
    OBVIOUS
  <2> HIDE DEF c
  <2>8. pc[q] \in {"writing", "filling"} =>
             /\ \A i \in DOMAIN todo[q] :
                  /\ todo[q][i][2] # HandWritten
                  /\ AgentPath(Class(i)) \in changed'[q] \/ disk'[AgentPath(Class(i))] # HandWritten
             /\ changed'[q] \cap Profiles = {} =>
                  /\ \A i \in DOMAIN todo[q] : todo[q][i][2] = Planned(c', Class(i))
                  /\ \A i \in DOMAIN DispatchClasses :
                       \/ Planned(c', Class(i)) = NoFile
                       \/ AgentPath(Class(i)) \in changed'[q]
                       \/ disk'[AgentPath(Class(i))] = Planned(c', Class(i))
                       \/ \E j \in DOMAIN todo[q] : Class(j) = Class(i)
    BY <2>2, <2>4, <2>5, <2>6
  <2> QED BY <1>2, <2>6, <2>7, <2>8 DEF KnowsInstall, Class
<1> QED BY <1>2, <1>3, <1>5, <1>6, <1>7, <1>8 DEF Knows

\* What a step that only one process takes does to the others, by what it writes.
Others(p) ==
  \A q \in Process \ {p} :
    pc'[q] = pc[q] /\ call'[q] = call[q] /\ todo'[q] = todo[q]

LEMMA StepInv ==
  ASSUME Inv, NEW p \in Process, Shapes', Purpose(p)', Knows(p)',
         \A q \in Process \ {p} : Bystander(q)
  PROVE  Inv'
<1>1. \A q \in Process \ {p} : Purpose(q)' /\ Knows(q)'
  BY BystanderInv
<1> QED BY <1>1 DEF Inv

LEMMA NotedIs ==
  ASSUME Inv, Noted
  PROVE  /\ changed' \in [Process -> SUBSET Path]
         /\ \A q \in Process : pc'[q] = pc[q] =>
              changed'[q] = IF Idle(q) THEN {}
                            ELSE changed[q] \cup {f \in Path : disk'[f] # disk[f]}
BY DEF Noted, Inv, Shapes, Idle

\* A step of one process that writes nothing.
LEMMA StillInv ==
  ASSUME Inv, NEW p \in Process, Others(p), Noted, UNCHANGED disk,
         \A q \in Process \ {p} : linked'[q] = linked[q],
         Shapes', Purpose(p)', Knows(p)'
  PROVE  Inv'
<1>1. \A q \in Process \ {p} : Bystander(q)
  BY NotedIs DEF Others, Bystander
<1> QED BY <1>1, StepInv

LEMMA EndInv ==
  ASSUME Inv, NEW p \in Process, End(p), Noted, DOMAIN disk' = Path,
         linked' \in [Process -> BOOLEAN], \A q \in Process \ {p} : Bystander(q)
  PROVE  Inv'
<1>1. Shapes' /\ pc'[p] = "idle"
  BY NotedIs DEF Inv, Shapes, End, Points
<1>2. Purpose(p)' /\ Knows(p)'
  BY <1>1 DEF Purpose, Knows, KnowsFile, Idle
<1> QED BY <1>1, <1>2, StepInv

\* A command that ends without a write.
LEMMA ReturnInv ==
  ASSUME Inv, NEW p \in Process, End(p), Noted, UNCHANGED disk,
         linked' \in [Process -> BOOLEAN], \A q \in Process \ {p} : linked'[q] = linked[q]
  PROVE  Inv'
<1>1. \A q \in Process \ {p} : Bystander(q)
  BY NotedIs DEF End, Bystander, Inv, Shapes
<1> QED BY <1>1, EndInv DEF Inv, Shapes

\* A command that goes on without a write.
LEMMA GoneInv ==
  ASSUME Inv, NEW p \in Process, NEW at \in Points, Goto(p, at), Noted,
         UNCHANGED <<disk, linked>>, DOMAIN todo' = Process,
         \A q \in Process \ {p} : todo'[q] = todo[q], Purpose(p)', Knows(p)'
  PROVE  Inv'
<1>1. Shapes' /\ Others(p)
  BY NotedIs DEF Inv, Shapes, Goto, Others
<1> QED BY <1>1, StillInv

LEMMA CallInv ==
  ASSUME Inv, NEW p \in Process, NEW c, NEW at \in Points, Begin(p, c, at), Noted,
         UNCHANGED <<disk, linked>>, DOMAIN todo' = Process,
         \A q \in Process \ {p} : todo'[q] = todo[q], at \notin {"idle", "filling"},
         Purpose(p)', c.kind = "models" => KnowsModels(p)', c.kind = "init" => KnowsInit(p)',
         c.kind = "install" => KnowsInstall(p)'
  PROVE  Inv'
<1>1. pc' = [pc EXCEPT ![p] = at] /\ call' = [call EXCEPT ![p] = c]
  BY DEF Begin
<1>2. Shapes' /\ pc'[p] = at /\ call'[p] = c /\ Others(p)
  BY <1>1, NotedIs DEF Inv, Shapes, Others
<1>3. Knows(p)'
  BY <1>2 DEF Knows, KnowsFile
<1> QED BY <1>2, <1>3, StillInv

LEMMA SaveInv ==
  ASSUME Inv, NEW path, NEW text, Save(path, text), path # InitCheck,
         path \in Agents => text # Empty
  PROVE  Inv'
<1>1. /\ UNCHANGED <<pc, call, todo>> /\ disk' = [disk EXCEPT ![path] = text]
      /\ linked' = Unlinked(path) /\ Noted
  BY DEF Save
<1>2. Shapes'
  BY <1>1, NotedIs DEF Inv, Shapes, Unlinked
<1>3. ASSUME NEW q \in Process PROVE Bystander(q)
  <2>1. changed'[q] = IF Idle(q) THEN {} ELSE changed[q] \cup {f \in Path : disk'[f] # disk[f]}
    BY <1>1, NotedIs
  <2>2. linked'[q] = (linked[q] /\ ~(pc[q] = "filling" /\ NextFile(q)[1] = path))
        /\ linked[q] \in BOOLEAN /\ DOMAIN disk = Path
    BY <1>1 DEF Unlinked, Inv, Shapes
  <2>3. ASSUME pc[q] = "filling", NextFile(q)[1] = path
        PROVE  ~linked'[q] /\ (path \in Agents \cup {InitCheck} => disk'[path] # Empty)
    <3>1. path \in Path
      BY <2>3, NextIs
    <3> QED BY <1>1, <2>2, <2>3, <3>1
  <2>4. ASSUME pc[q] = "filling", NextFile(q)[1] # path
        PROVE  linked'[q] = linked[q] /\ disk'[NextFile(q)[1]] = disk[NextFile(q)[1]]
    <3>1. NextFile(q)[1] \in Path
      BY <2>4, NextIs
    <3> QED BY <1>1, <2>2, <2>4, <3>1
  <2> QED BY <1>1, <2>1, <2>2, <2>3, <2>4 DEF Bystander
<1>4. \A q \in Process : Purpose(q)' /\ Knows(q)'
  BY <1>3, BystanderInv
<1> QED BY <1>2, <1>4 DEF Inv

LEMMA StayInv ==
  ASSUME Inv, UNCHANGED vars
  PROVE  Inv'
<1>1. Shapes'
  BY DEF Inv, Shapes, vars
<1>2. ASSUME NEW p \in Process PROVE Purpose(p)' /\ Knows(p)'
  <2>1. Purpose(p) /\ Knows(p)
    BY DEF Inv
  <2>2. Purpose(p)' /\ KnowsFile(p)'
    BY <2>1 DEF Purpose, Knows, KnowsFile, NextFile, Turn, vars
  <2>3. (KnowsModels(p) => KnowsModels(p)') /\ (KnowsInit(p) => KnowsInit(p)')
        /\ (KnowsInstall(p) => KnowsInstall(p)')
    BY SameProfiles DEF vars, KnowsModels, KnowsInit, KnowsInstall
  <2> QED BY <2>1, <2>2, <2>3 DEF Knows, Idle, vars
<1> QED BY <1>1, <1>2 DEF Inv

LEMMA InitInv == Init => Inv
<1> SUFFICES ASSUME Init PROVE Inv
  OBVIOUS
<1>1. Shapes
  BY DisksAssumption DEF Init, Shapes, Points
<1>2. \A p \in Process : Purpose(p) /\ Knows(p)
  BY DEF Init, Purpose, Knows, KnowsFile, Idle
<1> QED BY <1>1, <1>2 DEF Inv
-----------------------------------------------------------------------------
(***************************************************************************)
(* models set.                                                             *)
(***************************************************************************)
LEMMA CallModelsSetInv ==
  ASSUME Inv, NEW p \in Process, CallModelsSet(p)
  PROVE  Inv'
<1>1. PICK w \in Where, t \in ModelTiers, e \in Entries \cup {Placeholder} :
        /\ Begin(p, [kind |-> "models", at |-> FindProfile(w), tier |-> t, entry |-> e],
                 "reading")
        /\ UNCHANGED <<disk, todo, linked>> /\ Noted
  BY DEF CallModelsSet
<1> DEFINE c == [kind |-> "models", at |-> FindProfile(w), tier |-> t, entry |-> e]
<1>2. pc'[p] = "reading" /\ call'[p] = c
  BY <1>1 DEF Begin, Inv, Shapes
<1>3. c.kind = "models" /\ c.at \in Dir /\ c.tier = t
  BY FoundIsPlace
<1>4. Purpose(p)' /\ KnowsModels(p)'
  BY <1>2, <1>3 DEF Purpose, KnowsModels
<1>5. DOMAIN todo' = Process /\ "reading" \in Points
  BY <1>1 DEF Inv, Shapes, Points
<1> HIDE DEF c
<1> QED BY <1>1, <1>3, <1>4, <1>5, CallInv DEF c

LEMMA ModelsReadInv ==
  ASSUME Inv, NEW p \in Process, ModelsRead(p)
  PROVE  Inv'
<1> DEFINE path == ProfileAt(call[p].at)
           text == Patched(disk[path], call[p].tier, call[p].entry)
<1>1. pc[p] = "reading" /\ ~Idle(p) /\ UNCHANGED <<disk, calls>> /\ Noted /\ Purpose(p) /\ Knows(p)
  BY DEF ModelsRead, Inv, Idle
<1>2. CASE Return(p)
  BY <1>1, <1>2, ReturnInv DEF Return, Inv, Shapes
<1>3. CASE /\ todo' = [todo EXCEPT ![p] = <<<<path, text>>>>]
           /\ Goto(p, "swapping") /\ UNCHANGED linked
  <2>1. /\ pc'[p] = "swapping" /\ UNCHANGED call
        /\ todo'[p] = <<<<path, text>>>> /\ DOMAIN todo' = Process
    BY <1>3 DEF Goto, Inv, Shapes
  <2>2. DOMAIN todo'[p] = {1} /\ todo'[p][1][1] = path /\ todo'[p][1][2] = text
    BY <2>1
  <2>3. call[p].kind = "models" /\ call[p].at \in Dir
    BY <1>1 DEF Purpose
  <2>4. Purpose(p)'
    BY <2>1, <2>2, <2>3 DEF Purpose, ProfileAt
  <2>5. KnowsModels(p)'
    <3>1. call[p].tier \in ModelTiers
      BY <1>1, <2>3 DEF Knows, KnowsModels
    <3>2. text.models[call[p].tier] = call[p].entry
      BY <3>1 DEF Patched
    <3>3. text' = text
      BY <1>1, <2>1 DEF Patched, NewProfile, ProfileAt, Placeholder
    <3> HIDE DEF text
    <3>4. todo'[p][1][2] = Patched(disk[ProfileAt(call[p].at)], call[p].tier, call[p].entry)'
      BY <2>2, <3>3 DEF text
    <3> QED BY <1>1, <2>1, <2>2, <3>1, <3>2, <3>4 DEF KnowsModels
  <2>6. Knows(p)'
    BY <2>1, <2>3, <2>5 DEF Knows, KnowsFile
  <2> QED BY <1>1, <1>3, <2>1, <2>4, <2>6, GoneInv DEF Inv, Shapes, Points
<1> QED BY <1>1, <1>2, <1>3 DEF ModelsRead

LEMMA SwapIs ==
  ASSUME Inv, NEW p \in Process, pc[p] = "swapping"
  PROVE  /\ NextFile(p) = todo[p][1] /\ NextFile(p)[1] = ProfileAt(call[p].at)
         /\ call[p].at \in Dir /\ NextFile(p)[1] \in Profiles /\ NextFile(p)[1] \in Path
         /\ call[p].kind = "models" /\ KnowsModels(p)
<1>1. /\ DOMAIN todo[p] = {1} /\ todo[p][1][1] = ProfileAt(call[p].at)
      /\ call[p].kind = "models" /\ call[p].at \in Dir
  BY DEF Inv, Purpose
<1>2. NextFile(p) = todo[p][1]
  <2>1. Turn(p) \in {1}
    BY <1>1, LeastIs DEF Turn
  <2> QED BY <2>1 DEF NextFile
<1>3. KnowsModels(p)
  BY <1>1 DEF Inv, Knows, Idle
<1> QED BY <1>1, <1>2, <1>3 DEF ProfileAt, Profiles, Path

LEMMA NotAgents ==
  /\ Profiles \cap (Agents \cup {InitCheck, HermesConfig}) = {}
  /\ InitCheck \notin Agents /\ HermesConfig \notin Agents
<1>1. /\ \A f \in Profiles : f.kind = "profile"
      /\ \A f \in Agents : f.kind = "agent"
      /\ InitCheck.kind = "init-check" /\ HermesConfig.kind = "hermes"
  BY DEF Profiles, Agents, InitCheck, HermesConfig
<1>2. \A f \in Profiles : f \notin Agents /\ f # InitCheck /\ f # HermesConfig
  BY <1>1
<1>3. InitCheck \notin Agents /\ HermesConfig \notin Agents
  BY <1>1
<1> QED BY <1>2, <1>3

LEMMA ModelsSwapInv ==
  ASSUME Inv, NEW p \in Process, ModelsSwap(p)
  PROVE  Inv'
<1> DEFINE path == NextFile(p)[1]
<1>1. pc[p] = "swapping" /\ End(p) /\ Noted /\ path \in Profiles
  BY SwapIs DEF ModelsSwap
<1>2. CASE UNCHANGED <<disk, linked>>
  BY <1>1, <1>2, ReturnInv DEF Inv, Shapes
<1>3. CASE /\ disk' = [disk EXCEPT ![path] = NextFile(p)[2]] /\ linked' = Unlinked(path)
  <2>1. DOMAIN disk' = Path /\ linked' \in [Process -> BOOLEAN]
    BY <1>3 DEF Inv, Shapes, Unlinked
  <2>2. ASSUME NEW q \in Process \ {p} PROVE Bystander(q)
    <3>1. linked'[q] = (linked[q] /\ ~(pc[q] = "filling" /\ NextFile(q)[1] = path))
          /\ linked[q] \in BOOLEAN
      BY <1>3 DEF Unlinked, Inv, Shapes
    <3>2. pc'[q] = pc[q] /\ call'[q] = call[q] /\ todo'[q] = todo[q]
      BY <1>1 DEF End, Inv, Shapes
    <3>3. NextFile(q)[1] \in Agents \cup {InitCheck} => NextFile(q)[1] # path
      BY <1>1, NotAgents
    <3>4. NextFile(q)[1] # path => disk'[NextFile(q)[1]] = disk[NextFile(q)[1]]
      <4> DEFINE other == NextFile(q)[1]
      <4> HIDE DEF other, path
      <4>1. other # path => disk'[other] = disk[other]
        <5>1. other \in DOMAIN disk \/ other \notin DOMAIN disk
          OBVIOUS
        <5> QED BY <1>3, <5>1
      <4> QED BY <4>1 DEF other
    <3>5. changed'[q] = IF Idle(q) THEN {} ELSE changed[q] \cup {f \in Path : disk'[f] # disk[f]}
      BY <1>1, <3>2, NotedIs
    <3> HIDE DEF path
    <3> QED BY <3>1, <3>2, <3>3, <3>4, <3>5 DEF Bystander
  <2> QED BY <1>1, <2>1, <2>2, EndInv
<1> QED BY <1>2, <1>3 DEF ModelsSwap
-----------------------------------------------------------------------------
(***************************************************************************)
(* Writing a file: open truncates it, close fills it.                      *)
(***************************************************************************)
\* What a step that writes to a file under way does to the others.
LEMMA WritesBy ==
  ASSUME Inv, NEW p \in Process, Others(p), Noted, NEW path \in Path, NEW text,
         disk' = disk \/ disk' = [disk EXCEPT ![path] = text],
         path \in Agents => text # HandWritten,
         linked' = [linked EXCEPT ![p] = TRUE]
  PROVE  \A q \in Process \ {p} : Bystander(q)
<1> SUFFICES ASSUME NEW q \in Process \ {p} PROVE Bystander(q)
  OBVIOUS
<1>1. linked'[q] = linked[q]
  BY DEF Inv, Shapes
<1>2. pc'[q] = pc[q] /\ call'[q] = call[q] /\ todo'[q] = todo[q]
  BY DEF Others
<1>3. changed'[q] = IF Idle(q) THEN {} ELSE changed[q] \cup {f \in Path : disk'[f] # disk[f]}
  BY <1>2, NotedIs
<1>4. \A f \in Agents : disk'[f] = disk[f] \/ disk'[f] # HandWritten
  <2>1. Agents \subseteq Path /\ DOMAIN disk = Path
    BY DEF Path, Inv, Shapes
  <2> QED BY <2>1
<1> QED BY <1>1, <1>2, <1>3, <1>4 DEF Bystander

\* What an install knows survives a write to the file whose turn it is.
LEMMA AgentsLeft ==
  ASSUME Inv, NEW p \in Process, pc[p] \in {"writing", "filling"},
         call[p].kind = "install", NEW text,
         disk' = disk \/ disk' = [disk EXCEPT ![NextFile(p)[1]] = text],
         text # HandWritten, UNCHANGED call
  PROVE  /\ Loaded(call[p].where)' = Loaded(call[p].where)
         /\ \A i \in DOMAIN DispatchClasses :
              disk'[AgentPath(Class(i))] = HandWritten => disk[AgentPath(Class(i))] = HandWritten
         /\ \A i \in DOMAIN DispatchClasses :
              Class(i) # Class(Turn(p)) => disk'[AgentPath(Class(i))] = disk[AgentPath(Class(i))]
<1> DEFINE k == Turn(p)
<1>1. /\ k \in DOMAIN todo[p] /\ k \in DOMAIN DispatchClasses /\ NextFile(p) = todo[p][k]
      /\ NextFile(p)[1] = AgentPath(Class(k)) /\ DOMAIN disk = Path
      /\ AgentPath(Class(k)) \in Path
  BY NextIs DEF Inv, Shapes
<1>2. \A i \in DOMAIN DispatchClasses : AgentPath(Class(i)) \in Path
  BY ClassIs, HomeAssumption, PathsDiffer
<1>3. \A i \in DOMAIN DispatchClasses :
        disk'[AgentPath(Class(i))] = disk[AgentPath(Class(i))]
          \/ (Class(i) = Class(k) /\ disk'[AgentPath(Class(i))] = text)
  BY <1>1, <1>2, SamePlaces
<1>4. \A d \in Dir : disk'[ProfileAt(d)] = disk[ProfileAt(d)]
  <2>1. \A d \in Dir : ProfileAt(d) # AgentPath(Class(k)) /\ ProfileAt(d) \in Path
    BY <1>1, ClassIs, PathsDiffer
  <2> QED BY <1>1, <2>1
<1>5. PICK w \in Where : call[p].where = w
  BY DEF Inv, Knows, KnowsInstall, Idle
<1>6. Loaded(w)' = Loaded(w)
  BY <1>4, SameProfiles
<1> QED BY <1>3, <1>5, <1>6

LEMMA TruncateInv ==
  ASSUME Inv, NEW p \in Process, Truncate(p)
  PROVE  Inv'
<1> DEFINE path == NextFile(p)[1]
<1>1. /\ pc[p] = "writing" /\ ~Idle(p) /\ UNCHANGED <<call, todo>> /\ Noted
      /\ disk' = [disk EXCEPT ![path] = Empty]
      /\ linked' = [linked EXCEPT ![p] = TRUE] /\ pc' = [pc EXCEPT ![p] = "filling"]
  BY DEF Truncate, Idle
<1>2. Shapes' /\ Others(p) /\ pc'[p] = "filling" /\ linked'[p] = TRUE /\ Purpose(p) /\ Knows(p)
  BY <1>1, NotedIs DEF Inv, Shapes, Others, Points
<1>3. Purpose(p)'
  BY <1>1, <1>2 DEF Purpose
<1>4. path \in Path /\ path' = path /\ disk'[path] = Empty /\ DOMAIN disk = Path
  <2>1. path \in Path /\ DOMAIN disk = Path
    BY <1>1, NextIs DEF Inv, Shapes
  <2> QED BY <1>1, <2>1 DEF NextFile, Turn
<1>5. changed'[p] = changed[p] \ {path}
  BY <1>1, <1>2 DEF Noted
<1>6. KnowsFile(p)'
  <2>1. Empty # HandWritten
    BY TextsDiffer
  <2> HIDE DEF path
  <2>2. NextFile(p)[1]' = path
    BY <1>4 DEF path
  <2> QED BY <1>2, <1>4, <2>1, <2>2 DEF KnowsFile, HandWritten, Empty
<1>7. ASSUME call[p].kind = "init" PROVE KnowsInit(p)'
  <2>1. KnowsInit(p) /\ DOMAIN todo[p] = {1}
    BY <1>1, <1>2, <1>7 DEF Knows, Purpose
  <2>2. path = todo[p][1][1]
    BY <1>1, <2>1, NextIs
  <2> HIDE DEF path
  <2>3. \A i \in DOMAIN todo[p] : todo[p][i][1] # InitCheck => path # InitCheck
    BY <2>1, <2>2
  <2> QED BY <1>1, <1>2, <1>5, <2>1, <2>3 DEF KnowsInit, NewProfile, InitCheck, Loads
<1>8. ASSUME call[p].kind = "install" PROVE KnowsInstall(p)'
  <2> DEFINE c == Loaded(call[p].where)
  <2>1. KnowsInstall(p)
    BY <1>1, <1>2, <1>8 DEF Knows
  <2>2. /\ c' = c
        /\ \A i \in DOMAIN DispatchClasses :
             disk'[AgentPath(Class(i))] = HandWritten => disk[AgentPath(Class(i))] = HandWritten
        /\ \A i \in DOMAIN DispatchClasses : Class(i) # Class(Turn(p)) =>
             disk'[AgentPath(Class(i))] = disk[AgentPath(Class(i))]
    BY <1>1, <1>8, TextsDiffer, AgentsLeft
  <2>3. /\ Turn(p) \in DOMAIN todo[p] /\ path = AgentPath(Class(Turn(p))) /\ path \in Agents
        /\ \A i \in DOMAIN todo[p] : i \in DOMAIN DispatchClasses
    BY <1>1, <1>2, <1>8, NextIs DEF Purpose
  <2>4. \A i \in DOMAIN DispatchClasses :
          Class(i) # Class(Turn(p)) => AgentPath(Class(i)) # path
    BY <2>3, SamePlaces
  <2>5. changed'[p] \cap Profiles = changed[p] \cap Profiles
    BY <1>5, <2>3, NotAgents
  <2>6. c' = Loaded(call[p].where)'
    OBVIOUS
  <2> HIDE DEF c, path
  <2>7. \A i \in DOMAIN todo[p] :
          AgentPath(Class(i)) \in changed'[p] \/ disk'[AgentPath(Class(i))] # HandWritten
    <3> SUFFICES ASSUME NEW i \in DOMAIN todo[p], AgentPath(Class(i)) \notin changed'[p]
                 PROVE  disk'[AgentPath(Class(i))] # HandWritten
      OBVIOUS
    <3>1. CASE AgentPath(Class(i)) = path
      BY <1>4, <3>1, TextsDiffer
    <3>2. CASE AgentPath(Class(i)) # path
      BY <1>1, <1>5, <2>1, <2>2, <2>3, <3>2 DEF KnowsInstall
    <3> QED BY <3>1, <3>2
  <2>8. ASSUME changed[p] \cap Profiles = {}, NEW i \in DOMAIN DispatchClasses
        PROVE  \/ Planned(c, Class(i)) = NoFile
               \/ AgentPath(Class(i)) \in changed'[p]
               \/ disk'[AgentPath(Class(i))] = Planned(c, Class(i))
               \/ \E j \in DOMAIN todo[p] : Class(j) = Class(i)
    <3>1. CASE Class(i) = Class(Turn(p))
      BY <2>3, <3>1
    <3>2. CASE Class(i) # Class(Turn(p))
      BY <1>1, <1>5, <2>1, <2>2, <2>4, <2>8, <3>2 DEF KnowsInstall, c
    <3> QED BY <3>1, <3>2
  <2>9. /\ call[p].where \in Where
        /\ \A i \in DOMAIN todo[p] : todo[p][i][2] # HandWritten
        /\ changed[p] \cap Profiles = {} =>
             \A i \in DOMAIN todo[p] : todo[p][i][2] = Planned(c, Class(i))
    BY <1>1, <2>1 DEF KnowsInstall, c
  <2> QED BY <1>1, <1>2, <2>2, <2>5, <2>6, <2>7, <2>8, <2>9 DEF KnowsInstall, Class
<1>9. Knows(p)'
  BY <1>1, <1>2, <1>6, <1>7, <1>8, NextIs DEF Knows
<1>10. \A q \in Process \ {p} : Bystander(q)
  BY <1>1, <1>2, <1>4, TextsDiffer, WritesBy
<1> QED BY <1>2, <1>3, <1>9, <1>10, StepInv

\* What a process puts into a file is its own text, or two texts in one.
LEMMA Fills ==
  ASSUME Inv, NEW p \in Process, Fill(p)
  PROVE  \E t \in {NextFile(p)[2], Garbled} :
           /\ disk' = disk \/ disk' = [disk EXCEPT ![NextFile(p)[1]] = t]
           /\ NextFile(p)[1] \in Agents => t # HandWritten
           /\ disk[NextFile(p)[1]] = Empty => t = NextFile(p)[2]
           /\ linked[p] => disk' = [disk EXCEPT ![NextFile(p)[1]] = t]
           /\ linked[p] => disk'[NextFile(p)[1]] = t
<1> DEFINE path == NextFile(p)[1]
<1>1. /\ pc[p] = "filling" /\ DOMAIN disk = Path /\ path \in Path
      /\ NextFile(p) = todo[p][Turn(p)] /\ Turn(p) \in DOMAIN todo[p]
  BY NextIs DEF Fill, Inv, Shapes
<1>2. Garbled # HandWritten
  BY DEF Garbled, HandWritten
<1>3. path \in Agents => NextFile(p)[2] # HandWritten
  <2> SUFFICES ASSUME path \in Agents PROVE NextFile(p)[2] # HandWritten
    OBVIOUS
  <2>1. call[p].kind = "install"
    <3>1. InitCheck \notin Agents /\ HermesConfig \notin Agents /\ ProfileAt(Home) \notin Agents
      BY NotAgents, HomeAssumption DEF ProfileAt, Profiles
    <3> QED BY <1>1, <3>1, NextIs
  <2>2. KnowsInstall(p)
    BY <1>1, <2>1 DEF Inv, Knows, Idle
  <2> QED BY <1>1, <2>2 DEF KnowsInstall
<1>4. CASE ~linked[p]
  BY <1>3, <1>4 DEF Fill
<1>5. CASE linked[p]
  <2>1. PICK t \in IF disk[path] = Empty THEN {NextFile(p)[2]} ELSE {NextFile(p)[2], Garbled} :
          disk' = [disk EXCEPT ![path] = t]
    BY <1>5 DEF Fill
  <2> QED BY <1>1, <1>2, <1>3, <2>1
<1> QED BY <1>4, <1>5

LEMMA FillInv ==
  ASSUME Inv, NEW p \in Process, Fill(p)
  PROVE  Inv'
<1> DEFINE rest == DOMAIN todo[p] \ {Turn(p)}
           path == NextFile(p)[1]
<1>1. /\ pc[p] = "filling" /\ ~Idle(p) /\ Noted /\ linked' = [linked EXCEPT ![p] = TRUE]
      /\ Purpose(p) /\ Knows(p) /\ path \in Path
  BY NextIs DEF Fill, Idle, Inv
<1>2. PICK t \in {NextFile(p)[2], Garbled} :
        /\ disk' = disk \/ disk' = [disk EXCEPT ![path] = t]
        /\ path \in Agents => t # HandWritten
        /\ disk[path] = Empty => t = NextFile(p)[2]
        /\ linked[p] => disk' = [disk EXCEPT ![path] = t]
        /\ linked[p] => disk'[path] = t
  BY Fills
<1>3. DOMAIN disk' = Path /\ linked' \in [Process -> BOOLEAN]
  BY <1>1, <1>2 DEF Inv, Shapes
<1>4. ASSUME Others(p) PROVE \A q \in Process \ {p} : Bystander(q)
  BY <1>1, <1>2, <1>4, WritesBy
<1>5. CASE End(p)
  <2>1. Others(p)
    BY <1>5 DEF End, Others, Inv, Shapes
  <2> QED BY <1>1, <1>3, <1>4, <1>5, <2>1, EndInv
<1>6. CASE path = InitCheck /\ Goto(p, "validating") /\ UNCHANGED todo
  <2>1. pc'[p] = "validating" /\ UNCHANGED call /\ Others(p) /\ Shapes'
    BY <1>1, <1>3, <1>6, NotedIs DEF Goto, Others, Inv, Shapes, Points
  <2>2. call[p].kind = "init"
    BY <1>1, <1>6, NextIs, NotAgents DEF InitCheck, HermesConfig
  <2>3. Purpose(p)'
    BY <2>1, <2>2 DEF Purpose
  <2>4. KnowsInit(p)'
    <3>1. KnowsInit(p) /\ NextFile(p) = todo[p][Turn(p)] /\ Turn(p) \in DOMAIN todo[p]
      BY <1>1, <2>2, NextIs DEF Knows
    <3>2. NextFile(p)[2] = NewProfile(call[p].draft)
      BY <1>1, <3>1 DEF KnowsInit
    <3>3. changed'[p] = changed[p]
      BY <1>1, <2>1 DEF Noted
    <3>4. InitCheck \notin changed[p] => disk'[InitCheck] = NewProfile(call[p].draft)
      BY <1>1, <1>2, <1>6, <3>2 DEF Knows, KnowsFile
    <3> QED BY <2>1, <3>3, <3>4 DEF KnowsInit, NewProfile, InitCheck
  <2>5. Knows(p)'
    BY <2>1, <2>2, <2>4 DEF Knows, KnowsFile
  <2> QED BY <1>4, <2>1, <2>3, <2>5, StepInv
<1>7. CASE /\ DOMAIN todo[p] # {Turn(p)} /\ Goto(p, "writing")
           /\ todo' = [todo EXCEPT ![p] = Restrict(@, rest)]
  <2>1. /\ pc'[p] = "writing" /\ UNCHANGED call /\ Others(p) /\ Shapes'
        /\ todo'[p] = Restrict(todo[p], rest)
    BY <1>1, <1>3, <1>7, NotedIs DEF Goto, Others, Inv, Shapes, Points
  <2>2. /\ DOMAIN todo'[p] = rest /\ rest \subseteq DOMAIN todo[p]
        /\ \A i \in rest : todo'[p][i] = todo[p][i]
    BY <2>1 DEF Restrict
  <2>3. rest # {} /\ Turn(p) \in DOMAIN todo[p]
    BY <1>1, <1>7, NextIs
  <2>4. call[p].kind # "init"
    BY <1>1, <2>3 DEF Purpose
  <2>5. Purpose(p)'
    BY <1>1, <2>1, <2>2, <2>3, <2>4 DEF Purpose, AgentPath, HermesConfig, InitCheck, ProfileAt, Class
  <2>6. changed'[p] = changed[p]
    BY <1>1, <2>1 DEF Noted
  <2>7. ASSUME call[p].kind = "install" PROVE KnowsInstall(p)'
    <3> DEFINE c == Loaded(call[p].where)
               k == Turn(p)
    <3>1. KnowsInstall(p) /\ KnowsFile(p)
      BY <1>1, <2>7 DEF Knows
    <3>2. path = AgentPath(Class(k)) /\ path \in Agents /\ NextFile(p) = todo[p][k]
          /\ \A i \in DOMAIN todo[p] : i \in DOMAIN DispatchClasses
      BY <1>1, <2>7, NextIs DEF Purpose
    <3>3. /\ c' = c
          /\ \A i \in DOMAIN DispatchClasses :
               disk'[AgentPath(Class(i))] = HandWritten => disk[AgentPath(Class(i))] = HandWritten
          /\ \A i \in DOMAIN DispatchClasses : Class(i) # Class(k) =>
               disk'[AgentPath(Class(i))] = disk[AgentPath(Class(i))]
      BY <1>1, <1>2, <2>1, <2>7, <3>2, AgentsLeft
    <3>4. path \notin changed[p] => disk'[path] = NextFile(p)[2]
      BY <1>1, <1>2, <3>1, <3>2 DEF KnowsFile
    <3>5. c' = Loaded(call[p].where)'
      OBVIOUS
    <3> HIDE DEF c, path, rest
    <3>6. /\ call[p].where \in Where
          /\ \A i \in rest : todo[p][i][2] # HandWritten
          /\ \A i \in rest :
               AgentPath(Class(i)) \in changed[p] \/ disk'[AgentPath(Class(i))] # HandWritten
          /\ changed[p] \cap Profiles = {} =>
               \A i \in DOMAIN todo[p] : todo[p][i][2] = Planned(c, Class(i))
      BY <1>1, <2>2, <3>1, <3>2, <3>3 DEF KnowsInstall, c
    <3>7. ASSUME changed[p] \cap Profiles = {}, NEW i \in DOMAIN DispatchClasses
          PROVE  \/ Planned(c, Class(i)) = NoFile
                 \/ AgentPath(Class(i)) \in changed[p]
                 \/ disk'[AgentPath(Class(i))] = Planned(c, Class(i))
                 \/ \E j \in rest : Class(j) = Class(i)
      <4>1. CASE Class(i) = Class(k)
        BY <2>3, <3>2, <3>4, <3>6, <3>7, <4>1
      <4>2. CASE Class(i) # Class(k)
        BY <1>1, <3>1, <3>3, <3>7, <4>2 DEF KnowsInstall, c, rest
      <4> QED BY <4>1, <4>2
    <3> QED BY <2>1, <2>2, <2>6, <3>3, <3>5, <3>6, <3>7 DEF KnowsInstall, Class
  <2>8. Knows(p)'
    BY <1>1, <2>1, <2>4, <2>7, NextIs DEF Knows, KnowsFile
  <2> QED BY <1>4, <2>1, <2>5, <2>8, StepInv
<1> QED BY <1>5, <1>6, <1>7 DEF Fill
-----------------------------------------------------------------------------
(***************************************************************************)
(* init.                                                                   *)
(***************************************************************************)
LEMMA OneFile ==
  ASSUME NEW path, NEW text
  PROVE  LET t == <<<<path, text>>>>
         IN  DOMAIN t = {1} /\ t[1][1] = path /\ t[1][2] = text /\ {1} \subseteq Nat
OBVIOUS

LEMMA CallInitInv ==
  ASSUME Inv, NEW p \in Process, CallInit(p)
  PROVE  Inv'
<1>1. PICK draft \in Drafts, mode \in {"plain", "force", "dry_run"} :
        /\ Begin(p, [kind |-> "init", draft |-> draft, mode |-> mode], "writing")
        /\ todo' = [todo EXCEPT ![p] = <<<<InitCheck, NewProfile(draft)>>>>]
        /\ UNCHANGED <<disk, linked>> /\ Noted
  BY DEF CallInit
<1> DEFINE c == [kind |-> "init", draft |-> draft, mode |-> mode]
<1>2. /\ pc'[p] = "writing" /\ call'[p] = c /\ DOMAIN todo' = Process
      /\ todo'[p] = <<<<InitCheck, NewProfile(draft)>>>> /\ "writing" \in Points
  BY <1>1 DEF Begin, Inv, Shapes, Points
<1>3. c.kind = "init" /\ c.draft = draft
  OBVIOUS
<1>4. DOMAIN todo'[p] = {1} /\ todo'[p][1][1] = InitCheck /\ todo'[p][1][2] = NewProfile(draft)
  BY <1>2
<1>5. Purpose(p)' /\ KnowsInit(p)'
  BY <1>2, <1>3, <1>4, OneFile DEF Purpose, KnowsInit, InitCheck, NewProfile
<1> HIDE DEF c
<1> QED BY <1>1, <1>2, <1>3, <1>5, CallInv DEF c, Inv, Shapes

LEMMA InitValidateInv ==
  ASSUME Inv, NEW p \in Process, InitValidate(p)
  PROVE  Inv'
<1>1. /\ pc[p] = "validating" /\ ~Idle(p) /\ Noted /\ Purpose(p) /\ Knows(p)
      /\ disk' = [disk EXCEPT ![InitCheck] = NoFile] /\ linked' = Unlinked(InitCheck)
  BY DEF InitValidate, Idle, Inv
<1>2. DOMAIN disk' = Path /\ linked' \in [Process -> BOOLEAN]
  BY <1>1 DEF Inv, Shapes, Unlinked
<1>3. ASSUME NEW q \in Process \ {p}, Others(p) PROVE Bystander(q)
  <2>1. linked'[q] = (linked[q] /\ ~(pc[q] = "filling" /\ NextFile(q)[1] = InitCheck))
        /\ linked[q] \in BOOLEAN
    BY <1>1 DEF Unlinked, Inv, Shapes
  <2>2. pc'[q] = pc[q] /\ call'[q] = call[q] /\ todo'[q] = todo[q]
    BY <1>3 DEF Others
  <2>3. disk'[InitCheck] # Empty
    BY <1>1, TextsDiffer DEF Inv, Shapes, Path
  <2>4. \A f : f # InitCheck => disk'[f] = disk[f]
    BY <1>1
  <2>5. changed'[q] = IF Idle(q) THEN {} ELSE changed[q] \cup {f \in Path : disk'[f] # disk[f]}
    BY <1>1, <2>2, NotedIs
  <2> QED BY <2>1, <2>2, <2>3, <2>4, <2>5, NotAgents DEF Bystander
<1>4. CASE End(p)
  <2>1. Others(p)
    BY <1>4 DEF End, Others, Inv, Shapes
  <2> QED BY <1>1, <1>2, <1>3, <1>4, <2>1, EndInv
<1>5. CASE Loads(disk[InitCheck]) /\ Goto(p, "deciding") /\ UNCHANGED todo
  <2>1. pc'[p] = "deciding" /\ UNCHANGED call /\ call[p].kind = "init" /\ Others(p) /\ Shapes'
    BY <1>1, <1>2, <1>5, NotedIs DEF Goto, Others, Inv, Shapes, Purpose, Points
  <2>2. Purpose(p)'
    BY <2>1 DEF Purpose
  <2>3. KnowsInit(p)'
    <3>1. changed'[p] = changed[p]
      BY <1>1, <2>1 DEF Noted
    <3> QED BY <1>1, <1>5, <2>1, <3>1 DEF Knows, KnowsInit, NewProfile, Loads, InitCheck
  <2>4. Knows(p)'
    BY <2>1, <2>3 DEF Knows, KnowsFile
  <2> QED BY <1>3, <2>1, <2>2, <2>4, StepInv
<1> QED BY <1>4, <1>5 DEF InitValidate

LEMMA InitDecideInv ==
  ASSUME Inv, NEW p \in Process, InitDecide(p)
  PROVE  Inv'
<1> DEFINE text == NewProfile(call[p].draft)
<1>1. /\ pc[p] = "deciding" /\ ~Idle(p) /\ UNCHANGED disk /\ Noted
      /\ Purpose(p) /\ Knows(p) /\ call[p].kind = "init"
  BY DEF InitDecide, Idle, Inv, Purpose
<1>2. CASE Return(p)
  BY <1>1, <1>2, ReturnInv DEF Return, Inv, Shapes
<1>3. CASE /\ todo' = [todo EXCEPT ![p] = <<<<ProfileAt(Home), text>>>>]
           /\ Goto(p, "writing") /\ UNCHANGED linked
  <2>1. /\ pc'[p] = "writing" /\ UNCHANGED call /\ DOMAIN todo' = Process
        /\ todo'[p] = <<<<ProfileAt(Home), text>>>>
    BY <1>3 DEF Goto, Inv, Shapes
  <2>2. DOMAIN todo'[p] = {1} /\ todo'[p][1][1] = ProfileAt(Home) /\ todo'[p][1][2] = text
    BY <2>1
  <2>3. Purpose(p)'
    BY <1>1, <2>1, <2>2, OneFile DEF Purpose, ProfileAt
  <2>4. KnowsInit(p)'
    <3>1. changed'[p] = changed[p]
      BY <1>1, <2>1 DEF Noted
    <3> QED BY <1>1, <2>1, <2>2, <3>1 DEF Knows, KnowsInit, NewProfile, Loads, InitCheck
  <2>5. Knows(p)'
    BY <1>1, <2>1, <2>4 DEF Knows, KnowsFile
  <2> QED BY <1>1, <1>3, <2>1, <2>3, <2>5, GoneInv DEF Inv, Shapes, Points
<1> QED BY <1>2, <1>3 DEF InitDecide
-----------------------------------------------------------------------------
(***************************************************************************)
(* install-agents and the Hermes merge.                                    *)
(***************************************************************************)
LEMMA CallInstallAgentsInv ==
  ASSUME Inv, NEW p \in Process, CallInstallAgents(p)
  PROVE  Inv'
<1>1. PICK w \in Where :
        /\ Begin(p, [kind |-> "install", where |-> w], "planning")
        /\ UNCHANGED <<disk, todo, linked>> /\ Noted
  BY DEF CallInstallAgents
<1> DEFINE c == [kind |-> "install", where |-> w]
<1>2. pc'[p] = "planning" /\ call'[p] = c /\ DOMAIN todo' = Process /\ "planning" \in Points
  BY <1>1 DEF Begin, Inv, Shapes, Points
<1>3. c.kind = "install" /\ c.where = w
  OBVIOUS
<1>4. Purpose(p)' /\ KnowsInstall(p)'
  BY <1>2, <1>3 DEF Purpose, KnowsInstall
<1> HIDE DEF c
<1> QED BY <1>1, <1>2, <1>3, <1>4, CallInv DEF c

LEMMA InstallPlanInv ==
  ASSUME Inv, NEW p \in Process, InstallPlan(p)
  PROVE  Inv'
<1> DEFINE c == Loaded(call[p].where)
           chosen == Chosen(c)
           files == [i \in chosen |-> <<AgentPath(DispatchClasses[i]),
                                        Planned(c, DispatchClasses[i])>>]
<1>1. /\ pc[p] = "planning" /\ ~Idle(p) /\ UNCHANGED disk /\ Noted
      /\ Purpose(p) /\ Knows(p) /\ call[p].kind = "install"
  BY DEF InstallPlan, Idle, Inv, Purpose
<1>2. CASE Return(p)
  BY <1>1, <1>2, ReturnInv DEF Return, Inv, Shapes
<1>3. CASE /\ chosen # {} /\ MayOverwrite({DispatchClasses[i] : i \in chosen})
           /\ todo' = [todo EXCEPT ![p] = files] /\ Goto(p, "writing") /\ UNCHANGED linked
  <2>1. /\ pc'[p] = "writing" /\ UNCHANGED call /\ DOMAIN todo' = Process
        /\ todo'[p] = files
    BY <1>3 DEF Goto, Inv, Shapes
  <2>2. /\ DOMAIN files = chosen
        /\ \A i \in chosen : files[i][1] = AgentPath(Class(i)) /\ files[i][2] = Planned(c, Class(i))
    BY DEF Class
  <2>3. chosen = {i \in DOMAIN DispatchClasses : Planned(c, Class(i)) # NoFile}
    BY DEF Chosen, Class
  <2>4. chosen \subseteq DOMAIN DispatchClasses /\ chosen \subseteq Nat
    BY <2>3, ClassIs
  <2>5. \A i \in chosen : disk[AgentPath(Class(i))] # HandWritten
    BY <1>3, TextsDiffer DEF MayOverwrite, Class
  <2> HIDE DEF chosen, files
  <2>6. Purpose(p)'
    <3>1. /\ DOMAIN todo'[p] = chosen
          /\ \A i \in chosen : todo'[p][i][1] = AgentPath(Class(i))
      BY <2>1, <2>2
    <3> QED BY <1>1, <1>3, <2>1, <2>4, <3>1 DEF Purpose, AgentPath, Class
  <2>7. KnowsInstall(p)'
    <3>1. PICK w \in Where : call[p].where = w
      BY <1>1 DEF Knows, Idle, KnowsInstall
    <3>2. Loaded(call[p].where)' = c
      BY <1>1, <2>1, <3>1, SameProfiles
    <3> HIDE DEF c
    <3>3. \A i \in chosen : /\ todo'[p][i][2] = Planned(c, Class(i))
                            /\ todo'[p][i][2] # HandWritten
                            /\ disk'[AgentPath(Class(i))] # HandWritten
      BY <1>1, <2>1, <2>2, <2>5, TextsDiffer
    <3>4. DOMAIN todo'[p] = chosen
      BY <2>1, <2>2
    <3> QED BY <2>1, <2>3, <3>1, <3>2, <3>3, <3>4 DEF KnowsInstall, Class
  <2>8. Knows(p)'
    BY <1>1, <2>1, <2>7 DEF Knows, KnowsFile
  <2> QED BY <1>1, <1>3, <2>1, <2>6, <2>8, GoneInv DEF Inv, Shapes, Points
<1> QED BY <1>2, <1>3 DEF InstallPlan

LEMMA CallHermesInv ==
  ASSUME Inv, NEW p \in Process, CallHermes(p)
  PROVE  Inv'
<1>1. PICK w \in Where :
        /\ Begin(p, [kind |-> "hermes", where |-> w], "merging")
        /\ UNCHANGED <<disk, todo, linked>> /\ Noted
  BY DEF CallHermes
<1> DEFINE c == [kind |-> "hermes", where |-> w]
<1>2. pc'[p] = "merging" /\ call'[p] = c /\ DOMAIN todo' = Process /\ "merging" \in Points
  BY <1>1 DEF Begin, Inv, Shapes, Points
<1>3. c.kind = "hermes"
  OBVIOUS
<1>4. Purpose(p)'
  BY <1>2, <1>3 DEF Purpose
<1> HIDE DEF c
<1> QED BY <1>1, <1>2, <1>3, <1>4, CallInv DEF c

LEMMA HermesMergeInv ==
  ASSUME Inv, NEW p \in Process, HermesMerge(p)
  PROVE  Inv'
<1>1. /\ pc[p] = "merging" /\ ~Idle(p) /\ UNCHANGED disk /\ Noted
      /\ Purpose(p) /\ Knows(p) /\ call[p].kind = "hermes"
  BY DEF HermesMerge, Idle, Inv, Purpose
<1>2. CASE Return(p)
  BY <1>1, <1>2, ReturnInv DEF Return, Inv, Shapes
<1>3. ASSUME NEW text, todo' = [todo EXCEPT ![p] = <<<<HermesConfig, text>>>>],
             Goto(p, "writing"), UNCHANGED linked
      PROVE  Inv'
  <2>1. /\ pc'[p] = "writing" /\ UNCHANGED call /\ DOMAIN todo' = Process
        /\ todo'[p] = <<<<HermesConfig, text>>>>
    BY <1>3 DEF Goto, Inv, Shapes
  <2>2. DOMAIN todo'[p] = {1} /\ todo'[p][1][1] = HermesConfig
    BY <2>1
  <2>3. Purpose(p)'
    BY <1>1, <2>1, <2>2, OneFile DEF Purpose, HermesConfig
  <2>4. Knows(p)'
    BY <1>1, <2>1 DEF Knows, KnowsFile
  <2> QED BY <1>1, <1>3, <2>1, <2>3, <2>4, GoneInv DEF Inv, Shapes, Points
<1> QED BY <1>2, <1>3 DEF HermesMerge
-----------------------------------------------------------------------------
LEMMA EditsInv ==
  ASSUME Inv, EditProfile \/ WriteAgent \/ EditHermes
  PROVE  Inv'
<1>1. CASE EditProfile
  <2>1. PICK d \in Dir : \E c : Save(ProfileAt(d), c)
    BY <1>1 DEF EditProfile
  <2>2. ProfileAt(d) # InitCheck /\ ProfileAt(d) \notin Agents
    BY NotAgents DEF ProfileAt, Profiles
  <2> QED BY <2>1, <2>2, SaveInv
<1>2. CASE WriteAgent
  <2>1. PICK c \in DispatchClass : Save(AgentPath(c), HandWritten)
    BY <1>2 DEF WriteAgent
  <2>2. AgentPath(c) # InitCheck
    BY NotAgents DEF AgentPath, Agents
  <2> QED BY <2>1, <2>2, TextsDiffer, SaveInv
<1>3. CASE EditHermes
  <2>1. \E t : Save(HermesConfig, t)
    BY <1>3 DEF EditHermes
  <2>2. HermesConfig # InitCheck /\ HermesConfig \notin Agents
    BY NotAgents DEF HermesConfig, InitCheck
  <2> QED BY <2>1, <2>2, SaveInv
<1> QED BY <1>1, <1>2, <1>3

LEMMA NextInv ==
  ASSUME Inv, [Next]_vars
  PROVE  Inv'
<1>1. CASE UNCHANGED vars
  BY <1>1, StayInv
<1>2. ASSUME NEW p \in Process,
             CallModelsSet(p) \/ CallInit(p) \/ CallInstallAgents(p) \/ CallHermes(p)
      PROVE  Inv'
  BY <1>2, CallModelsSetInv, CallInitInv, CallInstallAgentsInv, CallHermesInv
<1>3. ASSUME NEW p \in Process, Step(p) PROVE Inv'
  BY <1>3, ModelsReadInv, ModelsSwapInv, TruncateInv, FillInv, InitValidateInv,
     InitDecideInv, InstallPlanInv, HermesMergeInv DEF Step
<1>4. ASSUME NEW p \in Process, Crash(p) PROVE Inv'
  BY <1>4, ReturnInv DEF Crash, Inv, Shapes
<1>5. CASE EditProfile \/ WriteAgent \/ EditHermes
  BY <1>5, EditsInv
<1> QED BY <1>1, <1>2, <1>3, <1>4, <1>5 DEF Next

LEMMA Invariance == Spec => []Inv
<1>1. Init => Inv
  BY InitInv
<1>2. Inv /\ [Next]_vars => Inv'
  BY NextInv
<1> QED BY <1>1, <1>2, PTL DEF Spec
-----------------------------------------------------------------------------
(***************************************************************************)
(* The theorems.                                                           *)
(***************************************************************************)
\* What init or models set completes in a profile can be loaded, also from two
\* rungs of one name or a profile that was broken, unless init's shared temporary
\* file, or the profile it had open, was written by others meanwhile.
CompletesLoadable ==
  \A p \in Process, f \in Profiles :
    Step(p) /\ disk'[f] # disk[f] /\ disk'[f] # Empty =>
      \/ Loads(disk'[f])
      \/ Fill(p) /\ changed[p] \cap {f, InitCheck} # {}

LEMMA StepCompletesLoadable ==
  ASSUME Inv
  PROVE  CompletesLoadable
<1> SUFFICES ASSUME NEW p \in Process, NEW f \in Profiles, Step(p),
                    disk'[f] # disk[f], disk'[f] # Empty
             PROVE  \/ Loads(disk'[f])
                    \/ Fill(p) /\ changed[p] \cap {f, InitCheck} # {}
  BY DEF CompletesLoadable
<1> DEFINE path == NextFile(p)[1]
<1>1. DOMAIN disk = Path /\ f \in Path /\ f # InitCheck
  BY NotAgents DEF Inv, Shapes, Path
<1>2. CASE ModelsSwap(p)
  <2>1. disk' = [disk EXCEPT ![path] = NextFile(p)[2]] /\ Loads(NextFile(p)[2])
    BY <1>2 DEF ModelsSwap, PatchAccepted
  <2>2. path = f
    BY <1>1, <2>1
  <2> QED BY <1>1, <2>1, <2>2
<1>3. CASE Truncate(p)
  BY <1>1, <1>3 DEF Truncate
<1>4. CASE Fill(p)
  <2> SUFFICES ASSUME changed[p] \cap {f, InitCheck} = {} PROVE Loads(disk'[f])
    BY <1>4
  <2>1. pc[p] = "filling" /\ Knows(p) /\ Purpose(p)
    BY <1>4 DEF Fill, Inv
  <2>2. PICK t \in {NextFile(p)[2], Garbled} :
          /\ disk' = disk \/ disk' = [disk EXCEPT ![path] = t]
          /\ disk[path] = Empty => t = NextFile(p)[2]
    BY <1>4, Fills
  <2>3. path = f /\ disk'[f] = t
    BY <1>1, <2>2
  <2>4. disk[f] = Empty
    BY <2>1, <2>3 DEF Knows, KnowsFile
  <2>5. call[p].kind = "init" /\ NextFile(p) = todo[p][Turn(p)] /\ Turn(p) \in DOMAIN todo[p]
    BY <2>1, <2>3, NextIs, NotAgents
  <2>6. KnowsInit(p)
    BY <2>1, <2>5 DEF Knows, Idle
  <2>7. Loads(NextFile(p)[2])
    BY <1>1, <2>1, <2>3, <2>5, <2>6 DEF KnowsInit
  <2> QED BY <2>2, <2>3, <2>4, <2>7
<1>5. CASE InitValidate(p)
  BY <1>1, <1>5 DEF InitValidate
<1>6. CASE ModelsRead(p) \/ InitDecide(p) \/ InstallPlan(p) \/ HermesMerge(p)
  BY <1>6 DEF ModelsRead, InitDecide, InstallPlan, HermesMerge
<1> QED BY <1>2, <1>3, <1>4, <1>5, <1>6 DEF Step

\* What models set and init complete in a profile loads, whatever the drafts, the
\* edits and the profiles they find, unless others wrote to the temporary file of
\* init, or to the profile while it was open.
THEOREM ProfilesLoad == Spec => OnlyLoadableProfilesAreWritten
<1>1. Inv /\ [Next]_vars => [CompletesLoadable]_vars
  BY StepCompletesLoadable
<1>2. [CompletesLoadable]_vars =>
        [\A p \in Process, f \in Profiles :
           Step(p) /\ disk'[f] # disk[f] /\ disk'[f] # Empty =>
             \/ Loads(disk'[f])
             \/ Fill(p) /\ changed[p] \cap {f, InitCheck} # {}]_vars
  BY DEF CompletesLoadable
<1> QED BY <1>1, <1>2, Invariance, PTL DEF Spec, OnlyLoadableProfilesAreWritten

\* A file written by hand is overwritten only by an install that opens it, and only
\* if it came after that install's look: for any classes, files and installs.
KeepsHandWritten ==
  \A a \in Agents : disk[a] = HandWritten /\ disk'[a] # disk[a] =>
    \E p \in Process : Truncate(p) /\ NextFile(p)[1] = a /\ a \in changed[p]

LEMMA StepKeepsHandWritten ==
  ASSUME Inv, Next
  PROVE  KeepsHandWritten
<1> SUFFICES ASSUME NEW a \in Agents, disk[a] = HandWritten, disk'[a] # HandWritten,
                    \A p \in Process : Truncate(p) /\ NextFile(p)[1] = a => a \notin changed[p]
             PROVE  FALSE
  BY DEF KeepsHandWritten, Inv, Shapes
<1>1. /\ DOMAIN disk = Path /\ a \in Path /\ a \notin Profiles
      /\ a # InitCheck /\ a # HermesConfig
  BY NotAgents DEF Inv, Shapes, Path
<1>2. ASSUME NEW p \in Process, Truncate(p) PROVE FALSE
  <2>1. pc[p] = "writing" /\ NextFile(p)[1] = a
    BY <1>1, <1>2 DEF Truncate
  <2>2. /\ Turn(p) \in DOMAIN todo[p] /\ call[p].kind = "install"
        /\ NextFile(p)[1] = AgentPath(Class(Turn(p)))
    BY <1>1, <2>1, NextIs, HomeAssumption DEF ProfileAt, Profiles
  <2>3. KnowsInstall(p)
    BY <2>1, <2>2 DEF Inv, Knows, Idle
  <2> QED BY <1>2, <2>1, <2>2, <2>3 DEF KnowsInstall
<1>3. ASSUME NEW p \in Process, Fill(p) PROVE FALSE
  <2>1. pc[p] = "filling" /\ linked[p] /\ NextFile(p)[1] = a
    BY <1>1, <1>3 DEF Fill
  <2> QED BY <2>1 DEF Inv, Knows, KnowsFile
<1>4. ASSUME NEW p \in Process, ModelsSwap(p) PROVE FALSE
  <2>1. NextFile(p)[1] \in Profiles
    BY <1>4, SwapIs DEF ModelsSwap
  <2> QED BY <1>1, <1>4, <2>1 DEF ModelsSwap
<1>5. ASSUME NEW p \in Process, InitValidate(p) PROVE FALSE
  BY <1>1, <1>5 DEF InitValidate
<1>6. CASE EditProfile
  <2>1. PICK d \in Dir : \E t : Save(ProfileAt(d), t)
    BY <1>6 DEF EditProfile
  <2>2. ProfileAt(d) \in Profiles
    BY DEF Profiles, ProfileAt
  <2> QED BY <1>1, <2>1, <2>2 DEF Save
<1>7. CASE WriteAgent
  BY <1>1, <1>7 DEF WriteAgent, Save
<1>8. CASE EditHermes
  BY <1>1, <1>8 DEF EditHermes, Save
<1>9. ASSUME NEW p \in Process,
             \/ CallModelsSet(p) \/ CallInit(p) \/ CallInstallAgents(p) \/ CallHermes(p)
             \/ Crash(p) \/ ModelsRead(p) \/ InitDecide(p) \/ InstallPlan(p) \/ HermesMerge(p)
      PROVE FALSE
  BY <1>9 DEF CallModelsSet, CallInit, CallInstallAgents, CallHermes, Crash, ModelsRead,
     InitDecide, InstallPlan, HermesMerge
<1> QED BY <1>2, <1>3, <1>4, <1>5, <1>6, <1>7, <1>8, <1>9 DEF Next, Step

\* A hand-written agent definition goes only when an install opens that very file,
\* and only if it came after the look of that install.
THEOREM HandWrittenStays == Spec => HandWrittenSurvives
<1>1. Inv /\ [Next]_vars => [KeepsHandWritten]_vars
  BY StepKeepsHandWritten
<1>2. [KeepsHandWritten]_vars =>
        [\A a \in Agents : disk[a] = HandWritten /\ disk'[a] # disk[a] =>
           \E p \in Process : Truncate(p) /\ NextFile(p)[1] = a /\ a \in changed[p]]_vars
  BY DEF KeepsHandWritten
<1> QED BY <1>1, <1>2, Invariance, PTL DEF Spec, HandWrittenSurvives
-----------------------------------------------------------------------------
\* After an install that runs to its end doctor finds no agent missing or stale, if
\* nobody changed a profile or an agent behind its back: for any profile, any
\* classes and any files from earlier.
LEMMA LastFill ==
  ASSUME Inv, NEW p \in Process, NEW w \in Where, Fill(p), pc'[p] = "idle",
         call[p] = [kind |-> "install", where |-> w],
         changed[p] \cap (Profiles \cup Agents) = {}
  PROVE  DoctorIsHappy(w)'
<1> DEFINE c == Loaded(w)
           k == Turn(p)
           path == NextFile(p)[1]
<1>1. /\ pc[p] = "filling" /\ call[p].kind = "install" /\ call[p].where = w /\ Knows(p)
      /\ DOMAIN disk = Path
  BY DEF Fill, Inv, Shapes
<1>2. DOMAIN todo[p] = {k}
  BY <1>1 DEF Fill, Goto, Inv, Shapes
<1>3. /\ path = AgentPath(Class(k)) /\ path \in Agents /\ path \in Path
      /\ NextFile(p) = todo[p][k] /\ k \in DOMAIN todo[p]
  BY <1>1, NextIs
<1>4. KnowsInstall(p) /\ KnowsFile(p)
  BY <1>1 DEF Knows, Idle
<1>5. linked[p] /\ disk[path] = Empty
  BY <1>1, <1>3, <1>4 DEF KnowsFile
<1>6. disk' = [disk EXCEPT ![path] = NextFile(p)[2]]
  BY <1>5 DEF Fill
<1>7. NextFile(p)[2] = Planned(c, Class(k)) /\ NextFile(p)[2] # HandWritten
  BY <1>1, <1>3, <1>4 DEF KnowsInstall
<1>8. /\ \A d \in Dir : disk'[ProfileAt(d)] = disk[ProfileAt(d)]
      /\ disk'[AgentPath(Class(k))] = Planned(c, Class(k))
      /\ \A i \in DOMAIN DispatchClasses :
           Class(i) # Class(k) => disk'[AgentPath(Class(i))] = disk[AgentPath(Class(i))]
  <2>1. \A d \in Dir : ProfileAt(d) \in Profiles
    BY DEF ProfileAt, Profiles
  <2>2. \A d \in Dir : ProfileAt(d) # path
    BY <1>3, <2>1, NotAgents
  <2>3. \A i \in DOMAIN DispatchClasses : Class(i) # Class(k) => AgentPath(Class(i)) # path
    BY <1>3, SamePlaces
  <2> HIDE DEF path, c
  <2> QED BY <1>1, <1>3, <1>6, <1>7, <2>2, <2>3
<1>9. c' = c
  BY <1>8, SameProfiles
<1>10. ASSUME NEW class \in DispatchClass
       PROVE  Planned(c, class) = NoFile \/ disk'[AgentPath(class)] = Planned(c, class)
  <2>1. PICK i \in DOMAIN DispatchClasses : class = Class(i)
    BY DEF DispatchClass, Range, Class
  <2>2. CASE class = Class(k)
    BY <1>8, <2>2
  <2>3. CASE class # Class(k)
    <3>1. \A j \in DOMAIN todo[p] : Class(j) # Class(i)
      BY <1>2, <2>1, <2>3
    <3>2. AgentPath(Class(i)) \notin changed[p]
      BY ClassIs DEF AgentPath, Agents
    <3>3. Planned(c, Class(i)) = NoFile \/ disk[AgentPath(Class(i))] = Planned(c, Class(i))
      BY <1>1, <1>4, <3>1, <3>2 DEF KnowsInstall
    <3> QED BY <1>8, <2>1, <2>3, <3>3
  <2> QED BY <2>2, <2>3
<1>11. Loaded(w)' = c
  BY <1>9
<1> HIDE DEF c
<1>12. ASSUME NEW class \in DispatchClass
       PROVE  AgentStatus(Loaded(w), class)' \in {"ok", "n/a"}
  BY <1>10, <1>11 DEF AgentStatus, AgentPath, Planned, NoFile
<1> QED BY <1>12 DEF DoctorIsHappy, DispatchClass

Satisfies ==
  \A p \in Process, w \in Where :
    (Fill(p) /\ call[p] = [kind |-> "install", where |-> w] /\ pc'[p] = "idle"
       /\ changed[p] \cap (Profiles \cup Agents) = {})
      => DoctorIsHappy(w)'

\* An install that ends with no profile and no agent changed behind its back leaves
\* none that doctor calls missing or stale.
THEOREM InstallIsEnough == Spec => InstallSatisfiesDoctor
<1>1. Inv /\ [Next]_vars => [Satisfies]_vars
  BY LastFill DEF Satisfies
<1>2. [Satisfies]_vars =>
        [\A p \in Process, w \in Where :
           (Fill(p) /\ call[p] = [kind |-> "install", where |-> w] /\ pc'[p] = "idle"
              /\ changed[p] \cap (Profiles \cup Agents) = {})
             => DoctorIsHappy(w)']_vars
  BY DEF Satisfies
<1> QED BY <1>1, <1>2, Invariance, PTL DEF Spec, InstallSatisfiesDoctor
-----------------------------------------------------------------------------
\* An answer is in the profile that is renamed into place and in what every command
\* loads that finds it; the other answers and the ladder are those of the profile
\* it replaces, unless others changed that one after models set had read it: for
\* any profile, also one that declares tiers nobody knows, and wherever it is.
ReadBack(p) ==
  LET path == ProfileAt(call[p].at)
      before == disk[path]
      after == disk'[path]
  IN  /\ Loads(after) /\ after.models[call[p].tier] = call[p].entry
      /\ \A w \in Where : FindProfile(w) = call[p].at => Loaded(w)' = after
      /\ path \notin changed[p] /\ Loads(before) =>
           /\ LadderOf(after) = LadderOf(before)
           /\ \A t \in DOMAIN before.models \ {call[p].tier} :
                after.models[t] = before.models[t]

LEMMA PatchedIs ==
  ASSUME NEW c, NEW tier \in ModelTiers, NEW entry, Loads(c)
  PROVE  /\ LadderOf(Patched(c, tier, entry)) = LadderOf(c)
         /\ \A t \in DOMAIN c.models \ {tier} : Patched(c, tier, entry).models[t] = c.models[t]
<1> DEFINE text == Patched(c, tier, entry)
<1>1. text = [form |-> "profile", ladder |-> c.ladder, defaults |-> c.defaults,
              key |-> "plain",
              models |-> [t \in ModelTiers \cup DOMAIN c.models |->
                            IF t = tier THEN entry
                            ELSE IF t \in DOMAIN c.models THEN c.models[t]
                            ELSE Placeholder]]
  BY DEF Patched, Loads
<1> HIDE DEF text
<1>2. /\ text.ladder = c.ladder /\ text.defaults = c.defaults
      /\ \A t \in DOMAIN c.models \ {tier} : text.models[t] = c.models[t]
  BY <1>1
<1>3. LadderOf(text) = LadderOf(c)
  BY <1>2 DEF LadderOf
<1> QED BY <1>2, <1>3 DEF text

LEMMA SwapReadsBack ==
  ASSUME Inv, NEW p \in Process, ModelsSwap(p), disk' # disk
  PROVE  ReadBack(p)
<1> DEFINE path == ProfileAt(call[p].at)
           text == NextFile(p)[2]
<1>1. /\ pc[p] = "swapping" /\ NextFile(p) = todo[p][1] /\ NextFile(p)[1] = path
      /\ KnowsModels(p) /\ path \in Path /\ DOMAIN disk = Path
  BY SwapIs DEF ModelsSwap, Inv, Shapes
<1>2. Loads(text) /\ disk' = [disk EXCEPT ![path] = text]
  BY <1>1 DEF ModelsSwap, PatchAccepted
<1>3. /\ disk'[path] = text /\ text.models[call[p].tier] = call[p].entry
      /\ call[p].tier \in ModelTiers
      /\ path \notin changed[p] => text = Patched(disk[path], call[p].tier, call[p].entry)
  BY <1>1, <1>2 DEF KnowsModels
<1>4. text # NoFile
  BY <1>2 DEF Loads, NoFile
<1> HIDE DEF text
<1>5. ASSUME NEW w \in Where, FindProfile(w) = call[p].at PROVE Loaded(w)' = text
  BY <1>1, <1>2, <1>4, <1>5, FoundAgain
<1>6. ASSUME path \notin changed[p], Loads(disk[path])
      PROVE  /\ LadderOf(text) = LadderOf(disk[path])
             /\ \A t \in DOMAIN disk[path].models \ {call[p].tier} :
                  text.models[t] = disk[path].models[t]
  BY <1>3, <1>6, PatchedIs
<1> QED BY <1>2, <1>3, <1>5, <1>6 DEF ReadBack

AllReadBack == \A p \in Process : ModelsSwap(p) /\ disk' # disk => ReadBack(p)

\* The profile that models set renames into place loads and holds the answer, and
\* every command that finds the file reads it; what models set had read of the other
\* tiers and of the ladder is kept.
THEOREM AnswersComeBack == Spec => AnswersAreReadBack
<1>1. Inv /\ [Next]_vars => [AllReadBack]_vars
  BY SwapReadsBack DEF AllReadBack
<1>2. [AllReadBack]_vars =>
        [\A p \in Process :
           ModelsSwap(p) /\ disk' # disk =>
           LET path == ProfileAt(call[p].at)
               before == disk[path]
               after == disk'[path]
           IN  /\ Loads(after) /\ after.models[call[p].tier] = call[p].entry
               /\ \A w \in Where : FindProfile(w) = call[p].at => Loaded(w)' = after
               /\ path \notin changed[p] /\ Loads(before) =>
                    /\ LadderOf(after) = LadderOf(before)
                    /\ \A t \in DOMAIN before.models \ {call[p].tier} :
                         after.models[t] = before.models[t]]_vars
  BY DEF AllReadBack, ReadBack
<1> QED BY <1>1, <1>2, Invariance, PTL DEF Spec, AnswersAreReadBack
-----------------------------------------------------------------------------
(***************************************************************************)
(* Which rung a location resolves to.                                      *)
(***************************************************************************)
Detecting(rung) ==
  DOMAIN rung.detect # {} /\ DOMAIN rung.detect \subseteq DOMAIN Tier

\* Strictly before, by authority or by specificity.
Ahead(r, s) ==
  \/ Authority(r) < Authority(s)
  \/ Authority(r) = Authority(s) /\ Specificity(r) > Specificity(s)

LEMMA TiersAre ==
  /\ DOMAIN Tier = {"marker_file", "env_marker", "path_segments", "branch",
                    "tag_channel", "worktree", "default"}
  /\ \A k \in DOMAIN Tier : Tier[k] \in Nat
BY DEF Tier

LEMMA TiersAreFinite == IsFiniteSet(DOMAIN Tier) /\ Cardinality(DOMAIN Tier) \in Nat
<1>1. IsFiniteSet({"marker_file"})
  BY FS_Singleton
<1>2. IsFiniteSet({"marker_file"} \cup {"env_marker"} \cup {"path_segments"}
                    \cup {"branch"} \cup {"tag_channel"} \cup {"worktree"} \cup {"default"})
  BY <1>1, FS_AddElement
<1>3. DOMAIN Tier = {"marker_file"} \cup {"env_marker"} \cup {"path_segments"}
                    \cup {"branch"} \cup {"tag_channel"} \cup {"worktree"} \cup {"default"}
  BY TiersAre
<1> QED BY <1>2, <1>3, FS_CardinalityType

LEMMA RanksAre ==
  ASSUME NEW rung, Detecting(rung)
  PROVE  /\ Authority(rung) \in Nat
         /\ Specificity(rung) \in Nat /\ Specificity(rung) <= Cardinality(DOMAIN Tier)
<1> DEFINE tiers == {Tier[k] : k \in DOMAIN rung.detect}
<1>1. tiers \in SUBSET Nat /\ tiers # {}
  BY TiersAre DEF Detecting
<1>2. Authority(rung) \in Nat
  <2>1. Authority(rung) = Min(tiers)
    BY DEF Authority
  <2> HIDE DEF tiers
  <2> QED BY <1>1, <2>1, LeastIs
<1>3. DOMAIN rung.detect \in SUBSET DOMAIN Tier
  BY DEF Detecting
<1> QED BY <1>2, <1>3, TiersAreFinite, FS_Subset, FS_CardinalityType DEF Specificity

\* Of the rungs that match, one outranks the others.
LEMMA BestIs ==
  ASSUME NEW ladder, DOMAIN ladder \subseteq Nat,
         \A i \in DOMAIN ladder : Detecting(ladder[i]),
         NEW m \in SUBSET DOMAIN ladder, m # {}
  PROVE  \E i \in m : \A j \in m \ {i} : Outranks(ladder, i, j)
<1> DEFINE A(i) == Authority(ladder[i])
           S(i) == Specificity(ladder[i])
           most == Cardinality(DOMAIN Tier)
           authorities == {A(i) : i \in m}
           first == {i \in m : A(i) = Min(authorities)}
           lacks == {most - S(i) : i \in first}
           best == {i \in first : most - S(i) = Min(lacks)}
<1>1. \A i \in m : A(i) \in Nat /\ S(i) \in Nat /\ most \in Nat /\ S(i) <= most
  BY RanksAre, TiersAreFinite
<1> HIDE DEF A, S, most
<1>2. first # {} /\ \A j \in m : Min(authorities) <= A(j)
  <2>1. authorities \in SUBSET Nat /\ authorities # {}
    BY <1>1
  <2>2. Min(authorities) \in authorities /\ \A x \in authorities : Min(authorities) <= x
    <3> HIDE DEF authorities
    <3> QED BY <2>1, LeastIs
  <2> QED BY <2>2
<1>3. best # {} /\ \A j \in first : Min(lacks) <= most - S(j)
  <2>1. \A i \in first : most - S(i) \in Nat
    BY <1>1
  <2>2. lacks \in SUBSET Nat /\ lacks # {}
    <3> HIDE DEF first
    <3> QED BY <1>2, <2>1
  <2>3. Min(lacks) \in lacks /\ \A x \in lacks : Min(lacks) <= x
    <3> HIDE DEF lacks
    <3> QED BY <2>2, LeastIs
  <2> DEFINE least == Min(lacks)
  <2> HIDE DEF least
  <2>4. least \in lacks /\ \A x \in lacks : least <= x
    BY <2>3 DEF least
  <2>5. (\E i \in first : most - S(i) = least) /\ \A j \in first : least <= most - S(j)
    <3> HIDE DEF first
    <3> QED BY <2>4
  <2> QED BY <2>5 DEF least
<1>4. Min(best) \in best /\ \A x \in best : Min(best) <= x
  <2>1. best \in SUBSET Nat
    OBVIOUS
  <2> HIDE DEF best
  <2> QED BY <2>1, <1>3, LeastIs
<1>5. Min(best) \in m
  BY <1>4
<1>6. ASSUME NEW j \in m \ {Min(best)}
      PROVE  Outranks(ladder, Min(best), j)
  <2> DEFINE i == Min(best)
  <2>1. A(i) = Min(authorities) /\ most - S(i) = Min(lacks) /\ i \in m /\ i \in Nat
    BY <1>4
  <2>2. CASE A(j) # A(i)
    <3>1. A(i) <= A(j)
      BY <1>2, <2>1
    <3>2. A(i) < A(j)
      <4>1. A(i) \in Nat /\ A(j) \in Nat
        BY <1>1, <2>1
      <4> HIDE DEF i
      <4> QED BY <2>2, <3>1, <4>1
    <3> QED BY <3>2 DEF Outranks, A
  <2>3. CASE A(j) = A(i) /\ S(j) # S(i)
    <3>1. Min(lacks) <= most - S(j)
      BY <1>3, <2>1, <2>3
    <3>2. most - S(i) <= most - S(j)
      BY <2>1, <3>1
    <3>3. S(i) > S(j)
      <4>1. S(i) \in Nat /\ S(j) \in Nat /\ most \in Nat
        BY <1>1, <2>1
      <4> HIDE DEF i
      <4> QED BY <2>3, <3>2, <4>1
    <3> QED BY <2>3, <3>3 DEF Outranks, A, S
  <2>4. CASE A(j) = A(i) /\ S(j) = S(i)
    <3>1. j \in best
      BY <2>1, <2>4
    <3>2. i <= j /\ i # j /\ j \in Nat
      BY <1>4, <3>1
    <3>3. i < j
      <4> HIDE DEF i
      <4> QED BY <2>1, <3>2
    <3> QED BY <2>4, <3>3 DEF Outranks, SameRank, A, S
  <2> QED BY <2>2, <2>3, <2>4
<1> QED BY <1>5, <1>6

LEMMA StageIs ==
  ASSUME NEW ladder, DOMAIN ladder \subseteq Nat,
         \A i \in DOMAIN ladder : Detecting(ladder[i]),
         NEW place, Matching(ladder, place) # {}
  PROVE  /\ Stage(ladder, place) \in Matching(ladder, place)
         /\ \A j \in Matching(ladder, place) \ {Stage(ladder, place)} :
              Outranks(ladder, Stage(ladder, place), j)
<1> DEFINE m == Matching(ladder, place)
           Best(i) == \A j \in m \ {i} : Outranks(ladder, i, j)
<1>1. m \in SUBSET DOMAIN ladder /\ m # {}
  BY DEF Matching
<1>2. \E i \in m : Best(i)
  <2> HIDE DEF m
  <2> QED BY <1>1, BestIs
<1>3. Stage(ladder, place) = CHOOSE i \in m : Best(i)
  BY DEF Stage
<1> HIDE DEF m, Best
<1>4. Stage(ladder, place) \in m /\ Best(Stage(ladder, place))
  BY <1>2, <1>3
<1> QED BY <1>4 DEF m, Best

\* A location that resolves without the warning has a winner that is ahead of
\* every other match, wherever it stands in the ladder.
LEMMA WinnerIsAhead ==
  ASSUME NEW ladder, DOMAIN ladder \subseteq Nat,
         \A i \in DOMAIN ladder : Detecting(ladder[i]),
         NEW place, Matching(ladder, place) # {}, Ambiguous(ladder, place) = {}
  PROVE  \A j \in Matching(ladder, place) \ {Stage(ladder, place)} :
           Ahead(ladder[Stage(ladder, place)], ladder[j])
<1> DEFINE w == Stage(ladder, place)
<1>1. ASSUME NEW j \in Matching(ladder, place) \ {w} PROVE Ahead(ladder[w], ladder[j])
  <2>1. Outranks(ladder, w, j)
    BY StageIs
  <2>2. ~SameRank(ladder[j], ladder[w])
    BY DEF Ambiguous
  <2> HIDE DEF w
  <2> QED BY <2>1, <2>2 DEF Outranks, SameRank, Ahead
<1> QED BY <1>1

\* And the only match that is ahead of every other one is the winner.
LEMMA AheadWins ==
  ASSUME NEW ladder, DOMAIN ladder \subseteq Nat,
         \A i \in DOMAIN ladder : Detecting(ladder[i]),
         NEW place, NEW w \in Matching(ladder, place),
         \A j \in Matching(ladder, place) \ {w} : Ahead(ladder[w], ladder[j])
  PROVE  Stage(ladder, place) = w
<1> DEFINE x == Stage(ladder, place)
<1>1. /\ x \in Matching(ladder, place)
      /\ \A j \in Matching(ladder, place) \ {x} : Outranks(ladder, x, j)
  BY StageIs
<1> HIDE DEF x
<1>2. ASSUME x # w PROVE FALSE
  <2>1. Outranks(ladder, x, w) /\ Ahead(ladder[w], ladder[x])
    BY <1>1, <1>2
  <2>2. x \in DOMAIN ladder /\ w \in DOMAIN ladder
    BY <1>1 DEF Matching
  <2>3. /\ Authority(ladder[x]) \in Nat /\ Authority(ladder[w]) \in Nat
        /\ Specificity(ladder[x]) \in Nat /\ Specificity(ladder[w]) \in Nat
    BY <2>2, RanksAre
  <2> QED BY <2>1, <2>3 DEF Outranks, SameRank, Ahead
<1> QED BY <1>2 DEF x

LEMMA SwapKeepsStage ==
  ASSUME NEW ladder, DOMAIN ladder \subseteq Nat, 0 \notin DOMAIN ladder,
         \A k \in DOMAIN ladder : Detecting(ladder[k]),
         NEW place, Ambiguous(ladder, place) = {},
         NEW i \in DOMAIN ladder, NEW j \in DOMAIN ladder
  PROVE  LET other == Swapped(ladder, i, j)
             was == Stage(ladder, place)
             is == Stage(other, place)
         IN  (was = 0 /\ is = 0) \/ (was # 0 /\ is # 0 /\ other[is] = ladder[was])
<1> DEFINE other == Swapped(ladder, i, j)
           Other(k) == IF k = i THEN j ELSE IF k = j THEN i ELSE k
           w == Stage(ladder, place)
<1>1. /\ DOMAIN other = DOMAIN ladder
      /\ \A k \in DOMAIN ladder : other[k] = ladder[Other(k)]
  BY DEF Swapped
<1>2. \A k \in DOMAIN ladder : Other(k) \in DOMAIN ladder /\ Other(Other(k)) = k
  OBVIOUS
<1> HIDE DEF other, Other
<1>3. \A k \in DOMAIN ladder : Detecting(other[k])
  BY <1>1, <1>2
<1>4. \A k \in DOMAIN ladder :
        k \in Matching(other, place) <=> Other(k) \in Matching(ladder, place)
  BY <1>1, <1>2 DEF Matching
<1>5. Matching(other, place) \subseteq DOMAIN ladder
  BY <1>1 DEF Matching
<1>6. Matching(ladder, place) \subseteq DOMAIN ladder
  BY DEF Matching
<1>7. CASE Matching(ladder, place) = {}
  <2>1. Matching(other, place) = {}
    BY <1>4, <1>5, <1>7
  <2> QED BY <1>7, <2>1 DEF Stage, other
<1>8. CASE Matching(ladder, place) # {}
  <2>1. w \in Matching(ladder, place)
    BY <1>8, StageIs
  <2>2. Other(w) \in Matching(other, place)
    BY <1>2, <1>4, <1>6, <2>1
  <2>3. ASSUME NEW k \in Matching(other, place) \ {Other(w)}
        PROVE  Ahead(other[Other(w)], other[k])
    <3>1. k \in DOMAIN ladder /\ Other(k) \in Matching(ladder, place)
      BY <1>4, <1>5
    <3>2. Other(k) # w
      BY <1>2, <3>1
    <3>3. Ahead(ladder[w], ladder[Other(k)])
      <4>1. Other(k) \in Matching(ladder, place) \ {w}
        BY <3>1, <3>2
      <4> QED BY <1>8, <4>1, WinnerIsAhead
    <3>4. other[Other(w)] = ladder[w] /\ other[k] = ladder[Other(k)]
      BY <1>1, <1>2, <1>6, <2>1, <3>1
    <3> QED BY <3>3, <3>4
  <2>4. Stage(other, place) = Other(w)
    BY <1>1, <1>3, <2>2, <2>3, AheadWins
  <2>5. w \in DOMAIN ladder /\ Other(w) \in DOMAIN ladder /\ other[Other(w)] = ladder[w]
    BY <1>1, <1>2, <1>6, <2>1
  <2> QED BY <2>4, <2>5 DEF other
<1> QED BY <1>7, <1>8

LEMMA LaddersDetect ==
  ASSUME NEW c, Loads(c)
  PROVE  /\ DOMAIN LadderOf(c) \subseteq Nat /\ 0 \notin DOMAIN LadderOf(c)
         /\ \A i \in DOMAIN LadderOf(c) : Detecting(LadderOf(c)[i])
<1> DEFINE entries == IF c.ladder = <<>> THEN BuiltinLadder ELSE c.ladder
           Sound(s) == \A i \in DOMAIN s :
                         /\ {"name", "detect"} \subseteq DOMAIN s[i]
                         /\ Detecting(s[i])
<1>1. \E n \in Nat : DOMAIN BuiltinLadder = 1 .. n
  BY DEF BuiltinLadder
<1>2. Sound(BuiltinLadder)
  <2>1. DOMAIN BuiltinLadder = 1 .. 4
    BY DEF BuiltinLadder
  <2>2. ASSUME NEW name, NEW detect, NEW a, NEW b,
               DOMAIN detect # {}, DOMAIN detect \subseteq DOMAIN Tier
        PROVE  /\ {"name", "detect"} \subseteq DOMAIN Rung(name, detect, a, b)
               /\ Detecting(Rung(name, detect, a, b))
    BY <2>2 DEF Rung, Detecting
  <2>3. \E a, b : BuiltinLadder[1] = Rung("stable", [tag_channel |-> {"stable"}], a, b)
    BY DEF BuiltinLadder
  <2>4. \E a, b :
          BuiltinLadder[2] = Rung("trunk", [branch |-> {"main", "master", "trunk"}], a, b)
    BY DEF BuiltinLadder
  <2>5. \E a, b : BuiltinLadder[3] = Rung("work", [branch |-> {"*"}], a, b)
    BY DEF BuiltinLadder
  <2>6. \E a, b : BuiltinLadder[4] = Rung("local", [default |-> {"true"}], a, b)
    BY DEF BuiltinLadder
  <2>7. \A s : /\ DOMAIN [tag_channel |-> s] = {"tag_channel"}
               /\ DOMAIN [branch |-> s] = {"branch"}
               /\ DOMAIN [default |-> s] = {"default"}
    OBVIOUS
  <2>8. \A i \in 1 .. 4 : i = 1 \/ i = 2 \/ i = 3 \/ i = 4
    OBVIOUS
  <2> QED BY <2>1, <2>2, <2>3, <2>4, <2>5, <2>6, <2>7, <2>8, TiersAre
<1>3. Sound(c.ladder) /\ \E n \in Nat : DOMAIN c.ladder = 1 .. n
  BY DEF Loads, Detecting
<1>4. Sound(entries) /\ \E n \in Nat : DOMAIN entries = 1 .. n
  BY <1>1, <1>2, <1>3
<1>5. LadderOf(c) = [i \in DOMAIN entries |-> Merged(c.defaults, entries[i])]
  BY DEF LadderOf
<1> HIDE DEF entries
<1>6. ASSUME NEW i \in DOMAIN entries
      PROVE  Merged(c.defaults, entries[i]).detect = entries[i].detect
  BY <1>4 DEF Merged
<1> QED BY <1>4, <1>5, <1>6 DEF Detecting

\* Whatever the ladders in the profiles, and whatever a location shows: the order
\* of the rungs decides nothing that resolve does not report as ambiguous.
THEOREM OrderIsReported == Spec => []OrderMattersOnlyWhenReported
<1>1. OrderMattersOnlyWhenReported
  BY LaddersDetect, SwapKeepsStage DEF OrderMattersOnlyWhenReported, Ladders
<1> QED BY <1>1, PTL
-----------------------------------------------------------------------------
(***************************************************************************)
(* What cmd_check allows.                                                  *)
(***************************************************************************)
LEMMA FirstGapIs ==
  ASSUME NEW gaps, DOMAIN gaps \subseteq Nat,
         \A i \in DOMAIN gaps : gaps[i] # "ok"
  PROVE  FirstGap(gaps) = "ok" <=> \A i \in DOMAIN gaps : gaps[i] = "none"
<1> DEFINE open == {i \in DOMAIN gaps : gaps[i] # "none"}
<1>1. FirstGap(gaps) = IF open = {} THEN "ok" ELSE gaps[Min(open)]
  BY DEF FirstGap
<1>2. open # {} => Min(open) \in open
  <2>1. open \in SUBSET Nat
    OBVIOUS
  <2> HIDE DEF open
  <2> QED BY <2>1, LeastIs
<1> QED BY <1>1, <1>2

LEMMA GapsAre ==
  ASSUME NEW prj, NEW level, NEW kickoff \in BOOLEAN
  PROVE  FirstGap(Gaps(prj, level, kickoff)) = "ok" <=>
           /\ GitRemoteGap(prj) = "none"
           /\ ~kickoff => GoalGap(prj) = "none"
           /\ (~kickoff /\ level = "L") => RollbackGap(prj) = "none"
<1> DEFINE r == GitRemoteGap(prj)
           g == GoalGap(prj)
           b == RollbackGap(prj)
           gaps == Gaps(prj, level, kickoff)
<1>1. r # "ok" /\ g # "ok" /\ b # "ok"
  BY DEF GitRemoteGap, GoalGap, RollbackGap
<1>2. gaps = IF kickoff THEN <<r>> ELSE IF level # "L" THEN <<r, g>> ELSE <<r, g, b>>
  BY DEF Gaps
<1> HIDE DEF r, g, b, gaps
<1>3. FirstGap(gaps) = "ok" <=>
        /\ r = "none"
        /\ ~kickoff => g = "none"
        /\ (~kickoff /\ level = "L") => b = "none"
  <2>1. CASE kickoff
    <3>1. gaps = <<r>>
      BY <1>2, <2>1
    <3>2. DOMAIN gaps = {1} /\ gaps[1] = r
      BY <3>1
    <3>3. FirstGap(gaps) = "ok" <=> \A i \in DOMAIN gaps : gaps[i] = "none"
      BY <1>1, <3>2, FirstGapIs
    <3> QED BY <2>1, <3>2, <3>3
  <2>2. CASE ~kickoff /\ level # "L"
    <3>1. gaps = <<r, g>>
      BY <1>2, <2>2
    <3>2. DOMAIN gaps = {1, 2} /\ gaps[1] = r /\ gaps[2] = g
      BY <3>1
    <3>3. FirstGap(gaps) = "ok" <=> \A i \in DOMAIN gaps : gaps[i] = "none"
      BY <1>1, <3>2, FirstGapIs
    <3> QED BY <2>2, <3>2, <3>3
  <2>3. CASE ~kickoff /\ level = "L"
    <3>1. gaps = <<r, g, b>>
      BY <1>2, <2>3
    <3>2. DOMAIN gaps = {1, 2, 3} /\ gaps[1] = r /\ gaps[2] = g /\ gaps[3] = b
      BY <3>1
    <3>3. FirstGap(gaps) = "ok" <=> \A i \in DOMAIN gaps : gaps[i] = "none"
      BY <1>1, <3>2, FirstGapIs
    <3> QED BY <2>3, <3>2, <3>3
  <2> QED BY <2>1, <2>2, <2>3
<1> QED BY <1>3 DEF r, g, b, gaps

LEMMA CheckIs ==
  ASSUME NEW ladder, NEW place, NEW action, NEW prj, NEW level, NEW kickoff \in BOOLEAN
  PROVE  CheckLadder(ladder, place, action, prj, level, kickoff) = "ok" <=>
           IF Stage(ladder, place) = 0 THEN ~HasDenyRung(ladder)
           ELSE /\ Verdict(action, Cell(ladder[Stage(ladder, place)], action)) = "ok"
                /\ action = "act_unattended" =>
                     FirstGap(Gaps(prj, level, kickoff)) = "ok"
BY DEF CheckLadder

\* The levels of autonomy are nested, whatever the profile, the place, and what
\* the project has.
THEOREM LevelsNest == Spec => []LevelsAreNested
<1>1. LevelsAreNested
  <2> SUFFICES ASSUME NEW w \in Where, NEW place \in Places, NEW action \in ActionClass,
                      NEW prj \in Projects, NEW kickoff \in BOOLEAN
               PROVE  LET Ok(level, k) == Check(w, place, action, prj, level, k) = "ok"
                      IN  /\ Ok("L", kickoff) => Ok("M", kickoff)
                          /\ Ok("M", kickoff) => Ok("H", kickoff)
                          /\ \A level \in {"L", "M"} : Ok(level, FALSE) => Ok(level, TRUE)
    BY DEF LevelsAreNested
  <2> DEFINE ladder == LadderOf(Loaded(w))
             Passes(level, k) == CheckLadder(ladder, place, action, prj, level, k) = "ok"
  <2>1. ASSUME NEW level \in {"L", "M"}, NEW k \in BOOLEAN
        PROVE  Check(w, place, action, prj, level, k) = "ok"
                 <=> Loads(Loaded(w)) /\ Passes(level, k)
    BY <2>1 DEF Check
  <2>2. \A k \in BOOLEAN : Check(w, place, action, prj, "H", k) = "ok"
    BY DEF Check
  <2> HIDE DEF ladder
  <2>3. Passes("L", kickoff) => Passes("M", kickoff)
    BY CheckIs, GapsAre
  <2>4. \A level \in {"L", "M"} : Passes(level, FALSE) => Passes(level, TRUE)
    BY CheckIs, GapsAre
  <2> HIDE DEF Passes
  <2> QED BY <2>1, <2>2, <2>3, <2>4
<1> QED BY <1>1, PTL
=============================================================================
