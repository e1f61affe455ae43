------------------------------- MODULE Profile ------------------------------
(***************************************************************************)
(* The files that superhuman_profile.py reads and writes without a lock:   *)
(* profiles in several directories, the agent definitions generated from   *)
(* them, and a Hermes config.  models set reads, patches and swaps; init,  *)
(* install-agents and the Hermes merge truncate a file and then fill it;   *)
(* the operator edits by hand.  Any process may die between two steps.     *)
(***************************************************************************)
EXTENDS Ladder

CONSTANTS
  Process,
  Home, Dir,        \* the home directory, and directories with .superhuman/
  Where,            \* where commands run: see FindProfile
  Discoveries,      \* what init may find out about a repository
  Presets,          \* ladders that init may copy
  ModelTiers,       \* MODEL_TIERS
  Entries,          \* answers an operator gives for a tier
  DispatchClasses,  \* DISPATCH_CLASSES: a sequence of [tier, raised]
  HandEdits(_),     \* profiles the operator may turn a profile into by hand
  Places, Projects, \* what a location may show, what a project may have
  InitialDisks,     \* what earlier commands and the operator left behind
  MaxCalls          \* bound: commands and edits in a behaviour

ASSUME HomeAssumption == Home \in Dir
ASSUME ClassesAssumption == DispatchClasses \in Seq(Range(DispatchClasses))
ASSUME WhereAssumption ==
  \A w \in Where : w.override \in Dir \cup {"none"} /\ w.chain \in Seq(Range(w.chain))

VARIABLES
  disk,       \* the contents of every file
  pc, call,   \* each process: where it is, and the command it runs
  todo,       \* the files it has yet to write, by their turn, and what with
  linked,     \* the file it has opened is still the one at that path
  changed,    \* what others changed behind its back: see Noted
  calls

vars == <<disk, pc, call, todo, linked, changed, calls>>

NoFile == [form |-> "absent"]
Empty == [form |-> "empty"]
Garbled == [form |-> "garbled"]     \* two texts written over one another

DispatchClass == Range(DispatchClasses)
Profiles == {[kind |-> "profile", at |-> d] : d \in Dir}
InitCheck == [kind |-> "init-check"]        \* <home profile>.init-check
Agents == {[kind |-> "agent", of |-> c] : c \in DispatchClass}
HermesConfig == [kind |-> "hermes"]
Path == Profiles \cup {InitCheck} \cup Agents \cup {HermesConfig}
ProfileAt(d) == [kind |-> "profile", at |-> d]

ASSUME DisksAssumption == \A d \in InitialDisks : DOMAIN d = Path

Placeholder == [primary |-> "PROMPT_ME", effort |-> "PROMPT_ME", raised |-> "unset"]
\* A profile: its ladder (empty: not declared), the cells it defaults to, its
\* tiers' models, and whether its models: key can be patched.
NewProfile(ladder) ==
  [form |-> "profile", ladder |-> ladder, defaults |-> <<>>, key |-> "none",
   models |-> <<>>]

HandWritten == [form |-> "agent", by |-> "hand", model |-> "theirs", effort |-> "unset"]
-----------------------------------------------------------------------------
\* load_profile accepts it: a version, a list of rungs with names of their own,
\* each with detectors, and known ones only.
Loads(c) ==
  /\ c.form = "profile" /\ c.ladder \in Seq(Range(c.ladder))
  /\ \A i \in DOMAIN c.ladder :
       LET r == c.ladder[i]
       IN  /\ {"name", "detect"} \subseteq DOMAIN r
           /\ DOMAIN r.detect # {} /\ DOMAIN r.detect \subseteq DOMAIN Tier
           /\ \A j \in DOMAIN c.ladder : r.name = c.ladder[j].name => i = j

LadderOf(c) ==
  LET entries == IF c.ladder = <<>> THEN BuiltinLadder ELSE c.ladder
  IN  [i \in DOMAIN entries |-> Merged(c.defaults, entries[i])]

\* The first profile on the way up, not past the main checkout and not in the
\* home directory, which comes last.
FindProfile(w) ==
  LET searched == {i \in DOMAIN w.chain :
                     /\ \A j \in 1 .. i : w.chain[j] # Home
                     /\ \A j \in 1 .. i - 1 : w.chain[j] # w.ceiling}
      hits == {i \in searched :
                 w.chain[i] \in Dir /\ disk[ProfileAt(w.chain[i])] # NoFile}
  IN  IF w.override # "none" THEN w.override
      ELSE IF hits # {} THEN w.chain[Min(hits)]
      ELSE Home

FileFor(w) == disk[ProfileAt(FindProfile(w))]

\* _load_for_cli: the profile, the built-in ladder, or an error.
Loaded(w) ==
  IF FileFor(w) # NoFile THEN FileFor(w)
  ELSE IF w.override # "none" \/ w.require THEN Garbled
  ELSE NewProfile(<<>>)

\* cmd_check: the exit code.
Check(w, place, action, prj, level, kickoff) ==
  IF level = "H" THEN "ok"
  ELSE IF ~Loads(Loaded(w)) THEN "usage"
  ELSE CheckLadder(LadderOf(Loaded(w)), place, action, prj, level, kickoff)
-----------------------------------------------------------------------------
Drafts == {ProposeLadder(d) : d \in Discoveries} \cup Presets

Idle(p) == pc[p] = "idle"
Turn(p) == Min(DOMAIN todo[p])
NextFile(p) == todo[p][Turn(p)]
Quiet == \A p \in Process : Idle(p)

NoCall == [kind |-> "none"]

\* The files that others changed while q's command runs: since its look, if it
\* takes one (models set and install-agents do), and in the case of a file that
\* it writes, since it opened that file.  Every step of q's own moves pc[q].
Noted ==
  changed' = [q \in Process |->
    IF pc'[q] = "idle" \/ (pc'[q] # pc[q] /\ pc[q] \in {"idle", "reading", "planning"})
      THEN {}
    ELSE IF pc'[q] = pc[q] THEN changed[q] \cup {f \in Path : disk'[f] # disk[f]}
    ELSE IF pc[q] = "writing" THEN changed[q] \ {NextFile(q)[1]}
    ELSE changed[q]]

Begin(p, c, at) ==
  /\ Idle(p) /\ calls < MaxCalls
  /\ calls' = calls + 1
  /\ call' = [call EXCEPT ![p] = c]
  /\ pc' = [pc EXCEPT ![p] = at]

End(p) ==
  /\ pc' = [pc EXCEPT ![p] = "idle"]
  /\ call' = [call EXCEPT ![p] = NoCall]
  /\ todo' = [todo EXCEPT ![p] = <<>>]

Return(p) == End(p) /\ UNCHANGED linked

Goto(p, at) == pc' = [pc EXCEPT ![p] = at] /\ UNCHANGED call

\* Who has the file at this path open goes on with one that has lost its name.
Unlinked(path) ==
  [q \in Process |-> linked[q] /\ ~(pc[q] = "filling" /\ NextFile(q)[1] = path)]

Init ==
  /\ disk \in InitialDisks
  /\ pc = [p \in Process |-> "idle"]
  /\ call = [p \in Process |-> NoCall]
  /\ todo = [p \in Process |-> <<>>]
  /\ linked = [p \in Process |-> TRUE]
  /\ changed = [p \in Process |-> {}]
  /\ calls = 0
-----------------------------------------------------------------------------
\* models set: which file to write is decided first, and then it is read.
CallModelsSet(p) ==
  \E w \in Where, t \in ModelTiers, e \in Entries \cup {Placeholder} :
    /\ Begin(p, [kind |-> "models", at |-> FindProfile(w), tier |-> t, entry |-> e],
             "reading")
    /\ UNCHANGED <<disk, todo, linked>> /\ Noted

\* Mutant: the tiers that the call does not name are written afresh.
PatchedAfresh(c, tier, entry) ==
  [form |-> "profile", key |-> "plain",
   ladder |-> IF c.form = "profile" THEN c.ladder ELSE <<>>,
   defaults |-> IF c.form = "profile" THEN c.defaults ELSE <<>>,
   models |-> [t \in ModelTiers |-> IF t = tier THEN entry ELSE Placeholder]]

\* write_models_block: the tier, and a placeholder for tiers never answered; an
\* empty file counts as an empty mapping.
Patched(c, tier, entry) ==
  LET old == IF c.form = "profile" THEN c ELSE NewProfile(<<>>)
  IN  [form |-> "profile", ladder |-> old.ladder, defaults |-> old.defaults, key |-> "plain",
       models |-> [t \in ModelTiers \cup DOMAIN old.models |->
                     IF t = tier THEN entry
                     ELSE IF t \in DOMAIN old.models THEN old.models[t]
                     ELSE Placeholder]]

\* Refused for a text that is no mapping, or a models: key it cannot patch.
ModelsRead(p) ==
  /\ pc[p] = "reading"
  /\ LET c == disk[ProfileAt(call[p].at)]
     IN  IF c = Garbled \/ (c.form = "profile" /\ c.key = "odd")
           THEN Return(p)
         ELSE /\ todo' = [todo EXCEPT ![p] =
                   <<<<ProfileAt(call[p].at), Patched(c, call[p].tier, call[p].entry)>>>>]
              /\ Goto(p, "swapping") /\ UNCHANGED linked
  /\ UNCHANGED <<disk, calls>> /\ Noted

\* Mutant: the patched text is not loaded before it is renamed.
PatchAcceptedAny(text) == TRUE

PatchAccepted(text) == Loads(text)

\* The patched text is loaded from a temporary file of its own and renamed over
\* the profile; whoever has the old file open goes on writing to it.
ModelsSwap(p) ==
  /\ pc[p] = "swapping"
  /\ LET path == NextFile(p)[1]  text == NextFile(p)[2]
     IN  IF PatchAccepted(text)
           THEN disk' = [disk EXCEPT ![path] = text] /\ linked' = Unlinked(path)
           ELSE UNCHANGED <<disk, linked>>
  /\ End(p) /\ UNCHANGED calls /\ Noted
-----------------------------------------------------------------------------
\* Path.write_text, of the first file to write: open truncates it ...
Truncate(p) ==
  /\ pc[p] = "writing"
  /\ disk' = [disk EXCEPT ![NextFile(p)[1]] = Empty]
  /\ linked' = [linked EXCEPT ![p] = TRUE]
  /\ pc' = [pc EXCEPT ![p] = "filling"]
  /\ UNCHANGED <<call, todo, calls>> /\ Noted

\* ... and close puts the text there, unless the path is another file's by now.
\* Two texts in one file: the longer one may stick out behind the other.
Fill(p) ==
  /\ pc[p] = "filling"
  /\ LET path == NextFile(p)[1]  text == NextFile(p)[2]
     IN  IF ~linked[p] THEN UNCHANGED disk
         ELSE \E t \in IF disk[path] = Empty THEN {text} ELSE {text, Garbled} :
                disk' = [disk EXCEPT ![path] = t]
  /\ IF NextFile(p)[1] = InitCheck THEN
       Goto(p, "validating") /\ UNCHANGED todo
     ELSE IF DOMAIN todo[p] = {Turn(p)} THEN End(p)
     ELSE /\ todo' = [todo EXCEPT ![p] = Restrict(@, DOMAIN @ \ {Turn(p)})]
          /\ Goto(p, "writing")
  /\ linked' = [linked EXCEPT ![p] = TRUE]
  /\ UNCHANGED calls /\ Noted
-----------------------------------------------------------------------------
\* init: the draft goes to a temporary file whose name every init shares.
CallInit(p) ==
  \E draft \in Drafts, mode \in {"plain", "force", "dry_run"} :
    /\ Begin(p, [kind |-> "init", draft |-> draft, mode |-> mode], "writing")
    /\ todo' = [todo EXCEPT ![p] = <<<<InitCheck, NewProfile(draft)>>>>]
    /\ UNCHANGED <<disk, linked>> /\ Noted

\* It is loaded, if it is still there, and removed in any case.
InitValidate(p) ==
  /\ pc[p] = "validating"
  /\ disk' = [disk EXCEPT ![InitCheck] = NoFile] /\ linked' = Unlinked(InitCheck)
  /\ IF Loads(disk[InitCheck]) THEN Goto(p, "deciding") /\ UNCHANGED todo
                                ELSE End(p)
  /\ UNCHANGED calls /\ Noted

\* An existing profile is overwritten with --force only.
InitDecide(p) ==
  /\ pc[p] = "deciding"
  /\ IF call[p].mode = "dry_run"
        \/ (disk[ProfileAt(Home)] # NoFile /\ call[p].mode # "force")
       THEN Return(p)
       ELSE /\ todo' = [todo EXCEPT ![p] =
                   <<<<ProfileAt(Home), NewProfile(call[p].draft)>>>>]
            /\ Goto(p, "writing") /\ UNCHANGED linked
  /\ UNCHANGED <<disk, calls>> /\ Noted
-----------------------------------------------------------------------------
\* plan_claude_code_tier_agents: the file of a class, NoFile if it is skipped.
Planned(c, class) ==
  IF class.tier \notin DOMAIN c.models THEN NoFile
  ELSE LET e == c.models[class.tier]
           effort == IF class.raised THEN e.raised
                     ELSE IF e.effort \in {"PROMPT_ME", "n/a"} THEN "unset"
                     ELSE e.effort
       IN  IF e.primary = "PROMPT_ME" THEN NoFile
           ELSE IF class.raised /\ e.raised \in {"unset", "PROMPT_ME"} THEN NoFile
           ELSE [form |-> "agent", by |-> "generated",
                 model |-> e.primary, effort |-> effort]

AgentPath(class) == [kind |-> "agent", of |-> class]

\* No marker: somebody's own file, or one that was truncated and never filled.
Unmarked(c) == c = Empty \/ (c.form = "agent" /\ c.by # "generated")

CallInstallAgents(p) ==
  \E w \in Where :
    /\ Begin(p, [kind |-> "install", where |-> w], "planning")
    /\ UNCHANGED <<disk, todo, linked>> /\ Noted

\* Mutant: files are overwritten without a look at them.
MayOverwriteAny(classes) == classes # {}

MayOverwrite(classes) == \A c \in classes : ~Unmarked(disk[AgentPath(c)])

\* Mutant: only the definitions that are missing are written.
ChosenMissing(c) ==
  {i \in DOMAIN DispatchClasses : /\ Planned(c, DispatchClasses[i]) # NoFile
                                  /\ disk[AgentPath(DispatchClasses[i])] = NoFile}

\* The turns of the classes that are not skipped.
Chosen(c) == {i \in DOMAIN DispatchClasses : Planned(c, DispatchClasses[i]) # NoFile}

\* install_claude_code_agents up to its writes: all or nothing is refused.
InstallPlan(p) ==
  /\ pc[p] = "planning"
  /\ LET c == Loaded(call[p].where)
         chosen == Chosen(c)
         classes == {DispatchClasses[i] : i \in chosen}
     IN  IF ~Loads(c) \/ chosen = {} \/ ~MayOverwrite(classes) THEN Return(p)
         ELSE /\ todo' = [todo EXCEPT ![p] =
                   [i \in chosen |-> <<AgentPath(DispatchClasses[i]),
                                       Planned(c, DispatchClasses[i])>>]]
              /\ Goto(p, "writing") /\ UNCHANGED linked
  /\ UNCHANGED <<disk, calls>> /\ Noted

\* _claude_code_tier_agent_status, for doctor.
AgentStatus(c, class) ==
  IF Planned(c, class) = NoFile THEN "n/a"
  ELSE IF disk[AgentPath(class)] = NoFile THEN "missing"
  ELSE IF disk[AgentPath(class)] = Planned(c, class) THEN "ok" ELSE "stale"

DoctorIsHappy(w) ==
  \A class \in DispatchClass : AgentStatus(Loaded(w), class) \in {"ok", "n/a"}
-----------------------------------------------------------------------------
Hermes(model, effort, rest) ==
  [form |-> "hermes", model |-> model, effort |-> effort, rest |-> rest]

CallHermes(p) ==
  \E w \in Where :
    /\ Begin(p, [kind |-> "hermes", where |-> w], "merging")
    /\ UNCHANGED <<disk, todo, linked>> /\ Noted

\* merge_hermes_delegation, and what it is asked to set: the standard tier.
HermesMerge(p) ==
  /\ pc[p] = "merging"
  /\ LET c == Loaded(call[p].where)
         old == IF disk[HermesConfig].form = "hermes" THEN disk[HermesConfig]
                ELSE Hermes("unset", "unset", "none")
         e == c.models["standard"]
     IN  IF ~Loads(c) \/ disk[HermesConfig] = Garbled THEN Return(p)
         ELSE IF "standard" \notin DOMAIN c.models THEN Return(p)
         ELSE IF e.primary = "PROMPT_ME" THEN Return(p)
         ELSE /\ todo' = [todo EXCEPT ![p] = <<<<HermesConfig, Hermes(e.primary,
                   IF e.effort \in {"unset", "PROMPT_ME", "n/a"} THEN old.effort
                   ELSE e.effort, old.rest)>>>>]
              /\ Goto(p, "writing") /\ UNCHANGED linked
  /\ UNCHANGED <<disk, calls>> /\ Noted
-----------------------------------------------------------------------------
\* The operator saves a file under its name: a profile, an agent definition of
\* their own, or another setting of the Hermes config.
Save(path, text) ==
  /\ calls < MaxCalls /\ calls' = calls + 1
  /\ disk' = [disk EXCEPT ![path] = text] /\ linked' = Unlinked(path)
  /\ UNCHANGED <<pc, call, todo>> /\ Noted

EditProfile ==
  \E d \in Dir : \E c \in HandEdits(disk[ProfileAt(d)]) : Save(ProfileAt(d), c)

WriteAgent == \E c \in DispatchClass : Save(AgentPath(c), HandWritten)

EditHermes ==
  /\ disk[HermesConfig].form = "hermes"
  /\ Save(HermesConfig, [disk[HermesConfig] EXCEPT !.rest = "edited"])

\* A process dies; what it has truncated stays so, its temporary file too.
Crash(p) ==
  /\ ~Idle(p)
  /\ End(p) /\ linked' = [linked EXCEPT ![p] = TRUE]
  /\ UNCHANGED <<disk, calls>> /\ Noted

Step(p) ==
  \/ ModelsRead(p) \/ ModelsSwap(p) \/ Truncate(p) \/ Fill(p)
  \/ InitValidate(p) \/ InitDecide(p) \/ InstallPlan(p) \/ HermesMerge(p)

Next ==
  \/ \E p \in Process :
       \/ CallModelsSet(p) \/ CallInit(p) \/ CallInstallAgents(p) \/ CallHermes(p)
       \/ Step(p) \/ Crash(p)
  \/ EditProfile \/ WriteAgent \/ EditHermes

Spec == Init /\ [][Next]_vars
-----------------------------------------------------------------------------
\* Every file holds what a command or an editor may leave in it, and a process
\* writes only to files of the command it runs.
TypeOK ==
  /\ \A x \in Path : disk[x].form \in
       {"absent", "empty", "garbled",
        CASE x.kind = "agent" -> "agent" [] x.kind = "hermes" -> "hermes"
          [] OTHER -> "profile"}
  /\ \A p \in Process : \A i \in DOMAIN todo[p] :
       todo[p][i][1].kind \in
         CASE call[p].kind = "models" -> {"profile"}
           [] call[p].kind = "init" -> {"profile", "init-check"}
           [] call[p].kind = "install" -> {"agent"}
           [] call[p].kind = "hermes" -> {"hermes"}
           [] OTHER -> {}

\* models set renames into place a profile that loads, holds the new answer, and is
\* the one every command reads that finds that file; and unless somebody changed
\* the file after models set had read it, nothing else there is lost: the answers
\* of the other tiers and the ladder are those of the file that is replaced.
AnswersAreReadBack ==
  [][\A p \in Process :
       ModelsSwap(p) /\ disk' # disk =>
       LET path == ProfileAt(call[p].at)
           before == disk[path]
           after == disk'[path]
       IN  /\ Loads(after) /\ after.models[call[p].tier] = call[p].entry
           /\ \A w \in Where : FindProfile(w) = call[p].at => Loaded(w)' = after
           /\ path \notin changed[p] /\ Loads(before) =>
                /\ LadderOf(after) = LadderOf(before)
                /\ \A t \in DOMAIN before.models \ {call[p].tier} :
                     after.models[t] = before.models[t]]_vars

\* Whatever a command completes in a profile can be loaded: a patch of a profile
\* that was broken, by models set, and a proposal with two rungs of one name, by
\* init, are refused.  What else init completes was spoilt by somebody who wrote,
\* while it ran, to the temporary file that every init shares, or to the profile
\* that it had open.  (A truncated one that is never completed is not excluded.)
OnlyLoadableProfilesAreWritten ==
  [][\A p \in Process, f \in Profiles :
       Step(p) /\ disk'[f] # disk[f] /\ disk'[f] # Empty =>
         \/ Loads(disk'[f])
         \/ Fill(p) /\ changed[p] \cap {f, InitCheck} # {}]_vars

\* An agent definition somebody wrote by hand goes only when an install opens that
\* very file, and only one that came after the look of that install: what it saw,
\* and what is saved once it has the file open, stays.
HandWrittenSurvives ==
  [][\A a \in Agents : disk[a] = HandWritten /\ disk'[a] # disk[a] =>
       \E p \in Process : Truncate(p) /\ NextFile(p)[1] = a /\ a \in changed[p]]_vars

\* The two readers of the plan agree: an install that runs to its end leaves no
\* agent that doctor calls missing or stale, unless somebody changed a profile
\* after its look, an agent it had open, or one it does not write again.
InstallSatisfiesDoctor ==
  [][\A p \in Process, w \in Where :
       (Fill(p) /\ call[p] = [kind |-> "install", where |-> w] /\ pc'[p] = "idle"
          /\ changed[p] \cap (Profiles \cup Agents) = {})
         => DoctorIsHappy(w)']_vars
-----------------------------------------------------------------------------
Ladders == {LadderOf(c) : c \in {x \in {disk[f] : f \in Profiles} : Loads(x)}}

Swapped(ladder, i, j) ==
  [k \in DOMAIN ladder |->
     IF k = i THEN ladder[j] ELSE IF k = j THEN ladder[i] ELSE ladder[k]]

\* The order in which an operator declares the rungs decides nothing that resolve
\* does not report as ambiguous: whichever two rungs trade places, every location
\* keeps its stage unless the warning was raised there.
OrderMattersOnlyWhenReported ==
  Quiet => \A ladder \in Ladders, place \in Places :
    Ambiguous(ladder, place) = {} =>
      \A i, j \in DOMAIN ladder :
        LET other == Swapped(ladder, i, j)
            was == Stage(ladder, place)
            is == Stage(other, place)
        IN  (was = 0 /\ is = 0) \/ (was # 0 /\ is # 0 /\ other[is] = ladder[was])

\* The levels of autonomy are nested: what is allowed unattended at the lowest is
\* allowed at the middle and at the highest, and what is allowed once a project
\* runs is allowed at its kickoff.
LevelsAreNested ==
  Quiet => \A w \in Where, place \in Places, action \in ActionClass, prj \in Projects :
    LET Ok(level, kickoff) == Check(w, place, action, prj, level, kickoff) = "ok"
    IN  \A kickoff \in BOOLEAN :
          /\ Ok("L", kickoff) => Ok("M", kickoff)
          /\ Ok("M", kickoff) => Ok("H", kickoff)
          /\ \A level \in {"L", "M"} : Ok(level, FALSE) => Ok(level, TRUE)

\* A comment in propose_ladder: "A marker is safe on a protected rung: markers
\* outrank paths, so here it can only ever tighten."  What an unattended run may
\* do under a proposed ladder it may do under the one without the markers.
MarkerOnlyTightens ==
  Quiet => \A d \in Discoveries, place \in Places :
    disk[ProfileAt(Home)] = NewProfile(ProposeLadder(d)) =>
      LET Ok(ladder) == LET s == Stage(ladder, place)
                        IN  Verdict("act_unattended", Cell(ladder[s], "act_unattended")) = "ok"
      IN  Ok(ProposeLadder(d)) => Ok(ProposeWith(d, FALSE))
=============================================================================
