------------------------------ MODULE RoleGate ------------------------------
(***************************************************************************)
(* pre_tool_use_role_gate.py with role_block.py and role_tiers.py: for     *)
(* each dispatch of a subagent the harness runs a process that compares    *)
(* the prompt with the role files of the checkout the hook was installed   *)
(* from, asks which project the session works in (cached per session), may *)
(* compare once more with the session's own checkout, prints a denial or   *)
(* nothing, and logs.  The harness kills a gate that takes too long.       *)
(***************************************************************************)
EXTENDS Locate, Functions

CONSTANTS
  Gate,         \* gate processes, one for each dispatch
  Dispatches,   \* by gate, the dispatches it may be asked about: see Dispatch
  Skills,       \* the working trees that are checkouts of the skill
  Role, Text,   \* role names, and whole texts of a role
  Tiers,        \* the agents of the dispatch classes
  Policy,       \* role-tiers.json: a function on some roles to [default, opt_in]
  Observed,     \* working trees where fleet observation is enabled
  RoleEdits(_), \* the role files that a checkout's may turn into
  InitialRoles, InitialProjects


VARIABLES
  present,    \* the working trees that are still there
  roles,      \* roles[root]: a function on the roles that have a file there
  projects,   \* the projects there are: <<working tree, slug>>
  cache,      \* by session: nothing, a project, or "refused"
  gate,       \* the state of each process
  log         \* role-gate.jsonl

gateVars == <<present, roles, projects, cache, gate, log>>

NoneCached == [workspace |-> "nothing", slug |-> NoSlug]

\* A prompt opens with the literal line, with a role block, or with prose.  The
\* anchor is $CLAUDE_PROJECT_DIR, the place the payload's cwd; a payload without
\* a scratchpad has no cache; readable tells whether role-tiers.json can be read.
Dispatch ==
  [prompt : [form : {"non_role", "prose"}]
              \cup [form : {"role"}, role : Role, text : Text],
   agent : Tiers \cup {"other"}, model : BOOLEAN, opt_in : BOOLEAN,
   readable : BOOLEAN,
   session : STRING, scratchpad : BOOLEAN,
   anchor : Place \cup {Nowhere}, place : Place]
AllDispatches == UNION Range(Dispatches)

ASSUME DispatchAssumption == Dispatches \in [Gate -> SUBSET Dispatch]
ASSUME SkillsAssumption == Skills \subseteq Root
ASSUME ProjectsAssumption == \A x \in InitialProjects : x \subseteq Root \X Slug
-----------------------------------------------------------------------------
\* check_role_block.  A role file that is no regular file or too large is "odd".
CheckRoleBlock(prompt, files) ==
  IF DOMAIN files = {} THEN "FAULT"
  ELSE IF prompt.form = "non_role" THEN "NON_ROLE"
  ELSE IF prompt.form = "prose" \/ prompt.role \notin DOMAIN files THEN "UNMARKED"
  ELSE IF files[prompt.role] = "odd" THEN "UNMARKED"
  ELSE IF files[prompt.role] = "unreadable" THEN "FAULT"
  ELSE IF files[prompt.role] = prompt.text THEN "ROLE"
  ELSE "MISMATCH"

\* _role_tier_violation: a role without a row is not looked at.
RoleTierViolation(d) ==
  /\ d.prompt.role \in DOMAIN Policy
  /\ LET rule == Policy[d.prompt.role]
     IN  \/ d.model
         \/ d.agent \notin {rule.default} \cup rule.opt_in
         \/ d.agent # rule.default /\ ~d.opt_in

\* _non_role_tier_violation.
NonRoleTierViolation(d) == ~d.model /\ d.agent \notin Tiers

\* Both apply only if the policy can be read.
TierViolation(d, verdict) ==
  /\ d.readable
  /\ \/ verdict = "ROLE" /\ RoleTierViolation(d)
     \/ verdict = "NON_ROLE" /\ NonRoleTierViolation(d)

SameRepository(r, s) == MainOf[r] = MainOf[s]
Denying == {"MISMATCH", "UNMARKED"}

\* Mutant: the session's own checkout is never consulted.
SecondNever(g, ws) == FALSE

\* The second comparison takes place in another checkout of the same repository.
SecondApplies(g, ws) ==
  ws \in Skills /\ ws # gate[g].root /\ SameRepository(ws, gate[g].root)
-----------------------------------------------------------------------------
IdleGate == [at |-> "idle", said |-> "nothing"]

GateInit ==
  /\ present = Root
  /\ roles \in InitialRoles
  /\ projects \in InitialProjects
  /\ cache = [s \in {d.session : d \in AllDispatches} |-> NoneCached]
  /\ gate = [g \in Gate |-> IdleGate]
  /\ log = <<>>

\* Of a gate that said nothing nothing is left.
Leave(g) ==
  gate' = [gate EXCEPT ![g] = IF @.said = "deny" THEN [@ EXCEPT !.at = "done"]
                              ELSE [at |-> "done", said |-> "nothing"]]

GoOn(g, at) == gate' = [gate EXCEPT ![g].at = at]

Primary(d) == IF d.anchor # Nowhere THEN d.anchor ELSE d.place

\* run, up to the locator: a fault and a compliant role end here.
StartGate(g, root) ==
  /\ gate[g].at = "idle"
  /\ \E d \in Dispatches[g] :
       LET verdict == CheckRoleBlock(d.prompt, roles[root])
           tier == TierViolation(d, verdict)
           over == verdict = "FAULT" \/ (verdict = "ROLE" /\ ~tier)
       IN  gate' = [gate EXCEPT ![g] =
             IF over THEN [at |-> "done", said |-> "nothing"]
             ELSE [at |-> "cache", said |-> "nothing", d |-> d, root |-> root,
                   verdict |-> verdict, tier |-> tier,
                   found |-> Nowhere, calm |-> TRUE]]
  /\ UNCHANGED <<present, roles, projects, cache, log>>

\* _cached_locate: a working tree that is gone counts as no entry, and so does a
\* file that another gate has truncated to write it; a refusal stands.
ReadCache(g) ==
  /\ gate[g].at = "cache"
  /\ LET d == gate[g].d
         c == IF d.scratchpad THEN cache[d.session] ELSE NoneCached
         usable == c \notin {Nowhere, NoneCached} /\ c.workspace \in present
     IN  \/ IF usable THEN gate' = [gate EXCEPT ![g].found = c, ![g].at = "deciding"]
            ELSE IF c = Nowhere THEN GoOn(g, "fallback")
            ELSE GoOn(g, "locating")
         \/ /\ \E h \in Gate \ {g} : /\ gate[h].at = "caching"
                                      /\ gate[h].d.session = d.session
            /\ GoOn(g, "locating")
  /\ UNCHANGED <<present, roles, projects, cache, log>>

\* What the locator may answer, with any of its git calls too slow.
Answers(place) == {Locate(projects, place, answered) : answered \in SUBSET GitCalls}

LocatePrimary(g) ==
  /\ gate[g].at = "locating"
  /\ \E found \in Answers(Primary(gate[g].d)) :
       gate' = [gate EXCEPT ![g].found = found, ![g].at = "caching"]
  /\ UNCHANGED <<present, roles, projects, cache, log>>

\* The cache file may not be writable.
WriteCache(g) ==
  /\ gate[g].at = "caching"
  /\ \/ UNCHANGED cache
     \/ /\ gate[g].d.scratchpad
        /\ cache' = [cache EXCEPT ![gate[g].d.session] = gate[g].found]
  /\ GoOn(g, IF gate[g].found = Nowhere THEN "fallback" ELSE "deciding")
  /\ UNCHANGED <<present, roles, projects, log>>

\* An anchor that did not resolve: the payload's own directory, not cached.
Fallback(g) ==
  /\ gate[g].at = "fallback"
  /\ LET d == gate[g].d
     IN  IF d.anchor \in {Nowhere, d.place} THEN GoOn(g, "deciding")
         ELSE \E found \in Answers(d.place) :
                gate' = [gate EXCEPT ![g].found = found, ![g].at = "deciding"]
  /\ UNCHANGED <<present, roles, projects, cache, log>>

\* The rest of run: the verdict that is logged.  No role in order is logged, and
\* nothing for a session that works in no project.
FinalVerdict(g, second) ==
  LET own == gate[g].verdict
  IN  IF gate[g].found = Nowhere THEN "silent"
      ELSE IF gate[g].tier THEN "TIER_DENY"
      ELSE IF own = "NON_ROLE" \/ second = "FAULT" THEN own
      ELSE IF TierViolation(gate[g].d, second) THEN "TIER_DENY"
      ELSE IF second = "ROLE" THEN "silent"
      ELSE second

Decide(g) ==
  /\ gate[g].at = "deciding"
  /\ \E answered \in BOOLEAN :
       LET ws == gate[g].found.workspace
           second == IF answered /\ gate[g].found # Nowhere
                          /\ gate[g].verdict \in Denying /\ SecondApplies(g, ws)
                       THEN CheckRoleBlock(gate[g].d.prompt, roles[ws])
                       ELSE "FAULT"     \* what was decided first stands
           v == FinalVerdict(g, second)
       IN  IF v = "silent" THEN Leave(g)
           ELSE gate' = [gate EXCEPT ![g] = [at |-> "printing", said |-> "nothing",
                  d |-> gate[g].d, root |-> gate[g].root, found |-> gate[g].found,
                  calm |-> gate[g].calm,
                  asked |-> answered, final |-> v]]
  /\ UNCHANGED <<present, roles, projects, cache, log>>

Line(g) == [by |-> g, project |-> gate[g].found, verdict |-> gate[g].final]
Says(g) == IF gate[g].final = "NON_ROLE" THEN "nothing" ELSE "deny"

\* record_role_gate_decision: the line may be lost, the decision stands.
Logged(g) ==
  \/ UNCHANGED log
  \/ /\ gate[g].found.workspace \in present \cap Observed
     /\ log' = Append(log, Line(g))

\* Mutant: the decision is logged before it is printed.
DeliverLogFirst(g) ==
  /\ \/ /\ gate[g].at = "printing"
        /\ Logged(g)
        /\ GoOn(g, "recording")
     \/ /\ gate[g].at = "recording"
        /\ gate' = [gate EXCEPT ![g].said = Says(g), ![g].at = "done"]
        /\ UNCHANGED log
  /\ UNCHANGED <<present, roles, projects, cache>>

\* The denial is printed and flushed, then the decision is logged.
Deliver(g) ==
  /\ \/ /\ gate[g].at = "printing"
        /\ gate' = [gate EXCEPT ![g].said = Says(g), ![g].at = "recording"]
        /\ UNCHANGED log
     \/ /\ gate[g].at = "recording"
        /\ Logged(g)
        /\ Leave(g)
  /\ UNCHANGED <<present, roles, projects, cache>>

\* The harness's budget is spent: what was printed counts, else the dispatch goes on.
KillGate(g) ==
  /\ gate[g].at \notin {"idle", "done"}
  /\ Leave(g)
  /\ UNCHANGED <<present, roles, projects, cache, log>>

GateStep(g) ==
  \/ ReadCache(g) \/ LocatePrimary(g) \/ WriteCache(g) \/ Fallback(g)
  \/ Decide(g) \/ Deliver(g) \/ KillGate(g)
-----------------------------------------------------------------------------
\* What happens to the working trees meanwhile.
Stirred ==
  [g \in Gate |-> IF "calm" \in DOMAIN gate[g] THEN [gate[g] EXCEPT !.calm = FALSE]
                                               ELSE gate[g]]

EditRoles ==
  /\ \E root \in present : \E files \in RoleEdits(roles[root]) :
       roles' = [roles EXCEPT ![root] = files]
  /\ gate' = Stirred
  /\ UNCHANGED <<present, projects, cache, log>>

StartProject ==
  /\ \E x \in (present \X Slug) \ projects : projects' = projects \cup {x}
  /\ gate' = Stirred
  /\ UNCHANGED <<present, roles, cache, log>>

RemoveWorktree ==
  /\ \E root \in present :
       /\ MainOf[root] # root
       /\ present' = present \ {root}
       /\ roles' = [roles EXCEPT ![root] = <<>>]
       /\ projects' = {x \in projects : x[1] # root}
  /\ gate' = Stirred
  /\ UNCHANGED <<cache, log>>
-----------------------------------------------------------------------------
Passes(d, root) ==
  LET v == CheckRoleBlock(d.prompt, roles[root])
  IN  v \in {"ROLE", "NON_ROLE"} /\ ~TierViolation(d, v)

\* While nothing changes around it, a gate denies no dispatch that is in order in
\* the checkout of the hook, or in that of the session's project when git says
\* the two are one repository; none on account of role files that cannot be
\* read; and none for a project whose working tree is gone, whatever is cached.
DenialsAreDeserved ==
  \A g \in Gate : (gate[g].said = "deny" /\ gate[g].calm) =>
    LET d == gate[g].d  ws == gate[g].found.workspace  hook == gate[g].root
    IN  /\ ~Passes(d, hook)
        /\ CheckRoleBlock(d.prompt, roles[hook]) # "FAULT"
        /\ ws \in present
        /\ (gate[g].asked /\ ws \in Skills /\ SameRepository(ws, hook))
             => ~Passes(d, ws)

\* The decision log never claims a denial that the harness did not get, nor a
\* denied dispatch that was let through, and tells of no dispatch twice: a gate
\* that is killed may lose its line, not its word.
LogTellsTheTruth ==
  \A i \in DOMAIN log :
    /\ gate[log[i].by].said = IF log[i].verdict = "NON_ROLE" THEN "nothing" ELSE "deny"
    /\ \A j \in DOMAIN log : log[j].by = log[i].by => i = j

\* Whichever git calls run out of time, the locator names the project it names
\* when all are answered, or none, or one in whose directory the session stands.
SlowGitNeverMisleads ==
  \A place \in UNION {{d.place, Primary(d)} : d \in AllDispatches} :
    LET answer == Locate(projects, place, GitCalls)
    IN  \A slow \in Answers(place) \ {Nowhere, answer} :
          <<slow.workspace, slow.slug>> \in place.inside
=============================================================================
