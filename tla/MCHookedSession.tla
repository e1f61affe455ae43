--------------------------- MODULE MCHookedSession --------------------------
EXTENDS HookedSession

\* Installers differ in name only.
Symmetry == Permutations(Installer)

\* A checkout of the skill, a linked worktree of it, and another repository that
\* is cloned into the directory of a project of the first.  Commands may also point
\* elsewhere, to a checkout whose path is not recognised, and that is gone.
MCMainOf == [main |-> "main", worktree |-> "main", clone |-> "clone"]

InTree(top, outer, inside, branch) ==
  [top |-> top, outer |-> outer, below_home |-> TRUE, inside |-> inside,
   declared |-> NoSlug, branch |-> branch]
InMain == InTree("main", NoRoot, {}, "s")
InWorktree == InTree("worktree", "main", {}, "t")
InClone == InTree("clone", "main", {<<"main", "s">>}, NoSlug)

Block(text) == [form |-> "role", role |-> "pm", text |-> text]
NonRole == [form |-> "non_role"]
D(prompt, agent, anchor, place) ==
  [prompt |-> prompt, agent |-> agent, model |-> FALSE, opt_in |-> FALSE, readable |-> TRUE,
   session |-> "one", scratchpad |-> TRUE, anchor |-> anchor, place |-> place]

\* The second gate shares the cache of the first.
CONSTANTS gate1, gate2

MCDispatches ==
  (gate1 :> {D(Block("v2"), "standard", InWorktree, InMain),
              [D(Block("v1"), "capable", Nowhere, InMain) EXCEPT !.opt_in = TRUE],
              [D(Block("v2"), "capable", InMain, InClone)
                 EXCEPT !.scratchpad = FALSE, !.readable = FALSE],
              [D(NonRole, "standard", Nowhere, InWorktree) EXCEPT !.scratchpad = FALSE],
              [D(NonRole, "other", InClone, InMain) EXCEPT !.scratchpad = FALSE]})
  @@ (gate2 :> {D(Block("v2"), "standard", Nowhere, InWorktree)})
MCPolicy == [pm |-> [default |-> "standard", opt_in |-> {"capable"}]]

Pm(text) == [pm |-> text]
MCRoleEdits(files) ==
  IF files = Pm("v1") THEN {Pm("odd")}
  ELSE IF files = Pm("v2") THEN {Pm("v1"), Pm("unreadable")}
  ELSE {}
MCInitialRoles ==
  {[main |-> Pm("v1"), worktree |-> Pm("v2"), clone |-> <<>>]}
MCInitialProjects == {{}, {<<"main", "s">>, <<"main", "t">>, <<"worktree", "t">>}}

Startup == [event |-> "SessionStart", matcher |-> "startup", hook |-> "session-start"]
RoleGateEntry ==
  [event |-> "PreToolUse", matcher |-> "Agent|Task", hook |-> "pre-tool-use-role-gate"]
MCExpected == <<Startup, RoleGateEntry>>

\* The harness or the operator adds a hook to a group, or an event of their own.
Lint == Group("startup", List(<<Theirs("lint")>>))
MCRewrites(s) ==
  IF s = Absent THEN {Object(Missing), Invalid}
  ELSE IF s = Invalid THEN {Object(Events([PreToolUse |-> Odd]))}
  ELSE IF s.hooks.form = "missing" THEN {Object(Events([SessionStart |-> List(<<Lint, Odd>>)]))}
  ELSE IF s.hooks.form = "events" /\ "SessionStart" \notin DOMAIN s.hooks.of
    THEN {}
  ELSE IF s.hooks.form = "events" /\ s.hooks.of["SessionStart"].form = "list"
    THEN {[s EXCEPT !.hooks.of["SessionStart"].of = Append(@, Lint)]}
  ELSE {}

\* Nothing yet; an old install by hand from the worktree, next to others' hooks;
\* groups without commands and events without groups; and what somebody wrote in
\* other types.
MCInitialSettings ==
  {Absent,
   Object(Events([SessionStart |->
     List(<<Odd, Group("startup", List(<<Theirs("lint"), Ours("session-start", "worktree")>>)),
            Group("resume", List(<<Ours("session-start", "worktree")>>))>>)])),
   Object(Events([SessionStart |-> List(<<Group("startup", Missing), Group("startup", List(<<>>)),
                                          Group("clear", List(<<>>))>>),
                  PreToolUse |-> List(<<Group("Agent|Task", List(<<Ours("pre-tool-use-role-gate", "main")>>))>>)])),
   Object(Events([SessionStart |-> List(<<Group("startup", List(<<>>)), Group("startup", Odd)>>),
                  PreToolUse |-> List(<<>>), Stop |-> List(<<>>)]))}
=============================================================================
