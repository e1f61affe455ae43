----------------------------- MODULE MCProfile -----------------------------
EXTENDS Profile

Nothing == [marker_file |-> {}, env_marker |-> {}, path_segments |-> {},
            branch |-> {}, tag_channel |-> {}, worktree |-> {}]

\* A deployed copy of prod with and without its marker, a checkout of the trunk,
\* of a release and of a feature branch, a developer's copy under dev/, and both
\* names in one path.
MCPlaces ==
  {[Nothing EXCEPT !.path_segments = {"prod"}],
   [Nothing EXCEPT !.path_segments = {"prod"}, !.env_marker = {"prod"}],
   [Nothing EXCEPT !.branch = {"main"}],
   [Nothing EXCEPT !.branch = {"main"}, !.tag_channel = {"stable"}],
   [Nothing EXCEPT !.branch = {"feature"}, !.path_segments = {"dev"}],
   [Nothing EXCEPT !.path_segments = {"dev", "prod"}, !.env_marker = {"prod"}]}

Prj(origin, goal, rollback) ==
  [git |-> TRUE, origin |-> origin, root_goal |-> FALSE, slug |-> TRUE,
   goal |-> goal, manifest |-> "yes", rollback |-> rollback]
MCProjects == {Prj(o, g, r) : o, g, r \in BOOLEAN}

\* An environment may be named like a rung that init always proposes.
MCEnvNames == <<"dev", "prod", "work">>
Found(names, reviewed) ==
  [names |-> names, default_branch |-> "none", protected |-> FALSE,
   reviewers |-> [n \in {"dev", "prod", "work"} |-> IF n \in reviewed THEN 2 ELSE 0]]
MCDiscoveries == {Found({"dev", "prod"}, {}), Found({"dev", "work"}, {"dev"})}
MCPresets == {<<Rung("trunk", [branch |-> {"main"}], Never, Unresolved),
                Rung("release", [branch |-> {"main"}], AnyOf({"self"}), NoApproval)>>}

Standard == [tier |-> "standard", raised |-> FALSE]
MCDispatchClasses ==
  <<[tier |-> "most_capable", raised |-> FALSE],
    [tier |-> "most_capable", raised |-> TRUE], Standard>>
MCEntries == {[primary |-> "m1", effort |-> "high", raised |-> "max"]}

\* One cell filled in; where no profile was, a new one or something that is none.
MCHandEdits(c) ==
  IF c.form # "profile" THEN {NewProfile(<<>>), Garbled}
  ELSE {[c EXCEPT !.ladder[i].approvals["promote_into"] = AnyOf({"human"})] :
          i \in {k \in DOMAIN c.ladder :
                   /\ "promote_into" \in DOMAIN c.ladder[k].approvals
                   /\ c.ladder[k].approvals["promote_into"] = Unresolved}}

\* Commands are given the path of a linked worktree below the checkout; or they
\* run there with the default root, ".", which has no parents to go up to; or they
\* are pointed home.
InWorktree == [chain |-> <<"worktree", "repo", "home">>, ceiling |-> "repo",
               override |-> "none", require |-> FALSE]
HereOnly == [InWorktree EXCEPT !.chain = <<"worktree">>]
Overridden == [InWorktree EXCEPT !.override = "home"]
MCWhere == {InWorktree, HereOnly, Overridden}

Answered == [most_capable |-> [primary |-> "m0", effort |-> "low", raised |-> "high"],
             standard |-> [primary |-> "m0", effort |-> "n/a", raised |-> "unset"],
             theirs |-> [primary |-> "m8", effort |-> "unset", raised |-> "unset"]]
Blank == [x \in Path |-> NoFile]
InRepo(c) == [Blank EXCEPT ![ProfileAt("repo")] = c]
MCInitialDisks ==
  {Blank,
   [InRepo([NewProfile(ProposeLadder(Found({"dev", "prod"}, {}))) EXCEPT
              !.key = "plain", !.models = Answered])
      EXCEPT ![AgentPath(Standard)] = HandWritten,
             ![HermesConfig] = Hermes("m9", "low", "mine")],
   [InRepo([NewProfile(<<>>) EXCEPT !.key = "plain", !.models = Answered])
      EXCEPT ![AgentPath(Standard)] =
        [form |-> "agent", by |-> "generated", model |-> "m9", effort |-> "low"]],
   \* Broken by hand: two rungs of one name.
   InRepo([NewProfile(ProposeLadder(Found({"dev", "work"}, {"dev"}))) EXCEPT
             !.key = "plain", !.models = Answered]),
   InRepo([NewProfile(<<>>) EXCEPT !.key = "odd"])}
=============================================================================
