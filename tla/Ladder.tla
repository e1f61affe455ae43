------------------------------- MODULE Ladder -------------------------------
(***************************************************************************)
(* The decisions of superhuman_profile.py as operators: which rung of a    *)
(* deployment ladder a location resolves to, what its policy says of an    *)
(* unattended run, which preconditions of the project are missing, and     *)
(* which ladder init proposes for what it discovered.  A glob is a name or *)
(* "*"; what a location shows to a detector is a set of names.             *)
(***************************************************************************)
EXTENDS Naturals, Sequences, FiniteSets, FiniteSetsExt, SequencesExt

CONSTANTS
  EnvNames,     \* environment names that discovery may find, sorted
  Hinted        \* those that contain a name fragment of _PROTECTED_HINTS

ASSUME HintedAssumption == Hinted \subseteq Range(EnvNames)

ActionClass == {"act_unattended", "promote_into"}
Approvers == {"human", "self", "agent"}    \* "human" and human:<name> alike

Unresolved == [mode |-> "unresolved", approvers |-> {}]    \* null
Never      == [mode |-> "never", approvers |-> {}]
NoApproval == [mode |-> "none", approvers |-> {}]
AnyOf(s)   == [mode |-> "any_of", approvers |-> s]
AllOf(s)   == [mode |-> "all_of", approvers |-> s]

Approval ==
  LET groups == SUBSET Approvers \ {{}}
  IN  {Unresolved, Never, NoApproval}
        \cup {AnyOf(s) : s \in groups} \cup {AllOf(s) : s \in groups}

\* any_of needs a human if nobody else may approve, all_of if one must.
RequiresHuman(a) ==
  \/ a.mode = "any_of" /\ a.approvers \subseteq {"human"}
  \/ a.mode = "all_of" /\ "human" \in a.approvers

\* unattended_verdict, and cmd_check's reading of promote_into.
Verdict(action, a) ==
  IF a.mode = "unresolved" THEN "unresolved"
  ELSE IF a = Never \/ (action = "act_unattended" /\ RequiresHuman(a))
    THEN "denied"
  ELSE "ok"
-----------------------------------------------------------------------------
\* A rung: a name, what it detects (a function on some detector keys) and the
\* cells it declares (a function on some action classes).
Cell(rung, action) ==
  IF action \in DOMAIN rung.approvals THEN rung.approvals[action] ELSE Unresolved

\* load_profile: the defaults fill the cells that a rung leaves out.
Merged(defaults, rung) ==
  [rung EXCEPT !.approvals =
     [a \in DOMAIN rung.approvals \cup DOMAIN defaults |->
        IF a \in DOMAIN rung.approvals THEN rung.approvals[a] ELSE defaults[a]]]

Tier == [marker_file |-> 2, env_marker |-> 3, path_segments |-> 4, branch |-> 5,
         tag_channel |-> 5, worktree |-> 5, default |-> 6]

\* _match_key.  Exact names for files and markers, globs for the rest.
KeyMatches(k, spec, place) ==
  CASE k = "default" -> spec # {}
    [] k \in {"marker_file", "env_marker"} -> place[k] \cap spec # {}
    [] k \in {"path_segments", "branch", "tag_channel"} ->
         place[k] # {} /\ ("*" \in spec \/ place[k] \cap spec # {})
    [] k = "worktree" -> "any" \in spec \/ place[k] \cap spec # {}

RungMatches(rung, place) ==
  \A k \in DOMAIN rung.detect : KeyMatches(k, rung.detect[k], place)

Authority(rung) == Min({Tier[k] : k \in DOMAIN rung.detect})
Specificity(rung) == Cardinality(DOMAIN rung.detect)
SameRank(r, s) == Authority(r) = Authority(s) /\ Specificity(r) = Specificity(s)

\* match_rungs' order: authority, then specificity, then declaration order.
Outranks(ladder, i, j) ==
  LET r == ladder[i]  s == ladder[j]
  IN  \/ Authority(r) < Authority(s)
      \/ Authority(r) = Authority(s) /\ Specificity(r) > Specificity(s)
      \/ SameRank(r, s) /\ i < j

Matching(ladder, place) == {i \in DOMAIN ladder : RungMatches(ladder[i], place)}

\* Mutant: the first rung that matches, whatever its rank.
StageFirst(ladder, place) ==
  LET m == Matching(ladder, place) IN IF m = {} THEN 0 ELSE Min(m)

\* resolve: the index of the winning rung, 0 if nothing matched.
Stage(ladder, place) ==
  LET m == Matching(ladder, place)
  IN  IF m = {} THEN 0
      ELSE CHOOSE i \in m : \A j \in m \ {i} : Outranks(ladder, i, j)

\* Resolution.ambiguous: other rungs of the winner's rank.
Ambiguous(ladder, place) ==
  LET w == Stage(ladder, place)
  IN  {j \in Matching(ladder, place) \ {w} : SameRank(ladder[j], ladder[w])}

HasDenyRung(ladder) ==
  \E i \in DOMAIN ladder : \E a \in DOMAIN ladder[i].approvals :
    ladder[i].approvals[a] = Never
-----------------------------------------------------------------------------
\* The preconditions of a project: "none", or the exit code of the gap.
GitRemoteGap(prj) == IF prj.git /\ prj.origin THEN "none" ELSE "denied"

GoalGap(prj) ==
  IF prj.root_goal THEN "none"
  ELSE IF ~prj.slug THEN "unresolved"
  ELSE IF prj.goal THEN "none" ELSE "denied"

\* The manifest is absent or unreadable, or declares yes, no or nothing usable.
RollbackGap(prj) ==
  IF ~prj.slug \/ prj.manifest = "unreadable" THEN "unresolved"
  ELSE IF prj.manifest = "no" \/ (prj.manifest = "yes" /\ prj.rollback) THEN "none"
  ELSE "denied"

\* Mutant: the rollback plan is asked for at the middle level, not the lowest.
GapsSwapped(prj, level, kickoff) ==
  IF kickoff THEN <<GitRemoteGap(prj)>>
  ELSE IF level = "L" THEN <<GitRemoteGap(prj), GoalGap(prj)>>
  ELSE <<GitRemoteGap(prj), GoalGap(prj), RollbackGap(prj)>>

\* The gaps in the order in which they are looked for.
Gaps(prj, level, kickoff) ==
  IF kickoff THEN <<GitRemoteGap(prj)>>
  ELSE IF level # "L" THEN <<GitRemoteGap(prj), GoalGap(prj)>>
  ELSE <<GitRemoteGap(prj), GoalGap(prj), RollbackGap(prj)>>

FirstGap(gaps) ==
  LET open == {i \in DOMAIN gaps : gaps[i] # "none"}
  IN  IF open = {} THEN "ok" ELSE gaps[Min(open)]

\* cmd_check below level H, with a ladder in hand.
CheckLadder(ladder, place, action, prj, level, kickoff) ==
  LET stage == Stage(ladder, place)
  IN  IF stage = 0
        THEN IF HasDenyRung(ladder) THEN "denied" ELSE "ok"
      ELSE IF Verdict(action, Cell(ladder[stage], action)) # "ok"
        THEN Verdict(action, Cell(ladder[stage], action))
      ELSE IF action = "act_unattended" THEN FirstGap(Gaps(prj, level, kickoff))
      ELSE "ok"
-----------------------------------------------------------------------------
Rung(name, detect, unattended, promote) ==
  [name |-> name, detect |-> detect,
   approvals |-> [act_unattended |-> unattended, promote_into |-> promote]]

\* BUILTIN_LADDER.
BuiltinLadder == <<
  Rung("stable", [tag_channel |-> {"stable"}], Never, AnyOf({"human"})),
  Rung("trunk", [branch |-> {"main", "master", "trunk"}], Unresolved, Unresolved),
  Rung("work", [branch |-> {"*"}], AnyOf({"self"}), NoApproval),
  Rung("local", [default |-> {"true"}], AnyOf({"self"}), NoApproval)>>

\* What discover found: environments with the reviewers each requires, the
\* default branch, and whether a hosted rule protects it.
IsProtected(d, n) == n \in Hinted \/ d.reviewers[n] > 0

ProtectedRung(d, n, detect) ==
  Rung(n, detect, Never,
       IF d.reviewers[n] > 1 THEN AllOf({"human"}) ELSE AnyOf({"human"}))

PermissiveRung(n) ==
  Rung(n, [path_segments |-> {n}], AnyOf({"self"}), Unresolved)

\* What a protected rung is to detect: a path and, in a proposal, a marker too.
Detected(n, marked) ==
  IF marked THEN [path_segments |-> {n}, env_marker |-> {n}]
  ELSE [path_segments |-> {n}]

\* propose_ladder; with marked = FALSE, the draft without its markers.
ProposeWith(d, marked) ==
  LET found == SelectSeq(EnvNames, LAMBDA n : n \in d.names)
      closed == SelectSeq(found, LAMBDA n : IsProtected(d, n))
      open == SelectSeq(found, LAMBDA n : ~IsProtected(d, n))
      trunk == IF d.default_branch = "none" THEN "main" ELSE d.default_branch
  IN  [i \in DOMAIN closed |-> ProtectedRung(d, closed[i], Detected(closed[i], marked))]
        \o [i \in DOMAIN open |-> PermissiveRung(open[i])]
        \o <<Rung("trunk", [default |-> {"true"}, branch |-> {trunk}], Never,
                  IF d.protected THEN AnyOf({"human"}) ELSE Unresolved),
             Rung("work", [default |-> {"true"}], AnyOf({"self"}), NoApproval)>>

ProposeLadder(d) == ProposeWith(d, TRUE)
=============================================================================
