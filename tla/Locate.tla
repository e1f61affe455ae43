------------------------------- MODULE Locate -------------------------------
(***************************************************************************)
(* locate.py: which project is a session at some place working in?  Up to  *)
(* three roots are asked for candidates, the first that has any decides,   *)
(* and a ladder of uniqueness tests picks one of them or none.  Every git  *)
(* call has a quarter of a second; one that takes longer is unanswered.    *)
(***************************************************************************)
EXTENDS Naturals, Sequences

CONSTANTS
  Root,         \* working trees
  MainOf,       \* the main checkout of each one's repository
  Slug          \* names of projects, also of branches

ASSUME MainAssumption == MainOf \in [Root -> Root] /\ \A r \in Root : MainOf[MainOf[r]] = MainOf[r]

NoRoot == "no root"
NoSlug == "no slug"

ASSUME NoRootAssumption == NoRoot \notin Root

Nowhere == [workspace |-> NoRoot, slug |-> NoSlug]
At(root, slug) == [workspace |-> root, slug |-> slug]

GitCalls == {"toplevel", "common_dir", "outer", "branch"}

\* A place: the working tree it lies in, that of the tree's parent directory and
\* whether this one is strictly below home, the project directories that contain
\* the place, the slug its profile declares, and its branch.
Place == [top : Root \cup {NoRoot}, outer : Root \cup {NoRoot}, below_home : BOOLEAN,
          inside : SUBSET (Root \X Slug), declared : Slug \cup {NoSlug},
          branch : Slug \cup {NoSlug}]
-----------------------------------------------------------------------------
\* _enumerate_candidates: well-formed records; projects is a set of <<root, slug>>.
Candidates(projects, root) == {s \in Slug : <<root, s>> \in projects}

FullLadder == <<"L1", "L2", "L3", "L4">>

\* _rung_matches.
Matches(rung, candidates, root, place, answered) ==
  CASE rung = "L1" -> {s \in candidates : <<root, s>> \in place.inside}
    [] rung = "L2" -> {s \in candidates : s = place.declared}
    [] rung = "L3" -> {s \in candidates : "branch" \in answered /\ s = place.branch}
    [] rung = "L4" -> candidates

\* Mutant: a rung fires when it matches anything.
FiresOnAny(found) == found # {}

\* A rung fires only when it matches exactly one.
Fires(found) == \E s \in found : found = {s}

\* _select_candidate and _resolve_at_root.
ResolveAt(projects, root, place, ladder, answered) ==
  LET Found(rung) == Matches(rung, Candidates(projects, root), root, place, answered)
      firing == {i \in DOMAIN ladder : Fires(Found(ladder[i]))}
      first == CHOOSE i \in firing : \A j \in firing : i <= j
  IN  IF firing = {} THEN Nowhere
      ELSE At(root, CHOOSE s \in Found(ladder[first]) : TRUE)

\* locate_project: the working tree, the main checkout, one hop outwards.
Locate(projects, place, answered) ==
  LET main == IF "common_dir" \in answered THEN MainOf[place.top] ELSE place.top
      outer == IF "outer" \in answered THEN place.outer ELSE NoRoot
  IN  IF "toplevel" \notin answered \/ place.top = NoRoot THEN Nowhere
      ELSE IF Candidates(projects, place.top) # {}
        THEN ResolveAt(projects, place.top, place, FullLadder, answered)
      ELSE IF Candidates(projects, main) # {}
        THEN ResolveAt(projects, main, place, FullLadder, answered)
      ELSE IF outer \in {NoRoot, place.top} \/ ~place.below_home THEN Nowhere
      ELSE ResolveAt(projects, outer, place, <<"L1">>, answered)
=============================================================================
