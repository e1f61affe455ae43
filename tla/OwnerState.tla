----------------------------- MODULE OwnerState -----------------------------
(***************************************************************************)
(* What the event log says about who owns a project: the pure functions of *)
(* core/project_owner.py.  An event_id (a fresh uuid) is modelled by the   *)
(* position of its event in the log, which no later write changes; 0 is    *)
(* "genesis", or no event.  Events of other projects never enter.          *)
(***************************************************************************)
EXTENDS Naturals, Sequences

CONSTANTS Node,     \* sessions (node ids)
          NoNode    \* no session: Python's None

ASSUME NoNodeAssumption == NoNode \notin Node

Bases == {"unowned", "notified", "ended"}
Writers == {"self", "on_behalf", "claimant"}

(***************************************************************************)
(* Events.  eligible: the registration counts as a legacy owner (it was    *)
(* relayed or manual, and written by a pm).                                *)
(***************************************************************************)
Registered(n, eligible) ==
  [type |-> "session_registered", key |-> <<"register", n>>,
   node |-> n, eligible |-> eligible]

ClaimKey(n, anchor) == <<"own", n, anchor>>

Declared(n, anchor, prior, basis) ==
  [type |-> "ownership_declared", key |-> ClaimKey(n, anchor),
   node |-> n, anchor |-> anchor, prior |-> prior, basis |-> basis]

\* For a claimant-written stand-down, claimant and anchor name the paired claim.
StoodDown(n, from, by, claimant, anchor) ==
  [type |-> "ownership_stood_down", key |-> <<"standdown", n, from, by, claimant>>,
   node |-> n, from |-> from, by |-> by,
   claimant |-> claimant, claim_key |-> ClaimKey(claimant, anchor)]

\* What the schema lets into the log.
Registering == [type : {"session_registered"}, key : {"register"} \X Node,
                node : Node, eligible : BOOLEAN]
Declaring   == [type : {"ownership_declared"}, key : {"own"} \X Node \X Nat,
                node : Node, anchor : Nat, prior : Node \cup {NoNode}, basis : Bases]
StandingDown == [type : {"ownership_stood_down"},
                 key : {"standdown"} \X Node \X Nat \X Writers \X (Node \cup {NoNode}),
                 node : Node, from : Nat, by : Writers, claimant : Node \cup {NoNode},
                 claim_key : {"own"} \X (Node \cup {NoNode}) \X Nat]

KeyFits(e) ==
  /\ e.type = "session_registered" => e.key = <<"register", e.node>>
  /\ e.type = "ownership_declared" => e.key = ClaimKey(e.node, e.anchor)
  /\ e.type = "ownership_stood_down" =>
       e.key = <<"standdown", e.node, e.from, e.by, e.claimant>>

Event == {e \in Registering \cup Declaring \cup StandingDown : KeyFits(e)}

OfType(l, t) == {i \in DOMAIN l : l[i].type = t}
Registrations(l) == OfType(l, "session_registered")
Declarations(l)  == OfType(l, "ownership_declared")

\* The largest of a set of positions, 0 if there is none.
Latest(S) == CHOOSE i \in S \cup {0} : \A j \in S : j <= i

\* Mutant: a claimant's stand-down counts whether or not its claim was written.
NeverOrphaned(l, s) == FALSE

\* The stand-down half of a torn takeover: its claim is nowhere in the log.
Orphaned(l, s) ==
  /\ l[s].by = "claimant"
  /\ ~ \E d \in Declarations(l) :
         l[d].key = l[s].claim_key /\ l[d].node = l[s].claimant

StandDowns(l) == {s \in OfType(l, "ownership_stood_down") : ~Orphaned(l, s)}
OwnershipEvents(l) == Declarations(l) \cup StandDowns(l)

\* A stand-down ends the newest declaration if it names both node and event.
Ends(l, s, d) == s > d /\ l[s].node = l[d].node /\ l[s].from = d

\* fold_owner.  The last declaration makes the owner; only a later stand-down
\* that names it takes the owner away.
FoldOwner(l) ==
  LET ended    == StandDowns(l)
      d        == Latest(Declarations(l))
      standing == d # 0 /\ ~ \E s \in ended : Ends(l, s, d)
      a        == Latest(Declarations(l) \cup ended)
  IN  [owner       |-> IF standing THEN l[d].node ELSE NoNode,
       declaring   |-> IF standing THEN d ELSE 0,
       anchor      |-> a,
       stoodDown   |-> a \in ended,
       anchorNode  |-> IF a = 0 THEN NoNode ELSE l[a].node,
       hasEvents   |-> a # 0]

\* resolve_legacy_owner (other = the claimant) and ..._unrestricted (NoNode):
\* the newest eligible registration of anyone else, unless it was stood down.
LegacyOwner(l, other) ==
  LET r == Latest({i \in Registrations(l) : l[i].eligible /\ l[i].node # other})
  IN  IF \E s \in StandDowns(l) : l[s].from = r THEN 0 ELSE r

IsRegistered(l, n) == \E i \in Registrations(l) : l[i].node = n
-----------------------------------------------------------------------------
Decision(outcome, prior, from) == [outcome |-> outcome, prior |-> prior, from |-> from]

\* decide_claim; from is the event the displaced owner is stood down from.
DecideClaim(l, n, ended, attested) ==
  LET st    == FoldOwner(l)
      r     == IF st.hasEvents THEN 0 ELSE LegacyOwner(l, n)
      from  == IF st.owner # NoNode THEN st.declaring ELSE r
      prior == IF from = 0 THEN NoNode ELSE l[from].node
  IN  CASE st.owner = n            -> Decision("noop", NoNode, 0)
        [] from = 0                -> Decision("unowned", NoNode, 0)
        [] OTHER ->
             IF prior \in ended THEN Decision("ended", prior, from)
             ELSE IF attested = NoNode THEN Decision("coordination_required", prior, from)
             ELSE IF attested = prior THEN Decision("notified", prior, from)
             ELSE Decision("attestation_mismatch", prior, from)
=============================================================================
