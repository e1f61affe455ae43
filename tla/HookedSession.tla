---------------------------- MODULE HookedSession ---------------------------
(***************************************************************************)
(* The installer and the gate together: the harness runs a gate for every  *)
(* command of the role gate that its settings hold, if the checkout it     *)
(* points to is still there, while installs, edits, new projects and       *)
(* removed working trees go on around the gates in flight.                 *)
(***************************************************************************)
EXTENDS HooksInstall, RoleGate

CONSTANTS
  GateHook,     \* the wrapper of the role gate
  MaxEvents     \* bound: installs, dispatches and edits in a behaviour

VARIABLE events

vars == <<hookVars, gateVars, events>>

Once == events < MaxEvents /\ events' = events + 1

\* The checkouts whose gate the harness runs.
GateRoots ==
  {c.root : c \in {x \in Commands(settings) : x.owner = "ours" /\ x.hook = GateHook}}

Init == HooksInit /\ GateInit /\ events = 0

HooksNext ==
  /\ \E p \in Installer :
       \/ InstallerStep(p) /\ UNCHANGED events
       \/ (CallInstall(p) \/ CallUninstall(p)) /\ Once
  /\ UNCHANGED gateVars

GateNext ==
  /\ \E g \in Gate :
       \/ GateStep(g) /\ UNCHANGED events
       \/ \E root \in GateRoots \cap present : StartGate(g, root) /\ Once
  /\ UNCHANGED hookVars

Around ==
  \/ Rewrite /\ Once /\ UNCHANGED gateVars
  \/ (EditRoles \/ StartProject \/ RemoveWorktree) /\ Once /\ UNCHANGED hookVars

Next == HooksNext \/ GateNext \/ Around

Spec == Init /\ [][Next]_vars
=============================================================================
