CONSTANTS
  Installer = {p, q}
  Checkout = {"main", "worktree", "elsewhere"}
  Recognised = {"main", "worktree"}
  LinkedWorktrees = {"worktree"}
  Expected <- MCExpected
  Rewrites <- MCRewrites
  InitialSettings <- MCInitialSettings
  Root = {"main", "worktree", "clone"}
  MainOf <- MCMainOf
  Slug = {"s", "t"}
  gate1 = gate1
  gate2 = gate2
  Gate = {gate1, gate2}
  Dispatches <- MCDispatches
  Skills = {"main", "worktree"}
  Role = {"pm"}
  Text = {"v1", "v2"}
  Tiers = {"standard", "capable"}
  Policy <- MCPolicy
  Observed = {"main", "clone"}
  RoleEdits <- MCRoleEdits
  InitialRoles <- MCInitialRoles
  InitialProjects <- MCInitialProjects
  GateHook = "pre-tool-use-role-gate"
  MaxEvents = 3
SPECIFICATION Spec
SYMMETRY Symmetry
INVARIANT SecondInstallWritesNothing
CHECK_DEADLOCK FALSE
