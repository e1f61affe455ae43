CONSTANTS
  Process = {p, q}
  Node = {m, n}
  InitialLogs <- MCEmptyLog
  Requests <- MCRequests
  absent = absent
  corrupt = corrupt
  MaxCalls = 4
  MaxMishaps = 1
SPECIFICATION Spec
INVARIANTS RungsInOrder LevelIsEarned FragmentsNeverLead
SYMMETRY Symmetry
CHECK_DEADLOCK FALSE
