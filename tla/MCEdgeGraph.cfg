CONSTANTS
  Process = {p, q}
  Node = {a, b, c}
  InitialLogs <- MCInitialLogs
  Edges <- MCEdges
  MaxCalls = 3
SPECIFICATION Spec
INVARIANTS OrderingIsAcyclic ReadersKeepTheStoredOrder FlaggedIsNeverStored
  OrderIsReportedExactly TraversalsAreExact
SYMMETRY Symmetry
CHECK_DEADLOCK FALSE
