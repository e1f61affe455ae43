CONSTANTS
  Process = {p, q}
  Node = {n}
  InitialLogs <- MCEmptyLog
  Requests <- MCRequests
  absent = absent
  corrupt = corrupt
  MaxCalls = 4
  MaxMishaps = 0
SPECIFICATION Spec
INVARIANT FragmentsAgree
CHECK_DEADLOCK FALSE
