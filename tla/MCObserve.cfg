CONSTANTS
  Process = {p, q}
  NoProcess = none
  MaxLines = 2
  Session = {s}
  h = h
  Row = {h}
  NoRow = norow
  InitialLogs <- MCInitialLogs
  MaxCalls = 2
SPECIFICATION FairSpec
INVARIANTS JournalKeepsNewest SuccessIsBacked
PROPERTY EveryCallReturns
CHECK_DEADLOCK FALSE
