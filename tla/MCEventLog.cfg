CONSTANTS
  Process = {p1, p2}
  NoProcess = none
  Event <- MCEvent
  Request <- MCRequest
  Admits <- MCAdmits
SPECIFICATION FairSpec
INVARIANTS TypeOK HolderIsInside KeysUnique AcknowledgedIsDurable
PROPERTIES ImplementsAtomicLog EveryCallReturns
