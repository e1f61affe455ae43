CONSTANTS
  Node = {a, b, c}
  NoNode = nobody
  Process = {p, q}
  NoProcess = none
  MaxReevaluations = 1
  MaxCalls = 3
  InitialLogs <- MCInitialLogs
  Claims <- MCClaims
SPECIFICATION FairSpec
INVARIANTS FirstClaimRespectsLegacyOwner OwnersSucceedOneAnother ClaimsAreSerialised
  LoopFindsTheOwner
PROPERTIES ImplementsOwnerRegister OwnStepsRunOut CallsReturn
CHECK_DEADLOCK FALSE
