SPECIFICATION Spec
CONSTANTS
  m1 = m1
  m2 = m2
  Null = Null
  Peers <- MCPeers
  MaxSends = 2
  MaxEvents = 1
  MaxDepth = 2
  CanEnd = TRUE
INVARIANTS AlwaysOwnOutcome OwnOutcomeAcrossSessions NoUseAfterFree
CHECK_DEADLOCK FALSE
