SPECIFICATION FairSpec
CONSTANTS
  Clients <- MCNoClients
  Delays <- MCDelays
  Nohups <- MCNoNohup
  Wrap = 8
  StartClock = 5
  MaxId = 2
  MaxClock = 9
  MaxStall = 3
  MaxDepth = 2
  CanNest = TRUE
  CanDisconnect = FALSE
  CanStop = FALSE
  CanEnd = FALSE
INVARIANTS NotEarly InOrder
PROPERTY DueIsCalled
CHECK_DEADLOCK FALSE
