SPECIFICATION Spec
CONSTANTS
  Clients <- MCTwoClients
  Delays <- MCDelay
  Nohups <- MCNohups
  Wrap = 16
  StartClock = 0
  MaxId = 2
  MaxClock = 1
  MaxStall = 2
  MaxDepth = 2
  CanNest = TRUE
  CanDisconnect = TRUE
  CanStop = TRUE
  CanEnd = TRUE
INVARIANTS NoOrphans JobsHaveAStream ClearedStaysCleared NoLeakAtEnd CommandOwnsItsTimers
CHECK_DEADLOCK FALSE
