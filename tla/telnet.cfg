SPECIFICATION FairSpec
CONSTANTS
  c1 = c1
  c2 = c2
  None = None
  Clients <- MCClients
  Opens <- MCOpens
  Size = 3
  Typed <- MCTyped
  MaxDepth = 2
  CanStop = TRUE
INVARIANTS InOrder Conserved Sessions
PROPERTY EveryLineIsTaken
CHECK_DEADLOCK FALSE
