SPECIFICATION Spec
CONSTANTS
  c1 = c1
  c2 = c2
  None = None
  Clients <- MCOneClient
  Opens <- MCOpens
  Size = 4
  Typed <- MCTypedOpen
  MaxDepth = 3
  CanStop = FALSE
INVARIANTS StatementsWhole NoMisuse
CHECK_DEADLOCK FALSE
