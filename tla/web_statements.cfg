SPECIFICATION Spec
CONSTANTS
  s1 = s1
  s2 = s2
  p1 = p1
  r1 = r1
  r2 = r2
  Null = Null
  Servers <- MCOneServer
  Paths <- MCOnePath
  Requests <- MCRequests
  MaxStash = 2
  MaxStatic = 1
  MaxDepth = 2
INVARIANTS IdsAreUnique MiddlewareFirst NoLateUse
