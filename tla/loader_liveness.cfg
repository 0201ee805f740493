SPECIFICATION FairSpec
CONSTANTS
  a = a
  b = b
  c = c
  Modules <- MCModules
  Files <- MCModules
  CommonJS <- MCModules
  Relative <- MCNoModules
  Throws <- MCOne
  Requires <- MCIndependent
  MaxReq = 2
  MaxJobs = 1
  MaxDepth = 2
PROPERTIES EveryReadLands RequireReturns
CHECK_DEADLOCK FALSE
