SPECIFICATION FairSpec
CONSTANTS
  a = a
  b = b
  c = c
  Modules <- MCModules
  Files <- MCModules
  CommonJS <- MCModules
  Relative <- MCNoModules
  Throws <- MCNoModules
  Requires <- MCIndependent
  MaxReq = 1
  MaxJobs = 2
  MaxDepth = 2
PROPERTY ImportSettles
CHECK_DEADLOCK FALSE
