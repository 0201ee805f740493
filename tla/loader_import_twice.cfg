SPECIFICATION Spec
CONSTANTS
  a = a
  b = b
  c = c
  Modules <- MCModules
  Files <- MCModules
  CommonJS <- MCNoModules
  Relative <- MCNoModules
  Throws <- MCNoModules
  Requires <- MCIndependent
  MaxReq = 3
  MaxJobs = 1
  MaxDepth = 2
INVARIANT ImportRejectedOnlyIfThrew
CHECK_DEADLOCK FALSE
