SPECIFICATION Spec
CONSTANTS
  a = a
  b = b
  c = c
  Modules <- MCModules
  Files <- MCModules
  CommonJS <- MCModules
  Relative <- MCNoModules
  Throws <- MCNoModules
  Requires <- MCARequiresB
  MaxReq = 4
  MaxJobs = 2
  MaxDepth = 6
INVARIANT NoUseAfterFree
CHECK_DEADLOCK FALSE
