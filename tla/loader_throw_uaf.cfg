SPECIFICATION Spec
CONSTANTS
  a = a
  b = b
  c = c
  Modules <- MCModules
  Files <- MCModules
  CommonJS <- MCNoModules
  Relative <- MCNoModules
  Throws <- MCOnlyB
  Requires <- MCARequiresB
  MaxReq = 2
  MaxJobs = 2
  MaxDepth = 4
INVARIANT NoUseAfterFree
CHECK_DEADLOCK FALSE
