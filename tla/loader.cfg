SPECIFICATION Spec
CONSTANTS
  a = a
  b = b
  c = c
  Modules <- MCThree
  Files <- MCThree
  CommonJS <- MCModules
  Relative <- MCNoModules
  Throws <- MCNoModules
  Requires <- MCBothRequireB
  MaxReq = 3
  MaxJobs = 2
  MaxDepth = 4
INVARIANTS MixedOnlyIfNested FulfilledIsCached
CHECK_DEADLOCK FALSE
