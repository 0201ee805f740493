SPECIFICATION Spec
CONSTANTS
  a = a
  b = b
  c = c
  Modules <- MCModules
  Files <- MCModules
  CommonJS <- MCNoModules
  Relative <- MCOne
  Throws <- MCNoModules
  Requires <- MCIndependent
  MaxReq = 2
  MaxJobs = 1
  MaxDepth = 2
PROPERTY EvaluatedIsCached
CHECK_DEADLOCK FALSE
