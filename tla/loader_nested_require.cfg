SPECIFICATION Spec
CONSTANTS
  a = a
  b = b
  c = c
  Modules <- MCModules
  Files <- MCModules
  CommonJS <- MCModules
  Relative <- MCNoModules
  Throws <- MCNoModules
  Requires <- MCARequiresB
  MaxReq = 3
  MaxJobs = 2
  MaxDepth = 4
INVARIANT NamespaceIsOwn
CHECK_DEADLOCK FALSE
