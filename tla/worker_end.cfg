SPECIFICATION Spec
CONSTANTS
  e1 = e1
  e2 = e2
  e3 = e3
  Entries <- MCEntries
  NModules = 2
  EndModules <- MCEndModules
  CanEnd = TRUE
  CanClose = TRUE
INVARIANT EndLeavesOnlyFiles
CHECK_DEADLOCK FALSE
