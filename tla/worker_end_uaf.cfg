SPECIFICATION Spec
CONSTANTS
  e1 = e1
  e2 = e2
  e3 = e3
  Entries <- MCTwoEntries
  NModules = 2
  EndModules <- MCEndModules
  CanEnd = TRUE
  CanClose = FALSE
INVARIANT NoUseAfterFree
CHECK_DEADLOCK FALSE
