SPECIFICATION Spec
CONSTANTS
  e1 = e1
  e2 = e2
  e3 = e3
  Entries <- MCTwoEntries
  NModules = 2
  EndModules <- MCEndModules
  CanEnd = FALSE
  CanClose = TRUE
INVARIANT CloseSettles
CHECK_DEADLOCK FALSE
