SPECIFICATION FairSpec
CONSTANTS
  e1 = e1
  e2 = e2
  e3 = e3
  Entries <- MCEntries
  NModules = 2
  EndModules <- MCEndModules
  CanEnd = FALSE
  CanClose = FALSE
INVARIANTS NoLostWakeup WorkOnce NoUseAfterFree PendingIsQueued
PROPERTIES EverySubmittedSettles ServiceSpec
