CONSTANTS
  Handles = {h1}
  Sizes = {1}
  MaxId = 1
  MaxQueue = 2
  MaxReady = 1
  DestroyFaults = FALSE
  Sized = {h1}
  Destroyed = {h1}
SPECIFICATION Safety
INVARIANT NoOrphanedContext
CHECK_DEADLOCK FALSE
