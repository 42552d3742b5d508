CONSTANTS
  Handles = {h1, h2}
  Sizes = {1}
  MaxId = 2
  MaxQueue = 2
  MaxReady = 1
  DestroyFaults = FALSE
  Sized = {h1, h2}
  Destroyed = {h1, h2}
SPECIFICATION Safety
SYMMETRY HandleSymmetry
INVARIANTS
  TypeOK
  CallbackTargetAlive
  TaskTargetAlive
  ContextHasPlayer
  OneOutputPerHandle
  OnlyRasterThreadBinds
  ReportedTextureExists
  ShutdownReleases
CHECK_DEADLOCK FALSE
