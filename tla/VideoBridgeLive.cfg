CONSTANTS
  Handles = {h1, h2}
  Sizes = {1}
  MaxId = 2
  MaxQueue = 1
  MaxReady = 2
  DestroyFaults = FALSE
  Sized = {h1}
  Destroyed = {}
SPECIFICATION Spec
PROPERTIES
  DisposeAnswered
  EagerContext
  FrameShown
CHECK_DEADLOCK FALSE
