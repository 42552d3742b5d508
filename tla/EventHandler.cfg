CONSTANTS
  Sockets = {s1, s2}
  Fds = {f1}
  Timers = {}
  None = None
  Interests = {"in"}
  Conditions = {"in", "err"}
  Tokens = 1
  MaxQueue = 2
  MaxBatch = 2
  MaxInbox = 2
SPECIFICATION Safety
SYMMETRY SocketSymmetry
INVARIANTS
  LoopbackOrder
  DescriptorsOwned
  TokensConserved
PROPERTIES
  DestroyedIsLast
CHECK_DEADLOCK FALSE
