CONSTANTS
  Sockets = {s1}
  Fds = {f1}
  Timers = {}
  None = None
  Interests = {"in"}
  Conditions = {"in"}
  Tokens = 1
  MaxQueue = 2
  MaxBatch = 2
  MaxInbox = 2
SPECIFICATION Safety
INVARIANT EventsBeforeMessages
CHECK_DEADLOCK FALSE
