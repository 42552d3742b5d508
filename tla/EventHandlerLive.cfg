CONSTANTS
  Sockets = {s1}
  Fds = {f1}
  Timers = {t1, t2}
  None = None
  Interests = {"in"}
  Conditions = {"in"}
  Tokens = 1
  MaxQueue = 1
  MaxBatch = 1
  MaxInbox = 2
SPECIFICATION Spec
PROPERTIES
  CloseAnswered
  TimerServed
  ReadReported
CHECK_DEADLOCK FALSE
