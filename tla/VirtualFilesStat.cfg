CONSTANTS
  x = x
  y = y
  t1 = t1
  t2 = t2
  Names <- MCNames
  Threads <- MCThreads
  MaxOpenDirectories = 2
  f1 = f1
  f2 = f2
  p1 = p1
  p1b = p1b
  p2 = p2
  None = None
  Files <- MCFiles
  Paths <- MCPaths
  FileOf <- MCFileOf
  Values = {0, 1}
  MaxBases = 2
  MaxHandles = 3
  MaxSize = 1
SYMMETRY MCSymmetry
SPECIFICATION CompatSpec
INVARIANT StatAnswersOpenFiles
CHECK_DEADLOCK FALSE
