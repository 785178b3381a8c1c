CONSTANTS
  d = d
  p1 = p1
  p2 = p2
  f1 = f1
  f2 = f2
  s1 = s1
  u1 = u1
  u2 = u2
  Threads <- AllThreads
  Producers = {p1}
  Flushers = {f1}
  Stoppers = {}
  Feeders = {u1}
  Dedicated = {}
  MaxQueueSize = 1
  OverflowStrategy = "block"
  MaxRecords = 1
  MaxCalls = 1
  BackendThrows = FALSE
SPECIFICATION Spec
INVARIANTS
  FlushTakesOver
CHECK_DEADLOCK FALSE
