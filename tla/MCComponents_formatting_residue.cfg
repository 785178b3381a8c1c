CONSTANTS
  Parts = {"formatting"}
  p1 = p1
  p2 = p2
  i1 = i1
  c = c
  StoresInOrder = TRUE
  FifoRecords = 1
  FifoBuilds = {"atomic", "winapi", "semaphore", "generic"}
  GetThreads = {i1}
  Loggers <- AllLoggers
  Requested <- RequestedLoggers
  LoggerType <- LoggerTypes
  MaxGets = 1
  MaxThrows = 1
  Nesting = {TRUE, FALSE}
  QueueObjects = {i1}
  Incompatible = {i1}
  FileCalls = 0
  FormatChanges = 2
  SetData = {p1, p2}
  Threads = {p1, p2, i1}
  MaxLocks = 2
  MaxAborts = 1
  NameThreads = {p1, p2, i1}
  Names = {"a", "b", "c"}
  uninitialized = 2
  MaxLookups = 2
SPECIFICATION PartSpec
INVARIANTS
  FormattedAlone
CHECK_DEADLOCK FALSE
