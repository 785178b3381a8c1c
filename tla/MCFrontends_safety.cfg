CONSTANTS
  Parts = {"handlers", "nested", "scopes", "core", "dedicated", "stopped", "user_fed"}
  l1 = l1
  l2 = l2
  a1 = a1
  d = d
  f1 = f1
  s1 = s1
  u1 = u1
  u2 = u2
  sync = sync
  unlocked = unlocked
  Threads = {d, l1, l2, f1, s1, u1, u2}
  Producers = {l1, l2}
  Flushers = {f1}
  Stoppers = {}
  Feeders = {}
  Dedicated = {d}
  MaxQueueSize = 1
  OverflowStrategy = "block"
  MaxRecords = 2
  MaxCalls = 1
  BackendThrows = FALSE
  DefaultSink = d
  Loggers = {l1, l2}
  Admins = {a1}
  SyncSinks = {sync}
  UnlockedSinks = {unlocked}
  Throwing = {sync}
  Levels = {"low"}
  FilterThrows = TRUE
  Handlers = {"none", "absorbs"}
  MaxOpened = 1
  MaxChanges = 2
  CoreThrows = {"push"}
SPECIFICATION PartSpec
INVARIANTS
  TypeOK
  FeedingExclusion
  EveryRecordAccounted
  PerThreadOrder
  NoWakeupMissed
  CoreTypeOK
  AtMostOnce
  RecordsTrue
  ScopesMatch
PROPERTIES
  FlushByCallerDrains
  ImplementsChannel
  SinksStable
  PushServesAll
  PushedUnlessThrown
SYMMETRY Alike
CHECK_DEADLOCK FALSE
