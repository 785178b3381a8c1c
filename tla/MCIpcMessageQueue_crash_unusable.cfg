CONSTANTS
  w1 = w1
  w2 = w2
  r = r
  c1 = c1
  c2 = c2
  P1 = P1
  P2 = P2
  PR = PR
  Parts = {"crash"}
  Threads <- AllThreads
  Processes <- AllProcesses
  ProcessOf <- MCProcessOf
  PoliciesOf <- MCPoliciesOf
  Writers = {w1, w2}
  Readers = {r}
  Controllers = {}
  Capacity = 3
  BlockSize = 2
  HeaderOverhead = 1
  WordModulus = 4096
  Lengths = {1}
  BufferSizes = {8}
  MaxCalls = 2
  MaxControls = 0
  MaxWakeups = 0
  MaxCrashes = 1
SPECIFICATION PartSpec
INVARIANTS
  MutexRecovers
CHECK_DEADLOCK FALSE
