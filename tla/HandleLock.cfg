SPECIFICATION FairSpec
CONSTANTS
  t1 = t1
  t2 = t2
  t3 = t3
  p1 = p1
  p2 = p2
  Threads <- MCThreads
  Processes <- MCProcesses
  ProcessOf <- MCProcessOf
  Old = Old
  None = None
  DiskErrors = TRUE
  MaxCalls = 2
INVARIANTS TypeOK OwnersExclude MutexAccounted
PROPERTIES EveryCallReturns
CHECK_DEADLOCK FALSE
