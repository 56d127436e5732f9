SPECIFICATION SyncFairSpec
CONSTANTS
  THREAD_MAX_THREADS = 3
  Locks = {l1}
  Cvs = {c1}
  WaitQueues = {l1, c1}
  NoQueue = NoQueue
  NULL = NULL
  Gone = Gone
  Dangling = Dangling
  MaxExits = 1
  Calls <- EndlessMisuse
  Failures = {}
  CallerLabels <- LockLabels
  InvalidFree = {"abort", "return"}
VIEW WithoutResults
INVARIANTS NobodyWaitsForAFreeLock
PROPERTIES LockWaitersWake ReadyThreadRuns
CHECK_DEADLOCK FALSE
