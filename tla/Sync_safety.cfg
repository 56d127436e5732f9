SPECIFICATION SyncSpec
CONSTANTS
  THREAD_MAX_THREADS = 3
  Locks = {l1, l2}
  Cvs = {c1}
  WaitQueues = {l1, l2, c1}
  NoQueue = NoQueue
  NULL = NULL
  Gone = Gone
  Dangling = Dangling
  MaxExits = 1
  Calls <- LockMasked
  Failures = {}
  CallerLabels <- LockLabels
  InvalidFree = {"abort", "return"}
VIEW WithoutResults
SYMMETRY LockSymmetry
INVARIANTS MutualExclusion CvWaitIsAtomic
CHECK_DEADLOCK FALSE
