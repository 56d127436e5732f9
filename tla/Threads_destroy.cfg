SPECIFICATION Spec
CONSTANTS
  THREAD_MAX_THREADS = 3
  WaitQueues = {q1}
  NoQueue = NoQueue
  MaxExits = 1
  Calls <- Destroying
  Failures = {}
  CallerLabels = {}
  InvalidFree = {"return"}
INVARIANT FreedBlocksNeverReady
CHECK_DEADLOCK FALSE
