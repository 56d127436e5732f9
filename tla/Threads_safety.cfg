SPECIFICATION Spec
CONSTANTS
  THREAD_MAX_THREADS = 3
  WaitQueues = {q1}
  NoQueue = NoQueue
  MaxExits = 1
  Calls <- ThreadCalls
  Failures = {"malloc", "stack"}
  CallerLabels = {}
  InvalidFree = {"abort", "return"}
INVARIANTS TypeOK OnePlacePerThread StatusMatchesPlace InterruptsRestored
PROPERTIES ReturnsWhoRan WokenInOrder
CHECK_DEADLOCK FALSE
