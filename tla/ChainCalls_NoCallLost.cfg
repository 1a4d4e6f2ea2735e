SPECIFICATION Spec
CONSTANTS
  c1 = c1
  c2 = c2
  c3 = c3
  c4 = c4
  Calls <- MCCalls
  MaxConcurrent = 2
  MaxWorkers = 3
  MaxRuns = 3
INVARIANT NoCallLost
CHECK_DEADLOCK FALSE
