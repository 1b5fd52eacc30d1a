SPECIFICATION MCSpec
CONSTANTS
  w1 = w1  w2 = w2
  Workers = {w1, w2}
  MaxRuns = 2
  MaxTime = 3
  MaxFaults = 1
  Idle = Idle
  Posters = {w1, w2}
  Deliveries = {1, 2}
  MaxAttempts = 2
  MaxLosses = 1
  Free = Free
INVARIANT TriggersKept
PROPERTIES AcceptedOnce EverythingEnds
CHECK_DEADLOCK FALSE
