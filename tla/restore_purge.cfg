SPECIFICATION PlaySpec
CONSTANTS
  c1 = c1
  c2 = c2
  c3 = c3
  c4 = c4
  c5 = c5
  d1 = d1
  d2 = d2
  q1 = q1
  Scenarios = {"dispatchers"}
  Calls <- Requests
  InitVersion = v0
  None = none
  Dispatchers = {d1, d2}
  Readers = {}
  Retention = 1
  MaxClock = 2
  MaxAttempts = 2
  ConcurrencyAttempts = 2
INVARIANTS
  RestoredIsNotReclaimed
CHECK_DEADLOCK FALSE
