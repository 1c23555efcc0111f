SPECIFICATION ApprovalSpec
CONSTANTS
  Requests = {r1, r2}
  CallRetries = 1
  ApprovalTtl = 1
  MaxClock = 1
INVARIANTS
  ContinuesWithResult
CHECK_DEADLOCK FALSE
