SPECIFICATION Spec
CONSTANTS
  MaxTries = 3
  ConcurrencyAttempts = 2
INVARIANTS
  TransientIsRetried
CHECK_DEADLOCK FALSE
