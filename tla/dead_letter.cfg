SPECIFICATION Spec
CONSTANTS
  MaxTries = 3
  ConcurrencyAttempts = 2
INVARIANTS
  FailureIsDeadLettered
CHECK_DEADLOCK FALSE
