SPECIFICATION Spec
CONSTANTS
  MaxTries = 3
  ConcurrencyAttempts = 2
INVARIANTS
  StoredCancelHolds
CHECK_DEADLOCK FALSE
