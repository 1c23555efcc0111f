SPECIFICATION Spec
CONSTANTS
  MaxTries = 3
  ConcurrencyAttempts = 2
INVARIANTS
  TypeOK
  PublishedStaysWhole
  AcceptedCancelHolds
  HandledIsConcluded
PROPERTIES
  FailedIsFinal
  EventuallySettled
CHECK_DEADLOCK FALSE
