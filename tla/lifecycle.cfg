SPECIFICATION PlaySpec
CONSTANTS
  c1 = c1
  c2 = c2
  c3 = c3
  c4 = c4
  c5 = c5
  d1 = d1
  d2 = d2
  q1 = q1
  Scenarios = {"commands", "reader", "dispatchers", "redelete"}
  Calls <- Requests
  InitVersion = v0
  None = none
  Dispatchers = {d1, d2}
  Readers = {q1}
  Retention = 1
  MaxClock = 2
  MaxAttempts = 2
  ConcurrencyAttempts = 2
INVARIANTS
  CurrentIsReady
  OthersAreSuperseded
  OneWinnerPerRevision
  KeptWhileRecoverable
  FirstPublicationSearchable
  AnswersWereCurrent
  ContentInv
PROPERTIES
  ImplementsServedDocument
CHECK_DEADLOCK FALSE
