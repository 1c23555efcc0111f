SPECIFICATION StoresSpec
CONSTANTS
  Builds = {b1, b2}
  Rollbacks = {r1}
  First = First
  None = None
  NoJob = NoJob
  Submits = {c1, c2}
  MaxTries = 2
  Repairs = 1
  Operations = {o1, o2}
  Requests = {q1, q2}
INVARIANTS
  StoresTypeOK
  AliasedIsWhole
  AnswersAreTrue
  StrayIsNeverBuilt
  ServedIsWhole
  BatchTellsTruth
PROPERTY
  AcknowledgedIsConcluded
CHECK_DEADLOCK FALSE
