SPECIFICATION PlaySpec
CONSTANTS
  Plans <- SmallPlans
  MaxIterations = 3
  MaxModelCalls = 1
  MaxRounds = 2
  MaxAttempts = 3
  MaxRetries = 1
  Executions = {e1, e2, e3}
  Names = {look, shell}
  Allowed = {look}
  Answers = {yes, no}
  MaxGraphSteps = 3
  OperationAttempts = 2
  None = None
  Nobody = Nobody
  Users = {ann, bob}
  Callers = {c1, c2}
  MaxSaves = 2
  MaxTime = 1
  Ttl = 1
  Requests = {r1, r2, r3}
  CallRetries = 1
  ApprovalTtl = 1
  MaxClock = 1
INVARIANTS
  AgentsTypeOK
  CallsAreBudgeted
  StepsAreBudgeted
  OneExecution
  EffectsAreApproved
  RunAgreesWithTool
  EffectsAreRemembered
  AnswersAgree
  RevokedIsForgotten
PROPERTIES
  CompletedIsCovered
  ImplementsApprovedCall
CHECK_DEADLOCK FALSE
