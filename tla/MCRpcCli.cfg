CONSTANTS
  c1 = c1
  c2 = c2
  Callers <- MCCallers
  MaxCalls = 3
SPECIFICATION FairSpec
INVARIANTS
  TypeOK
  AnswersAtMostOnce
  PendingIsRunning
PROPERTIES
  StopEndsCalls
  ResponseEndsCall
CHECK_DEADLOCK FALSE
