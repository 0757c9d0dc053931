CONSTANTS
  r1 = r1
  r2 = r2
  e1 = e1
  e2 = e2
  Requests <- MCRequests
  Events <- MCEvents
  WithCb <- MCWithCb
  NoMsg = noMsg
SPECIFICATION FairSpec
INVARIANTS
  TypeOK
  WriterErrorIsReported
  CallbackFollowsWrite
PROPERTIES
  RequestIsAnswered
  EmitEnds
  SessionEnds
CHECK_DEADLOCK FALSE
