CONSTANTS
  e1 = e1
  e2 = e2
  h1 = h1
  h2 = h2
  t1 = t1
  t2 = t2
  Exiters <- MCExiters
  WithErr <- MCWithErr
  Hooks <- MCHooks
  Tasks <- MCTasks
  NoErr = noErr
  NoOne = noOne
SPECIFICATION FairSpec
INVARIANTS
  TypeOK
  OkMeansDone
PROPERTIES
  CauseIsStable
  ExitEnds
CHECK_DEADLOCK FALSE
