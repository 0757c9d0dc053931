CONSTANTS
  a = a
  b = b
  Callers <- MCCallers
  Reader = reader
  MaxConns = 3
SPECIFICATION FairSpec
INVARIANTS
  AwaitsRunningDial
  NoLiveOrphan
  NoFalseAlarm
  ClosedMeansBroken
PROPERTIES
  DialEndIsTold
