CONSTANTS
  c1 = c1
  c2 = c2
  g1 = g1
  g2 = g2
  Clients <- MCClients
  Loggers <- MCLoggers
  NilFunc = nilFunc
SPECIFICATION Spec
INVARIANTS
  ClosedIsRemoved
CHECK_DEADLOCK FALSE
