CONSTANTS
  a = a
  b = b
  Callers <- MCCallers
  Reader = reader
  MaxConns = 3
SPECIFICATION FairSpec
PROPERTIES
  BrokenEndsCall
