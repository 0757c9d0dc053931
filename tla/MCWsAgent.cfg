CONSTANTS
  Hooked <- MCHooked
  MaxFrames = 2
SPECIFICATION FairSpec
INVARIANTS
  TypeOK
  Transparent
  FirstErrorWins
  OneMoreMessage
PROPERTIES
  PipesEnd
CHECK_DEADLOCK FALSE
