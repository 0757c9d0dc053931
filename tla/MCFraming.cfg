CONSTANTS
  w1 = w1
  w2 = w2
  Writers <- MCWriters
  NoWriter = noWriter
  Lengths <- MCLengths
  MaxMessages = 3
  Radix = 2
  SegmentSize = 2
  MaxHeader = 3
  MaxLen = 6
  MaxToken = 5
SPECIFICATION FairSpec
INVARIANTS
  TypeOK
  IntactInOrder
  ErrorHasCause
PROPERTIES
  FullMessageArrives
CHECK_DEADLOCK FALSE
