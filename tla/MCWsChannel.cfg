CONSTANTS
  s1 = s1
  c1 = c1
  c2 = c2
  Readers <- MCReaders
  Role <- MCRole
  NoReader = noReader
  MaxFrames = 3
SPECIFICATION FairSpec
INVARIANTS
  TypeOK
  SlotFreeWhileReading
  DeliveredOnceInOrder
  SleepsForTheOther
PROPERTIES
  CloseEndsReads
  SlotIsTaken
