CONSTANTS
  w1 = w1
  w2 = w2
  w3 = w3
  Waiters <- MCWaiters
  MaxBroadcasts = 3
SPECIFICATION FairSpec
PROPERTIES
  BroadcastReleases
  ImplementsBroadcastCond
