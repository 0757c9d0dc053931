CONSTANTS
  c1 = c1
  c2 = c2
  c3 = c3
  k1 = k1
  k2 = k2
  zero = zero
  val = val
  Callers <- MCCallers
  Keys <- MCKeys
  Returns <- MCReturns
  ZeroResult = zero
  Panicked = panicked
  NoOutcome = noOutcome
  NoLeader = noLeader
SPECIFICATION FairSpec
INVARIANTS
  WaiterOwedOnce
PROPERTIES
  EveryCallReturns
  ImplementsSingleFlight
