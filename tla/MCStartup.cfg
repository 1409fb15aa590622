SPECIFICATION FairSpec
CONSTANTS
  Clients = {c1, c2, c3}
  Memory <- NearZero
  MaxDeaths = 1
INVARIANTS TypeOK StartsWithTrees StartsOnce
PROPERTIES ImplementsBarrier BarrierOpens
CHECK_DEADLOCK FALSE
