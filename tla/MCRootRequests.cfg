SPECIFICATION FairSpecRequests
CONSTANTS
  c1 = c1
  c2 = c2
  u = u
  v = v
  empty = empty
  Producers <- TwoClients
  Words <- TwoWords
  Messages <- OneEach
  Empty = empty
  Garbage = garbage
  MaxRequests = 2
  Leaving = {c2}
INVARIANTS TypeOKRequests OwnRequest RootSurvives EveryWordArrives
PROPERTIES EveryWriteReturns EveryWordServed
CHECK_DEADLOCK FALSE
