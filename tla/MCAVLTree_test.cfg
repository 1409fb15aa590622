SPECIFICATION Spec
CONSTANTS
  Producers = {p1}
  Words = {u, v}
  Garbage = garbage
  MaxRequests = 2
INVARIANT EveryWordInserted
CHECK_DEADLOCK FALSE
