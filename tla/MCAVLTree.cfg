SPECIFICATION FairSpec
CONSTANTS
  Producers = {p1, p2}
  Words = {u, v}
  Garbage = garbage
  MaxRequests = 3
INVARIANTS TypeOK NoUnderflow WordPerOperation WordsConserved InOrder PopsWhatItSaw
PROPERTY EveryRequestServed
CHECK_DEADLOCK FALSE
