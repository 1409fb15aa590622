SPECIFICATION InsertSpec
CONSTANTS
  Words <- SevenWords
  Systems = {1, 2, 3}
  MaxOps = 7
  Wire <- wireHere
  ClearData <- clearData
  Push <- pushHere
  InsertInto <- insertHere
  FindSuccessor <- findSuccessorHere
  RemoveFrom <- removeHere
  CountIn <- countIn
  AllNodes <- allNodes
  Depth <- depth
  Light <- lightHere
INVARIANTS NullSafe Ordered HeightsExact Balanced EmptyBelowEmpty LocallySafe
PROPERTIES ImplementsBag NothingMadeUp
CHECK_DEADLOCK FALSE
