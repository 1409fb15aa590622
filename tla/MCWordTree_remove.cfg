SPECIFICATION Spec
CONSTANTS
  Words <- FiveWordsAndEmpty
  Systems = {1, 3}
  MaxOps = 7
  Wire <- wireHere
  ClearData <- clearData
  Push <- pushHere
  InsertInto <- insertHere
  FindSuccessor <- findSuccessorHere
  RemoveFrom <- removeHere
  CountIn <- countIn
  AllNodes <- allNodes
  Depth <- depth
  Light <- lightHere
INVARIANTS TypeOK TotalBounded
PROPERTY NothingMadeUp
CHECK_DEADLOCK FALSE
