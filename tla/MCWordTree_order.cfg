SPECIFICATION InsertSpec
CONSTANTS
  Words <- SixWords
  Systems = {1}
  MaxOps = 6
  Wire <- wireHere
  ClearData <- clearData
  Push <- pushHere
  InsertInto <- insertHere
  FindSuccessor <- findSuccessorHere
  RemoveFrom <- removeHere
  CountIn <- countIn
  AllNodes <- allNodes
  Depth <- depth
  Light <- lightHere
INVARIANT StaysInOrder
CHECK_DEADLOCK FALSE
