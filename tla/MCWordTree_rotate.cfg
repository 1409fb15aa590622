SPECIFICATION InsertSpec
CONSTANTS
  Words <- SixWords
  Systems = {3}
  MaxOps = 9
  Wire <- wireHere
  ClearData <- clearData
  Push <- pushHere
  InsertInto <- insertHere
  FindSuccessor <- findSuccessorHere
  RemoveFrom <- removeHere
  CountIn <- countIn
  AllNodes <- allNodes
  Depth <- depth
  Light <- lightHere
INVARIANT ChildToRotateExists
CHECK_DEADLOCK FALSE
