SPECIFICATION InsertSpec
CONSTANTS
  Words <- SevenWords
  Systems = {1}
  MaxOps = 7
  Wire <- wireHere
  ClearData <- clearData
  Push <- pushHere
  InsertInto <- insertHere
  FindSuccessor <- findSuccessorHere
  RemoveFrom <- removeHere
  CountIn <- countIn
  AllNodes <- allNodes
  Depth <- depth
  Light <- lightHere
INVARIANT StaysBalanced
CHECK_DEADLOCK FALSE
