SPECIFICATION Spec
CONSTANTS
  Words <- FiveWords
  Systems = {1}
  MaxOps = 4
  Wire <- wireHere
  ClearData <- clearData
  Push <- pushHere
  InsertInto <- insertHere
  FindSuccessor <- findSuccessorHere
  RemoveFrom <- removeHere
  CountIn <- countIn
  AllNodes <- allNodes
  Depth <- depth
  Light <- lightHere
PROPERTY NotFoundKeepsWords
CHECK_DEADLOCK FALSE
