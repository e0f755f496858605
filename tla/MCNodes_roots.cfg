SPECIFICATION HealthSpec
CONSTANTS
  a = a
  b = b
  c = c
  X = X
  Y = Y
  Z = Z
  Nodes = {a, b}
  CellTypes <- RootsCellTypes
  Models = {X}
  RootTypes <- RootsRootTypes
  GivenID <- RootsGivenID
  Hardware <- RootsHardware
  NoType = NoType
  NoElement = NoElement
  NoID = NoID
  NoNode = NoNode
  NoCell = NoCell
  NoUUID = NoUUID
  NoAdd = NoAdd
  Whole = 4
  Candidates = {a, b, c}
  GPUs = 2
  Scores <- MCScores
  Priorities <- MCPriorities
  MaxChanges = 2
CHECK_DEADLOCK FALSE
PROPERTY StatusFollowsNode
