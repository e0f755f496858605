SPECIFICATION HealthSpec
CONSTANTS
  a = a
  b = b
  c = c
  X = X
  Y = Y
  Z = Z
  Nodes = {a, b}
  CellTypes <- MCCellTypes
  Models <- MCModels
  RootTypes <- MCRootTypes
  GivenID <- MCGivenID
  Hardware <- MCHardware
  NoType = NoType
  NoElement = NoElement
  NoID = NoID
  NoNode = NoNode
  NoCell = NoCell
  NoUUID = NoUUID
  NoAdd = NoAdd
  Whole = 4
  Candidates = {a, b, c}
  GPUs = 2
  Scores <- MCScores
  Priorities <- MCPriorities
  MaxChanges = 3
CHECK_DEADLOCK FALSE
INVARIANTS HealthTypeOK ElementsAgree EveryTypeAdded CapacityIsLeaves GpuIdsDiffer HealthyLeafHasGpu MemoryAddsUp HealthyIsOffered NormalizedInRange ScoresFollowUse GroupStaysTogether
PROPERTY StatusFollowsNode
