SPECIFICATION LifeSpec
CONSTANTS
  n1 = n1  g1 = g1  g2 = g2  g3 = g3  a = a  b = b  c = c
  Names = {a, b}
  Nodes <- MCNodes
  Leaves <- OneGpu
  Cells <- MCCells
  Path <- MCPath
  NodeOf <- MCNodeOf
  NodeCell <- MCNodeCell
  UNIT = 2
  FullMem = 3
  PortBits = 2
  Specs <- HalfSpecs
  NoNode = NoNode  NoPod = NoPod  NoStatus = NoStatus
  MaxUid <- Once
  MaxRestarts = 0
  MaxCreateErrors = 0
  MetricsMayMiss = FALSE
  OriginalsStay = TRUE
  ShadowsStay = TRUE
  ListedFirst = TRUE
INVARIANT PortsFromPool
CHECK_DEADLOCK FALSE
