SPECIFICATION ReuseSpec
CONSTANTS
  n1 = n1  g1 = g1  g2 = g2  g3 = g3  a = a  b = b  c = c
  Names = {a, b}
  Nodes <- MCNodes
  Leaves <- OneGpu
  Cells <- MCCells
  Path <- MCPath
  NodeOf <- MCNodeOf
  NodeCell <- MCNodeCell
  UNIT = 3
  FullMem = 5
  PortBits = 3
  Specs <- SharedSpecs
  NoNode = NoNode  NoPod = NoPod  NoStatus = NoStatus
  MaxUid <- ReuseA
  MaxRestarts = 0
  MaxCreateErrors = 1
  MetricsMayMiss = FALSE
  OriginalsStay = TRUE
  ShadowsStay = FALSE
  ListedFirst = TRUE
INVARIANTS TypeOK NoGpuOvercommit NeverNegative PortsExclusive LifeInv AccountInv
PROPERTY ReclaimsOnlyTheEnded
CHECK_DEADLOCK FALSE
