SPECIFICATION LifeSpec
CONSTANTS
  n1 = n1  g1 = g1  g2 = g2  g3 = g3  a = a  b = b  c = c
  Names = {a, b, c}
  Nodes <- MCNodes
  Leaves <- TwoGpus
  Cells <- MCCells
  Path <- MCPath
  NodeOf <- MCNodeOf
  NodeCell <- MCNodeCell
  UNIT = 1
  FullMem = 2
  PortBits = 4
  Specs <- OneMulti
  NoNode = NoNode  NoPod = NoPod  NoStatus = NoStatus
  MaxUid <- Once
  MaxRestarts = 0
  MaxCreateErrors = 0
  MetricsMayMiss = FALSE
  OriginalsStay = FALSE
  ShadowsStay = FALSE
  ListedFirst = TRUE
INVARIANT NoGpuOvercommit
CHECK_DEADLOCK FALSE
SYMMETRY Symmetric
