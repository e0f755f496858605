SPECIFICATION LifeSpec
CONSTANTS
  n1 = n1  g1 = g1  g2 = g2  g3 = g3  a = a  b = b  c = c
  Names = {a, b, c}
  Nodes <- MCNodes
  Leaves <- ThreeGpus
  Cells <- MCCells
  Path <- MCPath
  NodeOf <- MCNodeOf
  NodeCell <- MCNodeCell
  UNIT = 2
  FullMem = 3
  PortBits = 4
  Specs <- FragmentSpecs
  NoNode = NoNode  NoPod = NoPod  NoStatus = NoStatus
  MaxUid <- Once
  MaxRestarts = 0
  MaxCreateErrors = 0
  MetricsMayMiss = FALSE
  OriginalsStay = TRUE
  ShadowsStay = TRUE
  ListedFirst = TRUE
INVARIANT GpusAsRequested
CHECK_DEADLOCK FALSE
SYMMETRY Symmetric
