SPECIFICATION FairLife
CONSTANTS
  n1 = n1  g1 = g1  g2 = g2  g3 = g3  a = a  b = b  c = c
  Names = {a, b}
  Nodes <- MCNodes
  Leaves <- TwoGpus
  Cells <- MCCells
  Path <- MCPath
  NodeOf <- MCNodeOf
  NodeCell <- MCNodeCell
  UNIT = 3
  FullMem = 5
  PortBits = 4
  Specs <- MixedSpecs
  NoNode = NoNode  NoPod = NoPod  NoStatus = NoStatus
  MaxUid <- Once
  MaxRestarts = 0
  MaxCreateErrors = 0
  MetricsMayMiss = FALSE
  OriginalsStay = TRUE
  ShadowsStay = TRUE
  ListedFirst = TRUE
INVARIANTS AccountsExact AggregatesAgree PodKept GpusAsRequested CalmInv
PROPERTIES EndedIsReclaimed WantedIsBound
CHECK_DEADLOCK FALSE
