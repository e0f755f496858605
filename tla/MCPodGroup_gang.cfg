SPECIFICATION Spec
CONSTANTS
  s1 = s1
  r1 = r1
  r2 = r2
  Members = {s1, r1, r2}
  Groups = {1}
  Label <- AllTogether
  NoRecord = NoRecord
  NoCycle = NoCycle
  MaxDeletes = 1
CHECK_DEADLOCK FALSE
INVARIANT RegularGangHolds
