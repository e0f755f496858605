SPECIFICATION Spec
CONSTANTS
  s1 = s1
  r1 = r1
  r2 = r2
  Members = {s1, r1, r2}
  Groups = {1}
  Label <- TwoTogether
  NoRecord = NoRecord
  NoCycle = NoCycle
  MaxDeletes = 1
CONSTRAINT FirstR1
CHECK_DEADLOCK FALSE
INVARIANTS GroupTypeOK GangUpToMissed OnePlace
PROPERTY GroupGetsBound
