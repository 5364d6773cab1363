SPECIFICATION Spec
CONSTANTS
  w1 = w1
  w2 = w2
  None = None
  Thread = {w1, w2}
  Process = {w2}
  MaxDay = 1
INVARIANTS TypeOK StatusHonest
PROPERTIES  RefreshEnds
