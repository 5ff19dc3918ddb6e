SPECIFICATION Spec
CONSTANTS
  i1 = i1
  i2 = i2
  Instance = {i1, i2}
  MaxPairs = 2
  Failing = {}
PROPERTIES
  StoredPairStays
CHECK_DEADLOCK FALSE
