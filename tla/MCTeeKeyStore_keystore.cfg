SPECIFICATION Spec
CONSTANTS
  i1 = i1
  i2 = i2
  Instance = {i1, i2}
  MaxPairs = 3
  Failing <- TEECall
INVARIANTS
  StoreTypeOK
  NoHandleLeft
  WorksWithStored
  AtomicIfAlone
CHECK_DEADLOCK FALSE
SYMMETRY InstanceSymmetry
