SPECIFICATION Spec
CONSTANTS
  Keys = {k1, k2, k3}
  Data <- MCData
  Hdr = 1
  Align = 2
  InitSize = 3
  MaxSize = 8
  MaxOffset = 9
  Junk = 9
INVARIANTS
  PoolInv
  BlocksApart
PROPERTIES
  ImplementsStore
SYMMETRY KeySymmetry
CHECK_DEADLOCK FALSE
