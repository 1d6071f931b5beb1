SPECIFICATION Spec
CONSTANTS
  Thread = {t1, t2}
  Key = {k1, k2}
  Block = {b1, b2, b3}
  None = None
  Size = {1, 3}
  BlockSize = 2
  Available = 2
  MaxTraverse = 2
  ClearAlone = TRUE
  MaxItems = 3
INVARIANTS   RecycledEmpty MemoryAccounted
PROPERTIES WashedOut
CHECK_DEADLOCK FALSE
SYMMETRY Symmetry
