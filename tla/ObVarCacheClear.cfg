SPECIFICATION Spec
CONSTANTS
  Thread = {t1}
  Key = {k1, k2}
  Block = {b1, b2}
  None = None
  Size = {1}
  BlockSize = 2
  Available = 2
  MaxTraverse = 2
  ClearAlone = FALSE
  MaxItems = 3
INVARIANT ClearEmpties
CHECK_DEADLOCK FALSE
