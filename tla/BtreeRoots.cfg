SPECIFICATION RoundsSpec
CONSTANTS
  Root = {r1, r2, r3}
  Empty = empty
  NoRoot = none
  Nodes = 5
  Reader = {d1}
  MaxRecycle = 3
  MaxSequence = 4
  MaxWrites = 1
  MaxTree = 3
INVARIANTS PinnedIntact PinRecent CountExact NodesAccounted
PROPERTIES RecycleExact LockFree
CHECK_DEADLOCK FALSE
