SPECIFICATION FairSpec
CONSTANTS
  Accessor = {a1, a2, a3}
  Node = {n1, n2, n3}
  NoNode = NoNode
  NoAccessor = NoAccessor
INVARIANTS NoUseAfterFree Custody
PROPERTIES Reclaimed
