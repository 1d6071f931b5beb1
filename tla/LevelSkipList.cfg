SPECIFICATION FairSpec
CONSTANTS
  Key <- Keys3
  Null = 9
  kMaxHeight = 3
  Reader = {r1}
  Writer = w
INVARIANTS LevelsSorted
PROPERTIES SearchExact SearchReturns
