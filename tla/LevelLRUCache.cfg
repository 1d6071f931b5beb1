SPECIFICATION FairSpec
CONSTANTS
  Thread = {t1, t2}
  Key = {k1, k2, k3}
  Handle = {h1, h2, h3}
  Charges = {1, 2}
  Capacities = {0, 3}
  MaxPins = 2
  NoEntry = NoEntry
  NoHandle = NoHandle
  NoThread = NoThread
INVARIANTS RefsExact NoDanglingHandle UsageExact OverCapacity
PROPERTIES PruneExact KeepsContract CallsReturn
