SPECIFICATION Spec
CONSTANTS
  Thread = {t1, t2}
  Key = {k1, k2}
  Handle = {h1, h2, h3}
  Charges = {1, 2}
  Capacities = {1, 2}
  MaxPins = 2
  NoEntry = NoEntry
  NoHandle = NoHandle
  NoThread = NoThread
SYMMETRY Symmetry
INVARIANTS NoDanglingHandle UsageExact OverCapacity
PROPERTIES StrictLimit KeepsContract
