SPECIFICATION MCSpec
CONSTANTS
  Thread = {t1, t2, t3, t4}
  Item = {a, b}
  None = None
  Limit = 2
INVARIANTS WaitJustified
PROPERTIES Progress
