SPECIFICATION MCSpec
CONSTANTS
  Proc = {p1, p2, p3}
  Key = {1, 2, 3}
  None = None
  MAX_HEIGHT = 2
  SizeLimit <- MCSizeLimit
  Initial <- MCInitial
  MaxCalls = 3
SYMMETRY Symmetry
INVARIANTS LinksUpward LiveReachable RecycledUnreachable LockOrder
PROPERTIES AnswersRight
