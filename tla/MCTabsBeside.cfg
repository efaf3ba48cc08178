CONSTANTS
  Workspaces = {w1, w2, w3}
  Panels = {p1, p2, p3}
  Groups = {g1}
  None = None
  ClosedCap = 1
  HistoryCap = 2
SYMMETRY Symmetry
SPECIFICATION Spec
INVARIANTS GroupsAreContiguous
PROPERTIES RefusedMoveMovesNothing ConfirmedIsClosed
