CONSTANTS
  Panels = {p1, p2, p3}
  None = None
  ClosedCap = 1
SYMMETRY Symmetry
SPECIFICATION Spec
INVARIANTS TypeOK NoTabTwiceNorDead PanesShowATab FocusIsLive
PROPERTIES FocusStaysInPane StaysOnScreen
