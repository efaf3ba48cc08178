CONSTANTS
  Panels = {p1, p2, p3}
  None = None
  ClosedCap = 1
SYMMETRY Symmetry
SPECIFICATION Spec
INVARIANTS ZoomIsLive ClosedWithItsLastTab EveryPanelIsPlaced FocusIsShown
