CONSTANTS
  Sessions = {a}
  Fresh = Fresh
  Hollow = Hollow
  Empty = Empty
  Absent = Absent
  Broken = Broken
  DiskFills = FALSE
SPECIFICATION Spec
PROPERTIES RelaunchStartsFresh
