CONSTANTS
  Sessions = {a}
  Fresh = Fresh
  Hollow = Hollow
  Empty = Empty
  Absent = Absent
  Broken = Broken
  DiskFills = TRUE
SPECIFICATION Spec
INVARIANTS TypeOK
PROPERTIES SavedSessionIsKept WorkIsSaved
