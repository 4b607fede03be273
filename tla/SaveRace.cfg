SPECIFICATION Spec
CONSTANTS
  Parts = {p0, p1, p2}
  Earlier = {p0}
  MaxFailures = 0
  Absent = Absent
  Empty = Empty
  Torn = Torn
INVARIANTS
  PersistsWhatLanded
