SPECIFICATION Spec
CONSTANTS
  Parts = {p0, p1, p2, p3}
  Earlier = {p0}
  MaxFailures = 1
  Absent = Absent
  Empty = Empty
  Torn = Torn
INVARIANTS
  TypeOK
  NeverAhead
  AtomicAlone
  FinalKeeps
