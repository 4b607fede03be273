SPECIFICATION Spec
CONSTANTS
  Files = {f1, f2}
  f1 = f1
  f2 = f2
  Absent = Absent
  Workers = 2
  Lens = {0, 1, 2}
  MaxLen = 2
  MaxRuns = 2
  MaxEvents = 1
INVARIANTS
  TypeOK
  WholeObjects
  NewestPrefix
PROPERTIES
  OthersArrive
SYMMETRY MCSymmetry
