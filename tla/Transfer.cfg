SPECIFICATION Spec
CONSTANTS
  Parts = {p1, p2}
  Size = 2
  maxTries = 2
  partTries = 2
  Armings = {{"stall"}, {"ceiling"}}
  MaxTroubles = 1
INVARIANTS
  TypeOK
  ExitZeroMeansAll
  CodeNamesCause
  WordMatchesCode
  RefusalIsFinal
  NeverUndercounted
PROPERTIES
  PoolEnds
  CeilingEndsAll
