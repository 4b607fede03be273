SPECIFICATION Spec
CONSTANTS
  n = 4
  workers = 3
INVARIANTS
  TypeOK
  NilMeansAll
PROPERTIES
  Contract
  NobodyIsLeft
