SPECIFICATION Spec
CONSTANTS
  minPartSize = 3
  maxPartsPerObject = 5
  s3MaxParts = 4
  maxInFlightPerObject = 2
  Sizes <- MCSizes
  MaxTargets = 3
INVARIANTS
  JobsTileTargets
  FloorAndCap
  OrderIsFair
  OrderSpreads
CHECK_DEADLOCK FALSE
