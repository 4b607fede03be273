SPECIFICATION Spec
CONSTANTS
  a1 = a1
  a2 = a2
  a3 = a3
  b1 = b1
  Absent = Absent
  NoFile = NoFile
  NoEntry = NoEntry
  Junk = Junk
  Keys <- MCNames
  Rels <- MCNames
  Paths <- MCNames
  Names <- MCNames
  KeyOf <- MCSelf
  RelOf <- MCSelf
  DstOf <- MCSelf
  Requests <- MCBoth
  Versions <- MCVersions
  PartsOf <- MCPartsOf
  StockOf <- MCCalmStock
  Foreign <- MCNone
  Signed <- MCSigned
  ForceVerify = FALSE
  SavesMayFail = TRUE
  FinalsRemoved = FALSE
  Workers = 2
  MaxRuns = 3
  MaxEvents = 1
INVARIANTS
  TypeOK
  FinalIntact
  StateWithinDisk
  NothingForgotten
PROPERTIES
  OkDelivers
  InterruptedIsResumed
  Returns
  Contract
