SPECIFICATION HarshSpec
CONSTANTS
  a1 = a1
  a2 = a2
  a3 = a3
  b1 = b1
  Absent = Absent
  NoFile = NoFile
  NoEntry = NoEntry
  Junk = Junk
  Keys <- MCNames
  Rels <- MCNames
  Paths <- MCNames
  Names <- MCNames
  KeyOf <- MCSelf
  RelOf <- MCSelf
  DstOf <- MCSelf
  Requests <- MCBoth
  Versions <- MCVersions
  PartsOf <- MCPartsOf
  StockOf <- MCHarshStock
  Foreign <- MCForeign
  Signed <- MCSigned
  ForceVerify = TRUE
  SavesMayFail = TRUE
  FinalsRemoved = TRUE
  Workers = 2
  MaxRuns = 2
  MaxEvents = 1
INVARIANTS
  NothingForgotten
  FinalIntact
PROPERTIES
  OkDelivers
  Contract
