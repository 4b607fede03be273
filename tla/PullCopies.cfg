SPECIFICATION Spec
CONSTANTS
  a1 = a1
  a2 = a2
  a3 = a3
  b1 = b1
  Absent = Absent
  NoFile = NoFile
  NoEntry = NoEntry
  Junk = Junk
  Keys <- MCOneKey
  Rels <- MCOneKey
  Paths <- MCCopies
  Names <- MCCopies
  KeyOf <- MCOneKeyOf
  RelOf <- MCOneKeyOf
  DstOf <- MCCopyOf
  Requests <- MCSingles
  Versions <- MCVersions
  PartsOf <- MCPartsOf
  StockOf <- MCCopyStock
  Foreign <- MCNone
  Signed <- MCNone
  ForceVerify = FALSE
  SavesMayFail = FALSE
  FinalsRemoved = TRUE
  Workers = 2
  MaxRuns = 3
  MaxEvents = 1
INVARIANTS
  FinalIntact
