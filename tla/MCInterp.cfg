SPECIFICATION FairSpec
CONSTANTS
  WordBits = 4
  Exprs <- MCExprs
  Reasons <- MCReasons
  Programs <- MCPrograms
  Packets <- MCPackets
INVARIANTS
  TypeOK
  CursorInsideRegions
  HeadersTileTheInput
  TraceExplainsRun
PROPERTIES
  ImplementsBounded
  Terminates
