SPECIFICATION ConformanceSpec
CONSTANTS
  WordBits = 4
  ByteBits = 2
  Exprs <- ZooExprs
  Reasons <- MCReasons
  Programs <- ZooPrograms
  Packets <- MCPackets
  MaxParseDepth <- MCDepth
  Garbage <- MCGarbage
INVARIANTS
  ConformsInReason
