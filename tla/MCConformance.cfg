SPECIFICATION ConformanceSpec
CONSTANTS
  WordBits = 4
  ByteBits = 2
  Exprs <- MCExprs
  Reasons <- MCReasons
  Programs <- MCPrograms
  Packets <- MCPackets
  MaxParseDepth <- MCDepth
  Garbage <- MCGarbage
INVARIANTS
  ConformsUpToPops
