SPECIFICATION ConformanceSpec
CONSTANTS
  WordBits = 4
  ByteBits = 2
  Exprs <- TwiceExprs
  Reasons <- MCReasons
  Programs <- TwicePrograms
  Packets <- SixBits
  MaxParseDepth <- MCDepth
  Garbage <- MCGarbage
INVARIANTS
  ConformsInHeaders
