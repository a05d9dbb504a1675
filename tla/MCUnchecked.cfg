SPECIFICATION AlignedSpec
CONSTANTS
  WordBits = 3
  ByteBits = 4
  Exprs <- LooseExprs
  Reasons <- MCReasons
  Programs <- LoosePrograms
  Packets <- MCPackets
  MaxParseDepth <- MCDepth
INVARIANTS
  ValidatedNeverErrs
