SPECIFICATION SymexSpec
CONSTANTS
  WordBits = 8
  SanityBits = 8
  LoopUnroll = 2
  MaxParseDepth = 6
  Value <- EvalTerm
  Holds <- Satisfies
  Reads <- ReadsIn
  Addends <- NormalizeOff
  Interval <- TermInterval
  Exprs <- MCExprs
  Reasons <- MCReasons
  Programs <- Misnamed
  Packets <- MCPackets
  LadderBits <- MCLadder
  Limits <- MCLimits
INVARIANTS
  PathIdMirrors
