SPECIFICATION TruncationSpec
CONSTANTS
  WordBits = 4
  Exprs <- MCExprs
  Reasons <- MCReasons
  Programs <- MCPrograms
  Packets <- MCPackets
INVARIANTS
  OtherVerdictsAreFinal
  TruncatedRunIsAPrefix
