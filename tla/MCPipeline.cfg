SPECIFICATION FairAligned
CONSTANTS
  WordBits = 3
  ByteBits = 4
  Exprs <- MCExprs
  Reasons <- MCReasons
  Programs <- MCPrograms
  Packets <- MCPackets
  MaxParseDepth <- MCDepth
INVARIANTS
  ValidatorTypeOK
  InsetIsExact
  EntryFactsHold
  RegionVerdictIsExact
  RegionStackFitsCap
  ErrsOnlyWhereUnchecked
  AlignmentIsExact
  AlignmentHolds
PROPERTIES
  StagesEnd
  AnalysisEnds
