SPECIFICATION BpfSpec
CONSTANTS
  Variant = "c"
  PK_BUF_MASK = 255
  WordSize <- MCWordSize
  ConsumedSize = 65536
  Inputs <- MCInputs
  Garbage <- MCGarbage
INVARIANTS
  CoreTypeOK
  ReadsAreInside
  RegionSlotWritten
PROPERTIES
  ImplementsFormat
  BpfImplementsC
