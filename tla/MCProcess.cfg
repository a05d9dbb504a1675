SPECIFICATION ProcessSpec
CONSTANTS
  Heirs = {heir}
  Timeouts = {1, 3}
  MaxInstant = 2
  GRACE = 1
  Cap = 1
  Inputs = {2}
  PipeSize = 1
  MaxWritten = 2
  Closable = {"stdin", "stdout"}
  Horizon = 3
INVARIANTS
  ProcessTypeOK
  ReturnsInTime
  OutputIsWhole
  NoOneLeftBehind
PROPERTIES
  SignalsItsOwnGroup
  Returns
  DrainsNeverStall
CHECK_DEADLOCK FALSE
