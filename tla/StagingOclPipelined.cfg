SPECIFICATION Spec
CONSTANTS
  Handles = {h1}
  Ops <- SmallOps
  Slots <- SlotNames
  Staging <- MCStaging
  Reads <- MCReads
  Grid <- MCGrid
  NImages = 2
  Backend = "OCL"
  StreamBlocks = FALSE
  Waits <- WaitsAtEnd
  TransferErrors = TRUE
  MaxCalls = 2
INVARIANTS NeverStale
CHECK_DEADLOCK FALSE
