SPECIFICATION Spec
CONSTANTS
  Handles = {h1}
  Ops <- BrightnessAndRois
  Slots <- SlotNames
  Staging <- MCStaging
  Reads <- MCReads
  Grid <- MCGrid
  NImages = 2
  Backend = "OCL"
  StreamBlocks = FALSE
  Waits <- WaitsAtEnd
  TransferErrors = FALSE
  MaxCalls = 2
INVARIANTS OwnArguments
CHECK_DEADLOCK FALSE
