SPECIFICATION Spec
CONSTANTS
  Handles = {h1}
  Ops <- AllOclOps
  Slots <- SlotNames
  Staging <- MCStaging
  Reads <- MCReads
  Grid <- MCGrid
  NImages = 2
  Backend = "OCL"
  StreamBlocks = FALSE
  Waits <- WaitsAlways
  TransferErrors = FALSE
  MaxCalls = 3
INVARIANTS TypeOK OwnArguments OclInv
PROPERTIES HostArrayNotReused ImplementsCallIsolation
CHECK_DEADLOCK FALSE
