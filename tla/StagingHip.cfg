SPECIFICATION FairSpec
CONSTANTS
  Handles = {h1, h2}
  Ops <- SmallOps
  Slots <- SlotNames
  Staging <- MCStaging
  Reads <- MCReads
  Grid <- MCGrid
  NImages = 2
  Backend = "HIP"
  StreamBlocks = TRUE
  Waits <- WaitsNever
  TransferErrors = FALSE
  MaxCalls = 2
INVARIANTS OwnArguments HipInv
PROPERTIES ImplementsCallIsolation EveryCallCompletes
CHECK_DEADLOCK FALSE
