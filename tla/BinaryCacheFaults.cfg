SPECIFICATION FairSpec
CONSTANTS
  h1 = h1
  h2 = h2
  h3 = h3
  p1 = p1
  p2 = p2
  p3 = p3
  NoKey = NoKey
  Handles <- MCTwoHandles
  Processes <- MCProcesses
  ProcessOf <- MCProcessOf
  Keys <- MCTwoKeys
  Buildable <- MCBuildable
  Caching <- MCCaching
  FullDisk = TRUE
  DiskErrors = TRUE
  MaxCrashes = 1
INVARIANTS RightProgram
PROPERTIES EveryRequestEnds ImplementsProgramService
