SPECIFICATION Spec
CONSTANTS
  h1 = h1
  h2 = h2
  h3 = h3
  p1 = p1
  p2 = p2
  p3 = p3
  NoKey = NoKey
  Handles <- MCHandles
  Processes <- MCProcesses
  ProcessOf <- MCProcessOf
  Keys <- MCKeys
  Buildable <- MCBuildable
  Caching <- MCCaching
  FullDisk = FALSE
  DiskErrors = FALSE
  MaxCrashes = 1
INVARIANTS TypeOK FilesWhole
PROPERTIES FilesStay ImplementsProgramService
