SPECIFICATION Spec
CONSTANTS
  Algorithms <- MCAlgorithms
  Configs <- MCConfigs
  ProgramNames = {"p"}
  Params <- MCParams
  Sources <- MCSources
  KernelNames = {"k1", "k2"}
  Exports <- MCExports
  MaxIndex = 1
  Requests <- MCRequests
INVARIANTS TypeOK KernelFitsRequest OneProgramPerParameters KernelsOfLivePrograms
PROPERTIES ProgramsKept ImplementsRegistry
