SPECIFICATION Spec
CONSTANTS
  NImages = 2
  Block <- MCBlock
  Word = 13
  MaxSide = 2
  Calls <- BrightnessCalls
INVARIANTS ImagesApart
CHECK_DEADLOCK FALSE
