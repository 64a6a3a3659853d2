SPECIFICATION Spec
CONSTANTS
  NImages = 3
  Block <- MCBlock
  Word = 13
  MaxSide = 2
  Calls <- SafeCalls
INVARIANTS TypeOK ImagesApart StaysInPlace EveryPixelWritten
CHECK_DEADLOCK FALSE
