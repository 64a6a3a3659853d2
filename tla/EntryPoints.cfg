SPECIFICATION Spec
CONSTANTS
  Entries <- MCEntries
  NoCall = NoCall
  MaxBatch = 2
INVARIANTS TypeOK ImagesAsAsked OwnArguments EveryArgumentReaches
INVARIANTS SuccessMeansRan PlanesAsNamed
