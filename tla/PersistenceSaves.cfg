SPECIFICATION Spec
CONSTANTS
  MaxWrite = 1
  MaxReset = 1
  MaxStart = 1
INVARIANTS
  TypeOK
  ReadableUnlessOverlap
  CleanStopKeepsAll
PROPERTIES
  NeverOlder
  FileCatchesUp
  ImplementsStateFile
CHECK_DEADLOCK FALSE
