SPECIFICATION Spec
CONSTANTS
  MaxWrite = 2
  MaxReset = 1
  MaxStart = 1
INVARIANTS
  NeverCorrupted
CHECK_DEADLOCK FALSE
