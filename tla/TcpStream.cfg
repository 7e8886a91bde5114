CONSTANTS
  Lengths = {0, 1, 3}
  MemSize = 4
  MaxBytes = 6
  Capacity = 2
SPECIFICATION FairSpec
INVARIANTS
  TypeOK
  WrittenInOrder
  ReadIsExact
  ShutdownMeansMissing
PROPERTIES
  CallsEnd
  ImplementsExactIO
\* Both ends may be closed.
CHECK_DEADLOCK FALSE
