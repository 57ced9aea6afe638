SPECIFICATION Spec
CONSTANTS
  BufferMax = 3
  MaxBatch = 2
  MaxEvents = 4
  MaxFailures = 2
INVARIANTS
  TypeOK
  NoSilentLoss
  HeldOnce
  WrittenTwiceOnlyAfterFailure
  OrderWithoutFailure
PROPERTIES
  EvictionOnlyWhenFull
CHECK_DEADLOCK FALSE
