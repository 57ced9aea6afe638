SPECIFICATION Spec
CONSTANTS
  Callers = {host, other}
  RuleIDs = {r1}
  NoRule = NoRule
  MaxBatchHits = 1
  MaxRecorded = 1
  MaxFailures = 1
  BufferMax = 2
  MaxBatch = 1
  MaxEvents = 2
SYMMETRY CallerSymmetry
INVARIANTS
  TypeOK
  ClosedOnce
  QuietAfterShutdown
  FinalFlushComplete
PROPERTIES
  CountsImplemented
  EventsImplemented
CHECK_DEADLOCK FALSE
