SPECIFICATION FairSpec
CONSTANTS
  Callers = {host}
  RuleIDs = {r1}
  NoRule = NoRule
  MaxBatchHits = 1
  MaxRecorded = 1
  MaxFailures = 1
  BufferMax = 1
  MaxBatch = 1
  MaxEvents = 1
PROPERTIES
  ShutdownEnds
CHECK_DEADLOCK FALSE
