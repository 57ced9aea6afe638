SPECIFICATION FairSpec
CONSTANTS
  RuleIDs = {r1, r2}
  NoRule = NoRule
  MaxBatchHits = 1
  MaxRecorded = 2
  MaxFailures = 2
INVARIANTS
  TypeOK
  HitsConserved
  NeverUndercounted
  CountedTwiceOnlyAfterFailure
PROPERTIES
  ImplementsLedger
  HitsEventuallyCounted
CHECK_DEADLOCK FALSE
