SPECIFICATION Spec
CONSTANTS
  c1 = c1
  c2 = c2
  NonString = NonString
  Rejected = Rejected
  Calls <- MCCalls
  Batches <- MCBatches
  Atoms <- MCAtoms
  Policies <- MCPolicies
INVARIANTS
  TypeOK
  RedactedByOnePolicy
  HitsMatchEvents
  LastRuleWins
CHECK_DEADLOCK FALSE
