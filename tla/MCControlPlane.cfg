SPECIFICATION Spec
CONSTANTS
  Posts = {p1, p2, p3}
  Gets = {g1}
  Versions = {v1, v2}
  Docs = {d1, d2}
  NoVersion = NoVersion
  NoDoc = NoDoc
  NoEntry = NoEntry
SYMMETRY PlaneSymmetry
INVARIANTS
  TypeOK
  ActiveHasDocument
  AnsweredMeansWritten
  ServedAsPosted
CHECK_DEADLOCK FALSE
