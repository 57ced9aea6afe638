SPECIFICATION FairSpec
CONSTANTS
  Posts = {p1, p2}
  Gets = {g1}
  Versions = {v1, v2}
  Docs = {d1, d2}
  NoVersion = NoVersion
  NoDoc = NoDoc
  NoEntry = NoEntry
PROPERTIES
  ClientsConverge
CHECK_DEADLOCK FALSE
