SPECIFICATION FairSpec
CONSTANTS
  Processors = {logs, traces}
  Versions = {v1}
  GoodDocs = {d1, d2}
  BadDocs = {bad}
  LocalDoc = d1
  NoDoc = NoDoc
  NoEntry = NoEntry
  NotModified = NotModified
  InitialVersion = v0
  InitialDoc = d2
  MaxPosts = 2
  MaxFailures = 1
PROPERTIES
  ConvergesToActive
CHECK_DEADLOCK FALSE
