SPECIFICATION FairSpec
CONSTANTS
  BufferMax = 2
  MaxBatch = 1
  MaxEvents = 3
  MaxFailures = 2
PROPERTIES
  EventsEventuallyWritten
CHECK_DEADLOCK FALSE
