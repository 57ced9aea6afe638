SPECIFICATION Spec
CONSTANTS
  Events <- MCEvents
  Arrivals <- MCArrivals
  Queries <- MCQueries
  EventLimit = 4
  PageSize = 1
  MaxInFlight = 2
  MaxLoaded = 2
INVARIANTS
  TypeOK
  NothingSkipped
  TwiceOnlyAfterTrimming
  ListedInOrder
  LoadingEnds
CHECK_DEADLOCK FALSE
