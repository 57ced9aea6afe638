SPECIFICATION FairSpec
CONSTANTS
  Events <- MCLiveEvents
  Arrivals <- MCLiveArrivals
  Queries <- MCLiveQueries
  EventLimit = 2
  PageSize = 1
  MaxInFlight = 2
  MaxLoaded = 2
PROPERTIES
  ViewConverges
CHECK_DEADLOCK FALSE
