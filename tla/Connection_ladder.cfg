SPECIFICATION FairSpec
CONSTANTS
  here = here
  there = there
  NoEndpoint = NoEndpoint
  Endpoint <- MCOne
  Kind = {"library"}
  Rungs = 2
  auto_reconnect = TRUE
INVARIANTS
  TypeOK
  EventsAreHeard
  NewsReachScreen
PROPERTIES
  LadderReconnects
  ShutdownEnds
CHECK_DEADLOCK FALSE
