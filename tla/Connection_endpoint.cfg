SPECIFICATION Spec
CONSTANTS
  here = here
  there = there
  NoEndpoint = NoEndpoint
  Endpoint <- MCTwo
  Kind = {"player"}
  Rungs = 1
  auto_reconnect = TRUE
INVARIANT
  ConnectedToEndpoint
CHECK_DEADLOCK FALSE
