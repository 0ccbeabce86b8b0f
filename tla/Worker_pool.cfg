SPECIFICATION FairSpec
CONSTANTS
  Pollers = {p1, p2, p3}
  Scalable = {p2, p3}
  Stoppers = {main}
  Limit = 2
  EmptyThreshold = 2
  RateLimited = TRUE
  HandlersReturn = TRUE
  NoThread = NoThread
INVARIANTS TypeOK GateExact ScalerExact NoDispatchAfterDrain
PROPERTIES ParkedAreWoken StopWaitsForSleepersOnly
