\* One retry, handlers that need not return.
SPECIFICATION FairSpec
CONSTANTS
  Delivery = {d1, d2, d3}
  OptMaxConcurrency = 2
  OptMaxReceiveCount = 0
  OptStartMaxAttempt = 2
  PanicRecovered = FALSE
PROPERTIES
  StartReturns
CHECK_DEADLOCK FALSE
