\* Three slots, receives of at most two messages, one retry of the pump, handlers
\* that may panic or never return.
SPECIFICATION FairSpec
CONSTANTS
  Delivery = {d1, d2, d3, d4}
  OptMaxConcurrency = 3
  OptMaxReceiveCount = 2
  OptStartMaxAttempt = 2
  PanicRecovered = FALSE
INVARIANTS
  TypeOK
  TokenAccounting
  ConcurrencyBound
  NoStarvedBatch
  GaugeAccounting
PROPERTIES
  ImplementsPool
  ShutdownEnds
  BatchIsHandled
  PumpResumes
CHECK_DEADLOCK FALSE
