\* A timeout above the interval, which is brought down to it; a scheduling delay of
\* up to one unit, so that checks fall behind and catch up.
SPECIFICATION FairSpec
CONSTANTS
  Namespace = {"ns"}
  Checkable <- MCCheckable
  OptInterval = 3
  OptTimeout = 5
  DefaultInterval = 4
  Jitter = 1
  MaxTime = 6
INVARIANTS
  TypeOK
  OnSchedule
PROPERTIES
  CheckIsCounted
  LoopsStop
CHECK_DEADLOCK FALSE
