\* With and without CancelMessageContextOnStop.
SPECIFICATION FairSpec
INVARIANTS
  TypeOK
  StopNotLost
  NoEarlyExit
  OneLateCall
PROPERTIES
  ImplementsKeeper
  RenewalCeases
CHECK_DEADLOCK FALSE
