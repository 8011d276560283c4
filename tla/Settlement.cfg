\* The broker allows one more delivery than the managed settler.
SPECIFICATION Spec
CONSTANTS
  MaxDeliveryCount = 4
  MaxAttempts = 3
INVARIANTS
  TypeOK
  NoMessageLost
  RetryBudget
  CompletedHookIsTrue
CHECK_DEADLOCK FALSE
