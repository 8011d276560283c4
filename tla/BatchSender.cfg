\* Arrays of up to four messages, whatever fits into a batch; two replacements of
\* the sender.
SPECIFICATION FairSpec
CONSTANTS
  MaxMessages = 4
  MaxReplacements = 2
INVARIANTS
  TypeOK
  DeliveredIsPrefix
  NilMeansAllDelivered
  SingleBatchIsAllOrNothing
PROPERTIES
  TimeoutBoundsOperation
CHECK_DEADLOCK FALSE
