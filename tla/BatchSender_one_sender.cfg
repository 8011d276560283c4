\* One replacement of the sender.
SPECIFICATION Spec
CONSTANTS
  MaxMessages = 2
  MaxReplacements = 1
INVARIANTS
  OneSenderPerOperation
CHECK_DEADLOCK FALSE
