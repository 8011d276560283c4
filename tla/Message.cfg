\* Two sends with one option slice that has no room to grow.
SPECIFICATION Spec
CONSTANTS
  Send = {c1, c2}
  Option = {"SetScheduleAt", "SetMessageDelay", "BinaryTraceParent", "Failing"}
  MaxOptions = 2
  SpareCapacity = 0
INVARIANTS
  TypeOK
  SentAsAsked
  TraceIsOwn
CHECK_DEADLOCK FALSE
