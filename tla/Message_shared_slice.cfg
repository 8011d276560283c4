\* The shared option slice has room for one more option.
SPECIFICATION Spec
CONSTANTS
  Send = {c1, c2}
  Option = {"SetSubject"}
  MaxOptions = 1
  SpareCapacity = 1
INVARIANTS
  TracePropagated
CHECK_DEADLOCK FALSE
