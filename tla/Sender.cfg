\* Two sends around two replacements of the sender; the default send timeout.
SPECIFICATION FairSpec
CONSTANTS
  Send = {c1, c2}
  Setter = {s1, s2}
  OptSendTimeout = 0
INVARIANTS
  TypeOK
  SenderStable
  FreshSender
PROPERTIES
  SendReturns
  SetReturns
CHECK_DEADLOCK FALSE
