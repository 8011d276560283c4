\* Two deliveries of the message, two tokens.
SPECIFICATION PipelineSpec
CONSTANTS
  MaxDeliveryCount = 2
  MaxAttempts = 2
  MaxConcurrency = 2
PROPERTIES
  TokensComeBack
  HandlerIsTold
  MessageEnds
CHECK_DEADLOCK FALSE
