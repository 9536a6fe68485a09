CONSTANTS
  Replies <- WorkerReplies
  MaxReplies = 2
  buffer_size = 8
  buffer_sendable_n = 5
SPECIFICATION Spec
INVARIANTS
  TypeOK
  InOrder
  SentWhole
  FailsOnlyOn
CHECK_DEADLOCK FALSE
