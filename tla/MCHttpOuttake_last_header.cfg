CONSTANTS
  Replies <- AnyReplies
  MaxReplies = 1
  buffer_size = 8
  buffer_sendable_n = 5
SPECIFICATION Spec
INVARIANT SentWhole
CHECK_DEADLOCK FALSE
