CONSTANTS
  Messages <- OddMessages
  MaxMessages = 2
  buffer_size = 3
SPECIFICATION Spec
INVARIANT NoexceptHolds
CHECK_DEADLOCK FALSE
