CONSTANTS
  Messages <- AllMessages
  MaxMessages = 3
  buffer_size = 3
SPECIFICATION FairSpec
INVARIANTS
  TypeOK
  InSync
  DiesOnlyOn
PROPERTIES
  GivesUpOnlyOn
  CallReturns
CHECK_DEADLOCK FALSE
