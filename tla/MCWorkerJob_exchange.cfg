CONSTANTS
  Requests <- MixedRequests
  MaxPipelined = 2
SPECIFICATION FairSpec
INVARIANTS
  TypeOK
  InStep
  DeathIsExplained
PROPERTIES
  ImplementsConnection
  ExchangeAsInServerDriver
  FreedWhenGone
  FreedWhenSilent
