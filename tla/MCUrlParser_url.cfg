CONSTANTS
  Sources <- SomeSources
  Urls <- SomeUrls
  MaxInt = 2
  MaxFloat = 2
  MaxItems = 24
SPECIFICATION FairSpec
INVARIANTS
  TypeOK
  PathExact
  DiesOnlyOn
  RoundTrip
PROPERTY Ends
CHECK_DEADLOCK FALSE
