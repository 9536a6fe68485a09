CONSTANTS
  BufferN = 3
  MaxOctets = 6
SPECIFICATION Spec
INVARIANTS
  TypeOK
  LineExact
  Terminated
  BlobExact
  FailsOnlyOn
