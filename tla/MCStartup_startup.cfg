CONSTANTS
  Fds = {3, 4}
  WorkerCounts <- SomeCounts
SPECIFICATION FairSpec
INVARIANTS
  TypeOK
  OneHolder
PROPERTIES
  BeginsAsServerDriver
  Starts
