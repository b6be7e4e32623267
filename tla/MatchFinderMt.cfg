CONSTANTS
  kMtHashNumBlocks = 2
  kMtBtNumBlocks = 2
  MaxBlocks = 3
  StreamLengths = {0, 3}
  MaxRuns = 2
  Faults = {"create", "init", "data"}
SPECIFICATION FairSpec
INVARIANTS
  BlockIntact
  SemaphoresExact
  UsedUnderLock
  EndsCleanly
PROPERTIES
  ImplementsQueues
  CallsReturn
