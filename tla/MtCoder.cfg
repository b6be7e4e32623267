CONSTANTS
  MaxThreads = 3
  MaxBlocks = 5
  Plans <- MCPlans
SPECIFICATION FairSpec
INVARIANTS
  TurnToWrite
  ResourcesExact
  FinishedIsQuiescent
  OkMeansComplete
PROPERTIES
  ImplementsOrderedCoder
  CallsReturn
