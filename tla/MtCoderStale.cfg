CONSTANTS
  MaxThreads = 2
  MaxBlocks = 3
  Plans <- TwoCalls
SPECIFICATION FairSpec
INVARIANTS OkMeansComplete
