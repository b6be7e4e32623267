SPECIFICATION FairSpec
CONSTANTS
  MaxThreads = 3
  InBufSize = 2
  Plans <- MCPlans
INVARIANTS
  OutputInOrder
  TokensInRing
  AllDecoded
  ReturnedIsQuiet
PROPERTIES
  CallsReturn
