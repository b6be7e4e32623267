SPECIFICATION FairSpec
CONSTANTS
  Threads = {t1, t2}
  Main = Main
  ItemLists <- MCItemLists
  PoolSizes = {0, 2}
  BlockSize = 2
  WriteSizes = {3}
  MaxUnits = 3
  MaxPasses = 2
  Faults = {"create", "stream", "direct", "code", "write", "restrict"}
INVARIANTS
  ArchiveExact
  OkMeansWritten
  BlocksExact
  OneWriter
PROPERTIES
  UpdateReturns
