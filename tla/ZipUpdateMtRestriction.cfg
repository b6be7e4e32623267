SPECIFICATION Spec
CONSTANTS
  Threads = {t1, t2}
  Main = Main
  ItemLists <- MCShortList
  PoolSizes = {2}
  BlockSize = 2
  WriteSizes = {3}
  MaxUnits = 3
  MaxPasses = 1
  Faults = {"restrict"}
INVARIANTS
  OkMeansNoError
