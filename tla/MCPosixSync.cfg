CONSTANTS
  auto = auto
  manual = manual
  sem = sem
  Threads = {t1, t2, t3}
  AutoEvents = {auto}
  ManualEvents = {manual}
  Semaphores = {sem}
  MaxCount <- MCMaxCount
  Calls <- MCCalls
SPECIFICATION FairSpec
INVARIANTS
  NoLostWakeup
PROPERTIES
  ImplementsSyncObjects
  NoWaitForever
