SPECIFICATION Spec
CONSTANTS
  CacheBlockSize = 2
  CacheSize = 4
  MaxSize = 7
  MaxWrite = 3
  Faults = {"write", "restrict"}
PROPERTIES
  ImplementsOutFile
  RestrictionKept
