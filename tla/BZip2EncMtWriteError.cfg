SPECIFICATION Spec
CONSTANTS
  NumThreads = 2
  Lengths = {2}
  MaxCalls = 1
  Faults = {"write"}
CHECK_DEADLOCK FALSE
PROPERTIES
  CallsReturn
