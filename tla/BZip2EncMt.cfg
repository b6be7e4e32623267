SPECIFICATION Spec
CONSTANTS
  NumThreads = 3
  Lengths = {0, 4}
  MaxCalls = 2
  Faults = {"create", "alloc", "read", "write", "progress", "flush"}
\* A failed write leaves the threads of the later blocks waiting for their turn.
CHECK_DEADLOCK FALSE
PROPERTIES
  ImplementsOrderedCoder
  ReturnsUnlessWriteFails
