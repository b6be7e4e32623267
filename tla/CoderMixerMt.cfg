SPECIFICATION Spec
CONSTANTS
  NumCoders = 3
  Folders <- MCFolders
  MainCoders = {1, 2}
  MaxUnits = 1
  MaxCalls = 2
  OwnErrors = {"S_FALSE", "E_ABORT", "E_NOTIMPL"}
  Faults = {"create", "throw"}
INVARIANTS
  CauseReported
  ReturnedIsQuiet
PROPERTIES
  CallsReturn
