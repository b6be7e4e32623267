SPECIFICATION Spec
CONSTANTS
  Inputs <- MCInputs
  LaterInputs <- MCLaterInputs
  NoLimit = NoLimit
  Limits = {NoLimit, 1}
  Faults = {"create", "progress", "write"}
PROPERTIES
  ImplementsBlockDecoder
