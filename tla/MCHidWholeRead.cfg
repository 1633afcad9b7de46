SPECIFICATION Spec
CONSTANTS
  Commands <- MCCommands
  Cbor = "cbor"
  MaxCont = 1
  MaxOpens = 1
  MaxRequests = 1
  MaxOthers = 1
  MaxQueue = 2
  Lenient = TRUE
PROPERTY WholeReadEnds
CHECK_DEADLOCK FALSE
