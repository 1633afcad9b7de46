SPECIFICATION Spec
CONSTANTS
  Commands <- MCCommands
  Cbor = "cbor"
  MaxCont = 2
  MaxOpens = 2
  MaxRequests = 2
  MaxOthers = 1
  MaxQueue = 2
  Lenient = TRUE
INVARIANT TypeOK
INVARIANT AnswerIsWhole
INVARIANT AnswerIsOwn
INVARIANT ChannelsStayApart
PROPERTY ChannelIsOwn
PROPERTY WaitsEnd
CHECK_DEADLOCK FALSE
