SPECIFICATION Spec
CONSTANTS
  rsKey = rsKey
  picoAll = picoAll
  n1 = n1
  n2 = n2
  chip = chip
  Boards = {rsKey, picoAll}
  PicoAll = {picoAll}
  CardSerial <- MCCardSerial
  HidSerial <- MCHidSerial
  Writers = {"switch"}
  DriverErrors = FALSE
  MaxInputs = 5
  NoBoard = NoBoard
  Busy = Busy
  Many = Many
  NoSerial = NoSerial
CONSTRAINT WatcherUnseeded
PROPERTY SwapForgets
CHECK_DEADLOCK FALSE
