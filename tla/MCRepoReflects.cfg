SPECIFICATION Spec
CONSTANTS
  rsKey = rsKey
  picoAll = picoAll
  n1 = n1
  n2 = n2
  chip = chip
  Boards = {rsKey, picoAll}
  PicoAll = {picoAll}
  CardSerial <- MCCardSerial
  HidSerial <- MCHidSerial
  Writers = {}
  DriverErrors = FALSE
  MaxInputs = 3
  NoBoard = NoBoard
  Busy = Busy
  Many = Many
  NoSerial = NoSerial
PROPERTY EveryScreenReflectsKey
CHECK_DEADLOCK FALSE
