SPECIFICATION Spec
CONSTANTS
  rsKey = rsKey
  picoAll = picoAll
  n1 = n1
  n2 = n2
  chip = chip
  Boards = {rsKey, picoAll}
  PicoAll = {picoAll}
  CardSerial <- MCCardSerial
  HidSerial <- MCHidSerial
  Writers = {"switch", "config"}
  DriverErrors = TRUE
  MaxInputs = 2
  NoBoard = NoBoard
  Busy = Busy
  Many = Many
  NoSerial = NoSerial
INVARIANT TypeOK
 
INVARIANT ApplyingIsSwitch
PROPERTY NoChangeDropped
 
CHECK_DEADLOCK FALSE
