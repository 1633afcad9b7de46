SPECIFICATION Spec
CONSTANTS
  None = None
  Off = Off
INVARIANTS TypeOK 
PROPERTIES ReportedIsDone   OperationEnds
CHECK_DEADLOCK FALSE
