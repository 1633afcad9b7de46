SPECIFICATION Spec
CONSTANTS
  k1 = k1
  k2 = k2
  NoKey = NoKey
  github = github
  gitlab = gitlab
  pw = pw
  NoCode = NoCode
  Blank = Blank
  None = None
  Off = Off
INVARIANTS TypeOK 
    
CHECK_DEADLOCK FALSE
