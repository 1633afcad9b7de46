SPECIFICATION Spec
CONSTANTS
  A = A
  B = B
  a = a
  b = b
  x = x
  aBad = aBad
  Keys = {A, B}
  s0 = s0
  s1 = s1
  s2 = s2
  glitch = glitch
  debug = debug
  Slots = {s0, s1, s2}
  WordRows <- MCWordRows
  Word <- MCWord
  Torn = Torn
  FlagCopies <- MCFlagCopies
  CritCopies <- MCCritCopies
  HardBits = {glitch, debug}
  LockBytes = {y1, y2}
  y1 = y1
  y2 = y2
  LockBits <- MCLockBits
  BootselBit = "bootsel"
  Images = {a, aBad}
  KeyOf <- MCKeyOf
  Boots = {a}
  KeyLocked = FALSE
  NoKey = NoKey
  NoJob = NoJob
INVARIANT LockedImageHasRun
