SPECIFICATION Spec
CONSTANTS
  w1 = w1
  w2 = w2
  p1 = p1
  p2 = p2
  allA = allA
  oldB = oldB
  foreignC = foreignC
  Workers = {w1, w2}
  Ports = {p1, p2}
  Boards = {allA, oldB, foreignC}
  FirmwareOf <- MCFirmwareOf
  Identities <- MCIdentities
  Identity <- MCIdentity
  Nobody = Nobody
  NoBoard = NoBoard
  NoTarget = NoTarget
INVARIANT HidSameBoard
