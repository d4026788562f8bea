SPECIFICATION Spec
CONSTANTS
  Client <- TwoClients
  Bus <- TwoBuses
  Nr = {0, 1}
  Ino <- ThreeInos
  Fd <- TwoFds
  ScanId <- TwoScans
  NULL = NULL
  Dummy = Dummy
  MaxNr = 255
  May = {}
  c1 = c1
  c2 = c2
  b1 = b1
  b2 = b2
  s1 = s1
  s2 = s2
  f1 = f1
  f2 = f2
  i1 = i1
  i2 = i2
  i3 = i3
SYMMETRY SafetySymmetry
INVARIANT DeleteDeregisters
