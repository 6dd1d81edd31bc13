SPECIFICATION Spec
CONSTANTS
  b1 = b1  b2 = b2  b3 = b3  a1 = a1  a2 = a2
  s = s  t = t  X = X  Y = Y
  severe = severe  n1 = n1  n2 = n2  n3 = n3  n4 = n4
  Option <- MCOption
  Ref <- MCRef
  NoRef = NoRef
  Part <- MCPart
  Diff <- MCDiff
  dangerous <- MCDangerous
  None = None
  Input <- MCInput

INVARIANTS
  MinDiffsFound

CHECK_DEADLOCK FALSE
