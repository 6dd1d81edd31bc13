SPECIFICATION Spec
CONSTANTS
  r = r  a = a  b = b  c = c
  Obj <- MCObj
  Root <- r
  Diff <- MCObj
  Input <- Documents
  MaxDepth = 5

INVARIANTS
  RootExact
  RollupExact

PROPERTIES
  Termination

CHECK_DEADLOCK FALSE
