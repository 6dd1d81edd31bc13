SPECIFICATION Spec
CONSTANTS
  rb = rb  b1 = b1  b2 = b2
  ra = ra  a1 = a1  a2 = a2
  x = x  y = y
  root = root  k1 = k1  k2 = k2  k3 = k3  k4 = k4
  request = request  response = response
  mark = mark  marked = marked
  Node <- MCNode
  Leaf <- MCLeaf
  Key <- MCKey
  Path <- MCPath
  NoPath = NoPath
  Scope <- MCScope
  RootScope = RootScope
  Element <- MCElement
  ElementValue <- MCElementValue
  Unset = Unset
  RootKey <- root
  BeforeRoot <- rb
  AfterRoot <- ra
  Rule <- PlainRules
  Input <- SharedInputs
  MaxDepth = 4

INVARIANTS
  NoReentry
  CrawlInv
  MergedWhole

PROPERTIES
  Termination

CHECK_DEADLOCK FALSE
