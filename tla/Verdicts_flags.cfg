SPECIFICATION Spec
CONSTANTS
  p = p  q = q
  None = None
  Throws = Throws
  true = true  false = false
  Property <- MCProperty
  Number <- MCNumber
  Input <- MCInput

INVARIANTS
  LossFlagged
  NoFalseAlarm
  FailuresContained
  ReversalsAgree

CHECK_DEADLOCK FALSE
