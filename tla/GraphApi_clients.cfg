SPECIFICATION Spec
CONSTANTS
  None = None
  Throws = Throws
  Depth = 3
  Input <- MCInput
  RootOf <- MCRootOf
  RulesOf <- graphApiRulesOf
  ClassifyRuleOf <- graphApiClassifyRuleOf
  MappingOf <- graphApiMappingOf
  Adapt <- graphApiAdapt
  ReplacedAsWhole <- graphApiReplacedAsWhole

INVARIANTS
  ClientsWarned
  AlarmJustified
  RiskyIffNewValue

CHECK_DEADLOCK FALSE
