SPECIFICATION Spec
CONSTANTS
  None = None
  Throws = Throws
  Input <- MCInput
  RootOf <- MCRootOf
  RulesOf <- ddlRulesOf
  ClassifyRuleOf <- ddlClassifyRuleOf
  MappingOf <- ddlMappingOf
  Adapt <- MCAdapt
  ReplacedAsWhole <- ddlReplacedAsWhole

INVARIANTS
  QueriesKept
  BreakingJustified
  SilentIffSame
  ToldOnce

CHECK_DEADLOCK FALSE
