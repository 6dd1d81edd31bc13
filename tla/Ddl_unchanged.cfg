SPECIFICATION Spec
CONSTANTS
  None = None
  Throws = Throws
  Input <- Unchanged
  RootOf <- MCRootOf
  RulesOf <- ddlRulesOf
  ClassifyRuleOf <- ddlClassifyRuleOf
  MappingOf <- ddlMappingOf
  Adapt <- MCAdapt
  ReplacedAsWhole <- ddlReplacedAsWhole

INVARIANTS
  UnchangedSilent

CHECK_DEADLOCK FALSE
