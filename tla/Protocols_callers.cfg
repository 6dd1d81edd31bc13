SPECIFICATION Spec
CONSTANTS
  None = None
  Throws = Throws
  PropertyName = {"a", "b"}
  PathParam = {"{id}", "{key}"}
  Segments <- MCSegments
  MediaTypes <- MCMediaTypes
  LowerCase <- MCLowerCase
  Input <- MCInput
  RootOf <- MCRootOf
  RulesOf <- asyncApiRulesOf
  ClassifyRuleOf <- openApiClassifyRuleOf
  MappingOf <- asyncApiMappingOf
  Adapt <- asyncApiAdapt
  ReplacedAsWhole <- MCReplacedAsWhole

INVARIANTS
  ConsumersWarned
  WarningsJustified
  AccessWarned
  FootprintDecides

CHECK_DEADLOCK FALSE
