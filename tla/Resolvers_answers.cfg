SPECIFICATION Spec
CONSTANTS
  i1 = i1  i2 = i2  i3 = i3  i4 = i4  k1 = k1  k2 = k2
  api = api  users = users  id = id  name = name  uid = uid
  get = get  summary = summary  json = json  text = text
  Equality <- MCEquality
  Identity <- MCIdentity
  NoIdentity = NoIdentity
  ParamName <- MCParamName
  Star = Star
  Lower <- MCLower
  Undeclared = Undeclared
  Query <- Queries
  Pending = Pending

INVARIANTS
  AnswersContract
  NoEqualLeftOver
  KeyedPairsFound
  SameEndpointMapped
  ParametersPaired
  MediaTypesPaired
  ResponsesPaired

CHECK_DEADLOCK FALSE
