------------------------------- MODULE OpenApiRules -------------------------------
(***************************************************************************)
(* The rules of an OpenAPI 3.0 document: src/openapi/openapi3.rules.ts     *)
(* with its classifiers and the resolvers of OpenApiMapping, and the rules *)
(* of the schemas in it, for which the keywords with numbers are left to   *)
(* SchemaRules and the combiners to CombinerMatch.                         *)
(*                                                                         *)
(* "x-" stands for every key that begins so.                               *)
(***************************************************************************)
EXTENDS RuleWalk

CONSTANTS
  Segments,      \* Segments[key]: the segments of a path, or of the URL of a server
  PathParam,     \* the segments that are parameters
  MediaTypes,    \* MediaTypes[key]: main, sub and params
  LowerCase,     \* LowerCase[code]
  PropertyName   \* the properties of objects

Mapping ==
  INSTANCE OpenApiMapping WITH
    ParamName <- PathParam, Star <- "*", Lower <- LowerCase, Undeclared <- None

Schema ==
  INSTANCE SchemaRules WITH
    true <- "true", false <- "false", Property <- PropertyName, Number <- {}

IsTrue(n) == n.of = "true"
Truthy(n) == n.is # "undefined" /\ n.of \notin {"false", "0"}
Values(n) == {n.kids[i].of : i \in DOMAIN n.kids}

-----------------------------------------------------------------------------
(***************************************************************************)
(* Resolvers.  The keys of an object come in the order of Listed.          *)
(***************************************************************************)
KeysOf(n) == Listed(DOMAIN n.kids)
Translated(keys, names) == [i \in DOMAIN keys |-> names[keys[i]]]

\* An answer told in what names[key] is, told in keys.
InKeysOf(r, names, B, A) ==
  MapKeysResult({k \in A : names[k] \in r.added}, {k \in B : names[k] \in r.removed},
                [k \in {k \in B : names[k] \in DOMAIN r.mapped} |->
                   CHOOSE l \in A : names[l] = r.mapped[names[k]]])

\* extractOperationBasePath: the first server counts.
BasePath(servers) ==
  IF servers.is # "array" THEN None
  ELSE IF servers.kids = <<>> THEN <<>> ELSE Segments[PropertyOf(servers.kids[1], "url")]

RootBasePath(d) == LET base == BasePath(Kid(d.root, "servers")) IN IF base = None THEN <<>> ELSE base
Entry(key, pathItem) == [path |-> Segments[key], base |-> BasePath(Kid(pathItem, "servers"))]

pathMappingResolver(before, after) ==
  LET Entries(n) == [i \in DOMAIN KeysOf(n) |-> Entry(KeysOf(n)[i], n.kids[KeysOf(n)[i]])]
  IN  InKeysOf(Mapping!pathMappingResolver(
                 Entries(before), Entries(after),
                 [before |-> RootBasePath(asked.before), after |-> RootBasePath(asked.after)]),
               Segments, DOMAIN before.kids, DOMAIN after.kids)

\* The keys of the path item are so many contexts above.
paramMappingResolver(c, before, after, pathLevel) ==
  LET Params(n) == [i \in DOMAIN n.kids |-> [in |-> PropertyOf(n.kids[i], "in"),
                                             name |-> PropertyOf(n.kids[i], "name")]]
      paths == c.keys[pathLevel + 1]
  IN  Mapping!paramMappingResolver(Params(before), Params(after),
                                   [before |-> Segments[paths[1]], after |-> Segments[paths[2]]])

contentMediaTypeMappingResolver(before, after) ==
  InKeysOf(Mapping!contentMediaTypeMappingResolver(Translated(KeysOf(before), MediaTypes),
                                                   Translated(KeysOf(after), MediaTypes)),
           MediaTypes, DOMAIN before.kids, DOMAIN after.kids)

Scalars(n) == [i \in DOMAIN n.kids |-> n.kids[i].of]

openApiMappingOf(c, before, after) ==
  LET name == c.rules.mapping
  IN  CASE name = "paths" -> pathMappingResolver(before, after)
        [] name = "pathItemParameters" -> paramMappingResolver(c, before, after, 1)
        [] name = "operationParameters" -> paramMappingResolver(c, before, after, 2)
        [] name = "content" -> contentMediaTypeMappingResolver(before, after)
        [] name = "responses" ->
             Mapping!apihubCaseInsensitiveKeyMappingResolver(KeysOf(before), KeysOf(after))
        [] name = "uniqueItems" -> ByEquality(Scalars(before), Scalars(after))
        [] OTHER -> DefaultMapping(before, after)

-----------------------------------------------------------------------------
(***************************************************************************)
(* Parameters.                                                             *)
(***************************************************************************)
isIgnoredHeaderParam(param) ==
  /\ PropertyOf(param, "in") = "header"
  /\ PropertyOf(param, "name") \in {"Accept", "Content-Type", "Authorization", "authorization"}

DefaultOf(defs, param) == Kid(Definition(defs, Kid(param, "schema")), "default")

\* Mutant: a required parameter is no burden.
paramAddNonBreaking(c) ==
  ThreeSlots("nonBreaking", IF isIgnoredHeaderParam(c.before.node) THEN "unclassified" ELSE "breaking",
             "unclassified")

paramClassifyRule(c) ==
  LET mustBeGiven == /\ IsTrue(Kid(c.after.node, "required"))
                     /\ DefaultOf(asked.after.defs, c.after.node).is = "undefined"
      Unless(param, type) == IF isIgnoredHeaderParam(param) THEN "unclassified" ELSE type
  IN  ThreeSlots(Unless(c.after.node, breakingIf(mustBeGiven)), Unless(c.before.node, "breaking"),
                 "unclassified")

apihubParametersRemovalClassifyRule(c) ==
  breakingIf(\E i \in DOMAIN c.before.node.kids : ~isIgnoredHeaderParam(c.before.node.kids[i]))

parameterExplodeClassifyRule(c) ==
  LET AsByStyle(side) == IsTrue(side.node) = (FromAbove(side, 1, "style").of = "form")
      Unless(side) == IF AsByStyle(side) THEN "annotation" ELSE "breaking"
  IN  ThreeSlots(Unless(c.after), Unless(c.before), "breaking")

parameterAllowReservedClassifyRule(c) ==
  IF FromAbove(c.after, 1, "in").of \in {"path", "cookie", "header"} THEN Same("unclassified")
  ELSE ThreeSlots("nonBreaking", "breaking", breakingIf(~IsTrue(c.after.node)))

parameterNameClassifyRule(c) ==
  ThreeSlots("nonBreaking", "breaking",
             IF FromAbove(c.before, 1, "in").of = "path" THEN "annotation" ELSE "breaking")

\* A default that is false or 0 is none.
parameterRequiredClassifyRule(c) ==
  ThreeSlots("breaking", "nonBreaking",
             breakingIf(IsTrue(c.after.node) /\ ~Truthy(DefaultOf(asked.after.defs, c.after.above[1]))))

\* booleanClassifier, reversed, for parameters in a query.
apihubAllowEmptyValueParameterClassifyRule(c) ==
  IF FromAbove(c.after, 1, "in").of # "query" THEN Same("unclassified")
  ELSE LET lost == breakingIf(~IsTrue(c.after.node)) IN ThreeSlots(lost, "breaking", lost)

requiredClassifyRule(c) == ThreeSlots("breaking", "nonBreaking", breakingIf(IsTrue(c.after.node)))

-----------------------------------------------------------------------------
(***************************************************************************)
(* Security: an array of requirements, of which one must be met.           *)
(***************************************************************************)
emptySecurity(value) ==
  value.is = "array" /\ \/ value.kids = <<>>
                        \/ Len(value.kids) = 1 /\ DOMAIN value.kids[1].kids = {}

FirstScheme(requirement) ==
  IF DOMAIN requirement.kids = {} THEN None ELSE Head(KeysOf(requirement))

\* Mutant: the requirements of either side will do.
includeSecuritySwapped(value, items) ==
  LET Schemes(n) == {FirstScheme(n.kids[i]) : i \in DOMAIN n.kids}
  IN  value.is = "array" /\ value.kids # <<>> /\ Schemes(value) \subseteq Schemes(items)

\* The first scheme of a requirement stands for it.
includeSecurity(value, items) ==
  LET Schemes(n) == {FirstScheme(n.kids[i]) : i \in DOMAIN n.kids}
  IN  items.is = "array" /\ items.kids # <<>> /\ Schemes(items) \subseteq Schemes(value)

globalSecurityClassifyRule(c) ==
  ThreeSlots(breakingIf(~emptySecurity(c.after.node)), "nonBreaking",
             breakingIf(~includeSecurity(c.after.node, c.before.node) /\ ~emptySecurity(c.after.node)))

RootSecurity(d) == Kid(d.root, "security")

operationSecurityClassifyRule(c) ==
  LET b == c.before.node  a == c.after.node
  IN  ThreeSlots(breakingIf(~emptySecurity(a) /\ ~includeSecurity(a, RootSecurity(asked.before))),
                 breakingIf(~includeSecurity(RootSecurity(asked.after), b)),
                 breakingIf(~includeSecurity(a, b) /\ ~emptySecurity(a)))

\* One requirement of many; the document's and an operation's differ in what they say of a removal.
SecurityItemClassifyRule(c, removed, kept) ==
  LET b == c.before.above[1]  a == c.after.above[1]
  IN  ThreeSlots(breakingIf(b.kids = <<>>), IF a.kids = <<>> THEN removed ELSE kept,
                 breakingIf(~includeSecurity(a, b) /\ ~emptySecurity(c.after.node)))

globalSecurityItemClassifyRule(c) == SecurityItemClassifyRule(c, "breaking", "nonBreaking")
operationSecurityItemClassifyRule(c) == SecurityItemClassifyRule(c, "nonBreaking", "breaking")

-----------------------------------------------------------------------------
\* Mutant: a path with a renamed parameter is another path.
pathChangeBreaking(c) == ThreeSlots("nonBreaking", "breaking", "breaking")

pathChangeClassifyRule(c) ==
  LET Unified(d, key, side) == Mapping!Unify(RootBasePath(d), Entry(key, side.node))
      keys == Head(c.keys)
      same == /\ None \notin {keys[1], keys[2]}
              /\ Unified(asked.before, keys[1], c.before) = Unified(asked.after, keys[2], c.after)
  IN  ThreeSlots("nonBreaking", "breaking", IF same THEN "annotation" ELSE "breaking")

responseClassifyRule(c) ==
  LET keys == Head(c.keys)
      same == keys[1] = keys[2] \/ (None \notin {keys[1], keys[2]} /\ LowerCase[keys[1]] = LowerCase[keys[2]])
  IN  ThreeSlots("nonBreaking", "breaking", breakingIf(~same))

-----------------------------------------------------------------------------
(***************************************************************************)
(* Schemas.                                                                *)
(***************************************************************************)
SchemaOf(defs, n) ==
  [type |-> PropertyOf(n, "type"), enum |-> Values(Kid(n, "enum")),
   required |-> Values(Kid(n, "required")),
   properties |-> [p \in PropertyName |->
                     IF Has(Definition(defs, Kid(Kid(n, "properties"), p)), "default")
                     THEN "default" ELSE "plain"]]

\* The n-th nodes above are the schemas the keyword, or an item of it, is in.
KeywordOf(c, n, item) ==
  [item |-> item, before |-> SchemaOf(asked.before.defs, c.before.above[n]),
   after |-> SchemaOf(asked.after.defs, c.after.above[n])]

nullableClassifyRule(c) ==
  LET set == IsTrue(c.after.node)
  IN  <<"nonBreaking", "breaking", breakingIf(~set), breakingIf(set), "nonBreaking", breakingIf(set)>>

additionalPropertiesClassifier(c) ==
  <<"breaking", "breaking", breakingIf(Truthy(c.before.node)),
    "breaking", "breaking", breakingIf(Truthy(c.after.node))>>

ValueOf(c) == IF c.after.node.is = "undefined" THEN c.before.node.of ELSE c.after.node.of
KeyOf(c) == IF Head(c.keys)[2] = None THEN Head(c.keys)[1] ELSE Head(c.keys)[2]

ClassifyRuleNamed(name, c) ==
  CASE name = "allAnnotation" -> Same("annotation")
    [] name = "allBreaking" -> Same("breaking")
    [] name = "allNonBreaking" -> Same("nonBreaking")
    [] name = "allDeprecated" -> Same("deprecated")
    [] name = "addNonBreaking" -> ThreeSlots("nonBreaking", "breaking", "breaking")
    [] name = "addBreaking" -> ThreeSlots("breaking", "nonBreaking", "breaking")
    [] name = "onlyAddBreaking" -> ThreeSlots("breaking", "nonBreaking", "nonBreaking")
    [] name = "onlyRemoveBreaking" -> ThreeSlots("nonBreaking", "breaking", "nonBreaking")
    [] name = "onlyReplaceBreaking" -> ThreeSlots("nonBreaking", "nonBreaking", "breaking")
    [] name = "operation" -> ThreeSlots("nonBreaking", "breaking", "unclassified")
    [] name = "param" -> paramClassifyRule(c)
    [] name = "parameters" ->
         ThreeSlots("nonBreaking", apihubParametersRemovalClassifyRule(c), "breaking")
    [] name = "explode" -> parameterExplodeClassifyRule(c)
    [] name = "allowReserved" -> parameterAllowReservedClassifyRule(c)
    [] name = "allowEmptyValue" -> apihubAllowEmptyValueParameterClassifyRule(c)
    [] name = "name" -> parameterNameClassifyRule(c)
    [] name = "parameterRequired" -> parameterRequiredClassifyRule(c)
    [] name = "required" -> requiredClassifyRule(c)
    [] name = "response" -> responseClassifyRule(c)
    [] name = "pathChange" -> pathChangeClassifyRule(c)
    [] name = "globalSecurity" -> globalSecurityClassifyRule(c)
    [] name = "globalSecurityItem" -> globalSecurityItemClassifyRule(c)
    [] name = "operationSecurity" -> operationSecurityClassifyRule(c)
    [] name = "operationSecurityItem" -> operationSecurityItemClassifyRule(c)
    [] name = "type" -> Schema!typeClassifier(KeywordOf(c, 1, None))
    [] name = "default" -> Schema!defaultClassifier
    [] name = "format" -> <<"breaking", "nonBreaking", "breaking", "nonBreaking", "breaking", "breaking">>
    [] name = "enum" -> Schema!enumKeywordClassifier
    [] name = "enumItem" -> Schema!enumClassifyRule(KeywordOf(c, 2, None))
    [] name = "requiredItem" -> Schema!requiredItemClassifyRule(KeywordOf(c, 2, ValueOf(c)))
    [] name = "property" -> Schema!propertyClassifyRule(KeywordOf(c, 2, KeyOf(c)))
    [] name = "additionalProperties" -> additionalPropertiesClassifier(c)
    [] name = "patternProperty" -> ThreeSlots("breaking", "nonBreaking", "unclassified")
    [] name = "nullable" -> nullableClassifyRule(c)
    [] OTHER -> allUnclassified

openApiClassifyRuleOf(name, c) ==
  LET rule == ClassifyRuleNamed(name, c)
  IN  CASE "reversed" \in c.rules.flags -> reverseClassifyRule(rule)
        [] "by scope" \in c.rules.flags -> dynamicReverseClassifyRule(rule, c.scope = "receive")
        [] OTHER -> rule

-----------------------------------------------------------------------------
(***************************************************************************)
(* Tables.  Everywhere is a rule with "/**" below it.                      *)
(***************************************************************************)
Everywhere(classify) ==
  Node(classify, [any |-> [Lazy("everywhere") EXCEPT !.classify = classify]])

openApiSpecificationExtensionRules(classify) == "x-" :> Everywhere(classify)
Extensible == openApiSpecificationExtensionRules("allUnclassified")
ExtensibleAnnotated == openApiSpecificationExtensionRules("allAnnotation")

Leaves(classify, keys) == [key \in keys |-> Leaf(classify)]
Annotations(keys) == Leaves("allAnnotation", keys)
UniqueItems(rules, item) ==
  [rules EXCEPT !.mapping = "uniqueItems", !.kids = [any |-> Flagged(item, "ignoreKeyDifference")]]

\* Of a schema: the flags are its dialect, and whether its rules are reversed, always or by scope.
keywordRules(flags) ==
  LET By(classify) == [Leaf(classify) EXCEPT !.flags = flags]
  IN  [key \in {"title", "description"} |-> By("allAnnotation")]
      @@ [key \in {"format", "pattern"} |-> By("format")]
      @@ [type |-> By("type"), default |-> By("default"), const |-> By("addBreaking"),
          deprecated |-> By("allDeprecated"), writeOnly |-> By("allNonBreaking"),
          required |-> UniqueItems(By("allUnclassified"), By("requiredItem")),
          enum |-> UniqueItems(By("enum"), By("enumItem"))]

subschemaRules(flags) ==
  LET Inner(name) == [Lazy(name) EXCEPT !.flags = flags]
  IN  [key \in {"properties", "patternProperties", "definitions", "$defs"} |-> EachOf(Inner(key))]
      @@ [key \in {"items", "additionalItems", "additionalProperties", "propertyNames"} |-> Inner(key)]
      @@ [examples |-> Node("allAnnotation", [any |-> Leaf("allAnnotation")])]

externalDocumentationRules == Node("allAnnotation", ExtensibleAnnotated @@ [any |-> Leaf("allAnnotation")])

openApiSchemaRules(flags) ==
  [nullable |-> [Leaf("nullable") EXCEPT !.flags = flags], discriminator |-> NoRules,
   example |-> Leaf("allAnnotation"), externalDocs |-> externalDocumentationRules,
   xml |-> Unclassified(Extensible)]

asyncApiSchemaRules == [example |-> Leaf("allAnnotation"), externalDocs |-> externalDocumentationRules]

SchemaKids(flags) ==
  Extensible
  @@ (CASE "openapi" \in flags -> openApiSchemaRules(flags)
        [] "asyncapi" \in flags -> asyncApiSchemaRules
        [] OTHER -> NoKids)
  @@ keywordRules(flags) @@ subschemaRules(flags)

\* The rules of the source around it are not those of the schema.
SchemaIn(classify, flags) == Node(classify, SchemaKids(flags))

\* The schema a keyword holds.
Subschema(rules, value) ==
  LET Of(classify) == [SchemaIn(classify, rules.flags) EXCEPT !.flags = rules.flags]
  IN  CASE rules.lazy = "properties" -> Of("property")
        [] rules.lazy = "items" /\ value.is = "array" ->
             Unclassified([any |-> [Lazy("tuple") EXCEPT !.flags = rules.flags]])
        [] rules.lazy = "items" -> Of("allNonBreaking")
        [] rules.lazy = "tuple" -> Of("allBreaking")
        [] rules.lazy = "patternProperties" -> Of("patternProperty")
        [] rules.lazy \in {"definitions", "$defs"} -> Of("allNonBreaking")
        [] rules.lazy = "additionalItems" -> Of("operation")
        [] rules.lazy = "additionalProperties" -> Of("additionalProperties")
        [] rules.lazy = "propertyNames" -> Of("onlyAddBreaking")

-----------------------------------------------------------------------------
\* Mutant: a schema is one of a request wherever it is.
neverResponseSchema(path) == FALSE

\* In a pair of responses, by the path in the document of before.
isResponseSchema(path) == Len(path) >= 8 /\ path[4] = "responses" /\ path[8] = "schema"

openApiRulesOf(rules, value, path) ==
  CASE rules.lazy = "everywhere" -> Everywhere(rules.classify)
    [] rules.lazy = "requestSchema" -> SchemaIn("allBreaking", {"openapi"})
    [] rules.lazy = "schemaByPath" ->
         SchemaIn("allBreaking", {"openapi"} \cup IF isResponseSchema(path) THEN {"reversed"} ELSE {})
    [] rules.lazy = "componentSchema" -> SchemaIn("allUnclassified", {"openapi"})
    [] OTHER -> Subschema(rules, value)

serversRules ==
  LET Annotated(kids) == [Everywhere("allAnnotation") EXCEPT !.kids = kids @@ @]
      variable == Annotated([enum |-> UniqueItems(Leaf("allAnnotation"), Leaf("allAnnotation"))])
  IN  Annotated([any |-> Annotated([variables |-> Annotated([any |-> variable] @@ Extensible)] @@ Extensible)])

examplesRules == Everywhere("allAnnotation")

parametersRules ==
  [any |-> InScope(Flagged(
     Node("param",
          [allowEmptyValue |-> Leaf("allowEmptyValue"), allowReserved |-> Leaf("allowReserved"),
           deprecated |-> Leaf("allDeprecated"), description |-> Leaf("allAnnotation"),
           example |-> Everywhere("allAnnotation"), examples |-> examplesRules,
           explode |-> Leaf("explode"), in |-> Leaf("addNonBreaking"), name |-> Leaf("name"),
           required |-> Leaf("parameterRequired"), schema |-> Lazy("requestSchema"),
           style |-> Leaf("allBreaking")] @@ Extensible), "ignoreKeyDifference"), "request")]

headersRules ==
  Node("addNonBreaking",
       [any |-> Node("addNonBreaking",
          Leaves("allUnclassified", {"allowEmptyValue", "allowReserved", "explode", "style"})
          @@ [deprecated |-> Leaf("allDeprecated"), description |-> Leaf("allAnnotation"),
              example |-> Everywhere("allUnclassified"), examples |-> examplesRules,
              required |-> Leaf("required"), schema |-> Lazy("schemaByPath")] @@ Extensible)])

encodingRules ==
  Node("addBreaking",
       [any |-> Unclassified(
          Leaves("addNonBreaking", {"allowReserved", "contentType", "explode", "style"})
          @@ [headers |-> headersRules] @@ Extensible)])

contentRules ==
  Mapped(Node("addNonBreaking",
              [any |-> Node("onlyRemoveBreaking",
                 [encoding |-> encodingRules, example |-> Everywhere("allAnnotation"),
                  examples |-> examplesRules, schema |-> Lazy("schemaByPath")] @@ Extensible)]), "content")

requestBodiesRules ==
  InScope(Node("addNonBreaking",
               [content |-> contentRules, description |-> Leaf("allAnnotation"),
                required |-> Leaf("required")] @@ Extensible), "request")

responseRules ==
  Node("response", [content |-> contentRules, description |-> Leaf("allAnnotation"),
                    headers |-> headersRules] @@ Extensible)

securityRules ==
  Node("operationSecurity",
       [any |-> Node("operationSecurityItem",
          [any |-> UniqueItems(Leaf("allBreaking"), Leaf("addBreaking"))])])

operationRule ==
  Node("operation",
       [callbacks |-> NoRules, deprecated |-> Leaf("allDeprecated"),
        externalDocs |-> externalDocumentationRules,
        parameters |-> Mapped(Node("parameters", parametersRules), "operationParameters"),
        requestBody |-> requestBodiesRules,
        responses |-> Mapped(InScope(Node("addNonBreaking", [any |-> responseRules] @@ Extensible),
                                     "response"), "responses"),
        security |-> securityRules, servers |-> serversRules,
        tags |-> UniqueItems(Leaf("allAnnotation"), Leaf("allAnnotation")),
        any |-> Leaf("allAnnotation")] @@ Extensible)

pathItemObjectRules ==
  Node("pathChange",
       [description |-> Leaf("allAnnotation"), summary |-> Leaf("allAnnotation"),
        parameters |-> Mapped(Node("addNonBreaking", parametersRules), "pathItemParameters"),
        servers |-> serversRules, any |-> operationRule] @@ Extensible)

oAuthFlowsObjectRules ==
  Node("onlyReplaceBreaking", [any |-> Node("addBreaking", Extensible)] @@ Extensible)

securitySchemeRules ==
  Node("addBreaking",
       Annotations({"bearerFormat", "description", "openIdConnectUrl"})
       @@ Leaves("onlyReplaceBreaking", {"in", "name", "scheme", "type"})
       @@ [flows |-> oAuthFlowsObjectRules] @@ Extensible)

componentsRule ==
  LET Group(rules) == Node("addNonBreaking", [any |-> rules])
  IN  InScope(Node("allNonBreaking",
                   [examples |-> examplesRules, headers |-> headersRules,
                    parameters |-> Node("addNonBreaking", parametersRules),
                    requestBodies |-> Group(requestBodiesRules), responses |-> Group(responseRules),
                    schemas |-> Group(Lazy("componentSchema")), pathItems |-> Group(pathItemObjectRules),
                    securitySchemes |-> Node("addBreaking", [any |-> securitySchemeRules])]
                   @@ Extensible), "components")

tagObjectCompareRules ==
  Node("allAnnotation", [externalDocs |-> externalDocumentationRules, any |-> Leaf("allAnnotation")]
                        @@ ExtensibleAnnotated)

openApi3Rules ==
  Unclassified(
    [openapi |-> Leaf("allAnnotation"), info |-> Everywhere("allAnnotation"), servers |-> serversRules,
     paths |-> Mapped(Unclassified([any |-> pathItemObjectRules] @@ Extensible), "paths"),
     components |-> componentsRule,
     security |-> Node("globalSecurity", [any |-> Leaf("globalSecurityItem")]),
     tags |-> Node("allAnnotation", [any |-> tagObjectCompareRules]),
     externalDocs |-> externalDocumentationRules] @@ Extensible)

=============================================================================
