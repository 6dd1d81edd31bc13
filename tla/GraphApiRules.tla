------------------------------ MODULE GraphApiRules ------------------------------
(***************************************************************************)
(* The rules of a GraphQL schema: src/graphapi/graphapi.rules.ts with its  *)
(* adapters and its compare resolver.  A type is used by an operation, an  *)
(* argument, a property or an array with a nullability and a default; the  *)
(* scope tells what flows through it.                                      *)
(***************************************************************************)
EXTENDS RuleWalk

RUNTIME_DIRECTIVE_LOCATIONS ==
  {"QUERY", "MUTATION", "SUBSCRIPTION", "FIELD", "FRAGMENT_DEFINITION", "FRAGMENT_SPREAD",
   "INLINE_FRAGMENT", "VARIABLE_DEFINITION"}

isRuntimeDirectiveLocations(n) ==
  n.is = "array" /\ \E i \in DOMAIN n.kids : n.kids[i].of \in RUNTIME_DIRECTIVE_LOCATIONS

-----------------------------------------------------------------------------
(***************************************************************************)
(* Nullability and defaults.                                               *)
(***************************************************************************)
\* Mutant: the side that may be left out is not told by the scope.
nullableIgnoresScope(c) ==
  ThreeSlots("unclassified", "unclassified",
             breakingIf(c.after.node.of = "false" /\ FromAbove(c.after, 1, "default").is = "undefined"))

nullableClassifier(c) ==
  LET optional == c.after.node.of = "true"
      willHaveDefault == FromAbove(c.after, 1, "default").is # "undefined"
  IN  ThreeSlots("unclassified", "unclassified",
                 CASE c.scope = "output" -> breakingIf(optional)
                   [] c.scope = "args" -> breakingIf(~optional /\ ~willHaveDefault)
                   [] OTHER -> "unclassified")

\* The same for a default that comes, goes or changes: of the argument of a directive, or another.
defaultClassifier(c) ==
  LET locations == FromAbove(c.after, 3, "locations")
      argumentWasOptional == FromAbove(c.before, 1, "nullable").of = "true"
  IN  Same(IF locations.is = "undefined" THEN breakingIf(argumentWasOptional)
           ELSE IF isRuntimeDirectiveLocations(locations) /\ argumentWasOptional
                THEN "unclassified" ELSE "nonBreaking")

\* Of an argument or a property that is added: one that may not be null must be given.
IsRequired(side) == Kid(side.node, "nullable").of = "false"

propertyClassifier(c) == ThreeSlots(breakingIf(IsRequired(c.after)), "breaking", "unclassified")

argumentClassifier(c) == ThreeSlots(breakingIf(IsRequired(c.after)), "breaking", "breaking")

enumValueClassifier(c) ==
  ThreeSlots(IF c.scope = "output" THEN "risky" ELSE "nonBreaking",
             breakingIf(c.scope = "args"), "unclassified")

-----------------------------------------------------------------------------
(***************************************************************************)
(* Directives: one that a client may write in a request is a runtime one.  *)
(***************************************************************************)
directiveUsageClassifier(c) ==
  LET keys == Head(c.keys)
      key == IF keys[1] = None THEN keys[2] ELSE keys[1]
      type == CASE key = "deprecated" -> "deprecated"
                [] key = "specifiedBy" -> "annotation"
                [] OTHER -> "unclassified"
  IN  ThreeSlots(type, type, "unclassified")

UsedLocations(defs, side) ==
  Kid(Definition(defs, FromAbove(side, 2, "definition")), "locations")

directiveMetaClassifier(c) ==
  LET old == isRuntimeDirectiveLocations(UsedLocations(asked.before.defs, c.before))
      new == isRuntimeDirectiveLocations(UsedLocations(asked.after.defs, c.after))
      Unless(runtime) == IF runtime THEN "unclassified" ELSE "annotation"
  IN  ThreeSlots(Unless(new), Unless(old), Unless(old \/ new))

directiveDefinitionClassifier(c) ==
  ThreeSlots("nonBreaking",
             breakingIf(isRuntimeDirectiveLocations(Kid(c.before.node, "locations"))),
             "unclassified")

directiveArgumentsClassifier(c) ==
  ThreeSlots(IF ~isRuntimeDirectiveLocations(FromAbove(c.after, 2, "locations")) THEN "nonBreaking"
             ELSE IF Kid(c.after.node, "nullable").of = "true" THEN "unclassified" ELSE "breaking",
             breakingIf(isRuntimeDirectiveLocations(FromAbove(c.before, 2, "locations"))),
             "unclassified")

directiveLocationClassifier(c) ==
  LET wasRuntime == isRuntimeDirectiveLocations(c.before.above[1])
      willRuntime == isRuntimeDirectiveLocations(c.after.above[1])
  IN  ThreeSlots(IF wasRuntime # willRuntime THEN "unclassified" ELSE "nonBreaking",
                 breakingIf(wasRuntime \/ willRuntime), "unclassified")

-----------------------------------------------------------------------------
graphApiClassifyRuleOf(name, c) ==
  CASE name = "allAnnotation" -> Same("annotation")
    [] name = "allBreaking" -> Same("breaking")
    [] name = "addNonBreaking" -> ThreeSlots("nonBreaking", "breaking", "breaking")
    [] name = "methodClassifier" -> ThreeSlots("nonBreaking", "breaking", "unclassified")
    [] name = "memberClassifier" -> ThreeSlots("breaking", "breaking", "unclassified")
    [] name = "nullableClassifier" -> nullableClassifier(c)
    [] name = "defaultClassifier" -> defaultClassifier(c)
    [] name = "propertyClassifier" -> propertyClassifier(c)
    [] name = "argumentClassifier" -> argumentClassifier(c)
    [] name = "enumValueClassifier" -> enumValueClassifier(c)
    [] name = "directiveUsageClassifier" -> directiveUsageClassifier(c)
    [] name = "directiveMetaClassifier" -> directiveMetaClassifier(c)
    [] name = "directiveDefinitionClassifier" -> directiveDefinitionClassifier(c)
    [] name = "directiveArgumentsClassifier" -> directiveArgumentsClassifier(c)
    [] name = "directiveLocationClassifier" -> directiveLocationClassifier(c)
    [] OTHER -> allUnclassified

-----------------------------------------------------------------------------
(***************************************************************************)
(* Resolvers and adapters.                                                 *)
(***************************************************************************)
\* Mutant: the members of a union are taken in their order.
membersInOrder(before, after) == DefaultMapping(before, after)

titleBaseUniqueItemsArrayMappingResolver(before, after) ==
  LET Titles(n) == [i \in DOMAIN n.kids |-> PropertyOf(n.kids[i], "title")]
      same == {<<title, title>> : title \in ElementsOf(Titles(before)) \ {None}}
  IN  customUniqueItemsArrayMappingResolver(same, Titles(before), Titles(after))

LocationNames(n) == [i \in DOMAIN n.kids |-> n.kids[i].of]

graphApiMappingOf(c, before, after) ==
  CASE c.rules.mapping = "titleBase" -> titleBaseUniqueItemsArrayMappingResolver(before, after)
    [] c.rules.mapping = "deepEquals" -> ByEquality(LocationNames(before), LocationNames(after))
    [] OTHER -> DefaultMapping(before, after)

KindOf(n) == PropertyOf(n, "kind")

complexTypeCompareResolver(c) ==
  \/ KindOf(c.before.node) = None
  \/ KindOf(c.after.node) = None
  \/ KindOf(c.before.node) # KindOf(c.after.node)

graphApiReplacedAsWhole(resolver, c) == resolver = "complexType" /\ complexTypeCompareResolver(c)

\* A union of the type alone, under its name; the type stays declared where it is.
wrapBySingletonUnion(side) ==
  LET member == IF side.home = side.at THEN side.node ELSE Ref(side.home[1])
      named == IF Has(side.node, "title") THEN [title |-> Kid(side.node, "title")] ELSE Nothing
      union == Object([kind |-> Scalar("union"), oneOf |-> Array(<<member>>)])
  IN  [side EXCEPT !.node = Object(named @@ [directives |-> Object(Nothing), type |-> union]),
                   !.home = <<"union of">> \o side.at, !.first = <<"union of">> \o side.at]

graphApiTypeAdapter(side, reference) ==
  LET kind == KindOf(Kid(side.node, "type"))
      referenceKind == KindOf(Kid(reference.node, "type"))
  IN  IF /\ Kid(side.node, "type").is = "object" /\ Kid(reference.node, "type").is = "object"
         /\ kind # referenceKind /\ referenceKind = "union"
      THEN wrapBySingletonUnion(side) ELSE side

\* Interfaces are not compared.
removeNotCorrectlySupportedInterfacesAdapter(side) ==
  IF side.node.is = "array" THEN [side EXCEPT !.node = Array(<<>>)] ELSE side

graphApiAdapt(adapter, side, reference) ==
  IF adapter = "type" THEN graphApiTypeAdapter(side, reference)
  ELSE removeNotCorrectlySupportedInterfacesAdapter(side)

-----------------------------------------------------------------------------
(***************************************************************************)
(* The tables, by the names of the source.                                 *)
(***************************************************************************)
directivesUsagesRules ==
  [directives |->
     InScope(EachOf(Node("directiveUsageClassifier",
                         [definition |-> Lazy("directiveDefinitionRules"),
                          meta |-> EachOf(Leaf("directiveMetaClassifier"))])),
             "directive-usages")]

baseRules == [description |-> Leaf("allAnnotation")] @@ directivesUsagesRules
selfNamedBaseRules == [title |-> NoRules] @@ baseRules

directiveDefinitionRules ==
  Unclassified([args |-> EachOf(Lazy("directiveArgumentRules")),
                repeatable |-> NoRules,
                locations |-> Mapped(EachOf(Flagged(Leaf("directiveLocationClassifier"),
                                                    "ignoreKeyDifference")), "deepEquals")]
               @@ selfNamedBaseRules)

typeRules ==
  [Node("allBreaking",
        [values |-> EachOf(Node("enumValueClassifier", baseRules)),
         properties |-> EachOf(Lazy("propertyRules")),
         methods |-> EachOf(Lazy("methodRules")),
         interfaces |-> [EachOf(Lazy("typeDefinitionRules")) EXCEPT !.adapters = <<"interfaces">>],
         oneOf |-> Mapped(EachOf(Lazy("memberRules")), "titleBase"),
         items |-> Lazy("typeUsageRules")]) EXCEPT !.compare = "complexType"]

typeDefinitionRules ==
  [Unclassified([type |-> typeRules] @@ selfNamedBaseRules) EXCEPT !.adapters = <<"type">>]

typeUsageRules ==
  Unclassified([default |-> Node("defaultClassifier", [any |-> NoRules]),
                nullable |-> Leaf("nullableClassifier"),
                typeDef |-> typeDefinitionRules] @@ baseRules)

\* Mutant: what an operation answers is compared in the scope of the operation.
outputOutOfScope ==
  Unclassified([args |-> InScope(EachOf(Classified(typeUsageRules, "argumentClassifier")), "args"),
                output |-> typeUsageRules] @@ baseRules)

methodRules ==
  Unclassified([args |-> InScope(EachOf(Classified(typeUsageRules, "argumentClassifier")), "args"),
                output |-> InScope(typeUsageRules, "output")] @@ baseRules)

graphApiRulesOf(rules, value, path) ==
  LET name == rules.lazy
  IN  CASE name = "directiveDefinitionRules" -> directiveDefinitionRules
        [] name = "directiveArgumentRules" -> Classified(typeUsageRules, "directiveArgumentsClassifier")
        [] name = "propertyRules" -> Classified(typeUsageRules, "propertyClassifier")
        [] name = "methodRules" -> Classified(methodRules, "methodClassifier")
        [] name = "typeDefinitionRules" -> typeDefinitionRules
        [] name = "memberRules" -> Flagged(Classified(typeDefinitionRules, "memberClassifier"),
                                           "ignoreKeyDifference")
        [] name = "typeUsageRules" -> typeUsageRules
        [] name = "operationRules" -> Classified(methodRules, "addNonBreaking")
        [] name = "componentRules" -> Classified(typeDefinitionRules, "addNonBreaking")
        [] name = "directiveRules" -> Classified(directiveDefinitionRules, "directiveDefinitionClassifier")

graphApiRules ==
  Unclassified(
    [graphapi |-> Leaf("allAnnotation"),
     components |->
       InScope(Unclassified([directives |-> EachOf(Lazy("directiveRules"))]
                 @@ [kind \in {"scalars", "objects", "interfaces", "inputObjects", "unions", "enums"} |->
                       EachOf(Lazy("componentRules"))]), "components")]
    @@ [type \in {"queries", "mutations", "subscriptions"} |-> EachOf(Lazy("operationRules"))])

=============================================================================
