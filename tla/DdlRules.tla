-------------------------------- MODULE DdlRules --------------------------------
(***************************************************************************)
(* The rules of a database schema: src/ddl/ddl.rules.ts, ddl.classify.ts,  *)
(* ddl.mapping.ts and the PostgreSQL dialect, which adds no kinds.         *)
(***************************************************************************)
EXTENDS RuleWalk

ddlClassifyRules ==
  [allNonBreaking |-> ThreeSlots("nonBreaking", "nonBreaking", "nonBreaking"),
   addNonBreaking |-> ThreeSlots("nonBreaking", "breaking", "breaking"),
   allAnnotation |-> ThreeSlots("annotation", "annotation", "annotation"),
   allUnclassified |-> allUnclassified]

tableClassifier == "addNonBreaking"
columnClassifier == "addNonBreaking"

\* Mutant: a column that may no longer be null is a column replaced.
nullabilityBreaks == "addNonBreaking"

nullabilityClassifier == "allNonBreaking"

enumValueClassifier == "allNonBreaking"

-----------------------------------------------------------------------------
(***************************************************************************)
(* Change of a column's type.                                              *)
(***************************************************************************)
readKind(n) == IF Kid(n, "kind").is = "scalar" THEN Kid(n, "kind").of ELSE None
readTypeName(n) == IF Kid(n, "type").is = "scalar" THEN Kid(n, "type").of ELSE None

TEMPORAL_FAMILY_BY_SQL_TYPE ==
  [date |-> "date", time |-> "time", timestamp |-> "timestamp"]

\* Mutant: a date, a time and a timestamp are consumed alike.
oneTemporalFamily(type) ==
  LET kind == readKind(type)
  IN  CASE kind = "BoolType" -> "boolean"
        [] kind \in {"IntegerType", "DecimalType", "FloatType"} -> "numeric"
        [] kind = "StringType" -> "textual"
        [] kind = "BinaryType" -> "binary"
        [] kind = "TimeType" -> "timestamp"
        [] kind = "JSONType" -> "json"
        [] kind = "UUIDType" -> "uuid"
        [] kind = "EnumType" -> "enum"
        [] OTHER -> "opaque"

\* How a reader consumes the values of a type; the dialect adds no family.
consumptionFamily(type) ==
  LET kind == readKind(type)  name == readTypeName(type)
  IN  CASE kind = "BoolType" -> "boolean"
        [] kind \in {"IntegerType", "DecimalType", "FloatType"} -> "numeric"
        [] kind = "StringType" -> "textual"
        [] kind = "BinaryType" -> "binary"
        [] kind = "TimeType" -> IF name \in DOMAIN TEMPORAL_FAMILY_BY_SQL_TYPE
                                THEN TEMPORAL_FAMILY_BY_SQL_TYPE[name] ELSE "opaque"
        [] kind = "JSONType" -> "json"
        [] kind = "UUIDType" -> "uuid"
        [] kind = "EnumType" -> "enum"
        [] OTHER -> "opaque"

sameConsumptionFamily(before, after) ==
  consumptionFamily(before) = consumptionFamily(after) /\ consumptionFamily(before) # "opaque"

\* Of the name of a type; the types are the nodes right above.
typeNameClassifier(c) ==
  ThreeSlots("nonBreaking", "breaking",
             breakingIf(~sameConsumptionFamily(c.before.above[1], c.after.above[1])))

ddlClassifyRuleOf(name, c) ==
  IF name = "typeNameClassifier" THEN typeNameClassifier(c) ELSE ddlClassifyRules[name]

-----------------------------------------------------------------------------
(***************************************************************************)
(* The keys of the elements of an array, None for no key.  A key with a    *)
(* prefix or with a part after a colon is a tuple.                         *)
(***************************************************************************)
nameKey(n) == PropertyOf(n, "name")

\* The columns that every element names, or None when one does not name any.
Columns(names) ==
  IF None \in ElementsOf(names) THEN None ELSE <<"columns:">> \o names

\* The symbol, or else the columns, if there are any.
foreignKeyIdentityKey(n) ==
  LET columns == Kid(n, "columns").kids
  IN  IF PropertyOf(n, "symbol") # None THEN <<PropertyOf(n, "symbol")>>
      ELSE IF Kid(n, "columns").is # "array" \/ columns = <<>> THEN None
      ELSE Columns([i \in DOMAIN columns |->
                      IF columns[i].is = "scalar" THEN columns[i].of ELSE None])

\* Mutant: all elements of a kind are one.
kindKey(n) == readKind(n)

\* The kind, with the first of name, symbol and type if there is one.
attrIdentityKey(n) ==
  LET id == IF Has(n, "name") THEN "name" ELSE IF Has(n, "symbol") THEN "symbol" ELSE "type"
  IN  IF readKind(n) = None THEN None
      ELSE IF PropertyOf(n, id) = None THEN <<readKind(n)>> ELSE <<readKind(n), PropertyOf(n, id)>>

indexPartColumnName(n) == PropertyOf(n, "column")

\* The name, or else the columns, if every part is one.
indexIdentityKey(n) ==
  LET parts == Kid(n, "parts").kids
  IN  IF nameKey(n) # None THEN <<nameKey(n)>>
      ELSE IF Kid(n, "parts").is # "array" THEN None
      ELSE Columns([i \in DOMAIN parts |-> indexPartColumnName(parts[i])])

KeysOf(resolver, nodes) ==
  [i \in DOMAIN nodes |->
     CASE resolver = "nameMappingResolver" -> nameKey(nodes[i])
       [] resolver = "foreignKeyMappingResolver" -> foreignKeyIdentityKey(nodes[i])
       [] resolver = "attrsMappingResolver" -> attrIdentityKey(nodes[i])
       [] resolver = "indexMappingResolver" -> indexIdentityKey(nodes[i])
       [] resolver = "indexPartMappingResolver" -> indexPartColumnName(nodes[i])
       [] resolver = "enumValuesMappingResolver" -> nodes[i].of]

ddlMappingOf(c, before, after) ==
  LET resolver == c.rules.mapping
      b == KeysOf(resolver, before.kids)
      a == KeysOf(resolver, after.kids)
  IN  IF resolver = "default" THEN DefaultMapping(before, after)
      ELSE IF resolver = "enumValuesMappingResolver" THEN ByEquality(b, a) ELSE ByKeys(b, a)

-----------------------------------------------------------------------------
(***************************************************************************)
(* The tables, by the names of the source.                                 *)
(***************************************************************************)
SUPPRESS == Flagged(NoRules, "ignoreDifference")
asElement(rules) == Flagged(rules, "ignoreKeyDifference")
Each(rules, resolver) == Mapped(Node("allUnclassified", [any |-> asElement(rules)]), resolver)

attrsArrayRule == Each(Lazy("attrRules"), "attrsMappingResolver")
objectsArrayRule == Each(Lazy("objectRules"), "attrsMappingResolver")

\* The type and its sizes; the values of an enum are told where the enum is declared.
typeFieldRules ==
  [kind |-> SUPPRESS, unsigned |-> SUPPRESS,
   values |-> Flagged(NoRules, "ignoreAddRemove"),
   type |-> Leaf("typeNameClassifier"), size |-> Leaf("allNonBreaking"),
   precision |-> Leaf("allNonBreaking"), scale |-> Leaf("allNonBreaking")]

scalarTypeRules == Node("allUnclassified", typeFieldRules)

enumTypeRules ==
  Node("allUnclassified",
       Over([values |-> Flagged(Each(Leaf(enumValueClassifier), "enumValuesMappingResolver"),
                                "ignoreAddRemove"),
             attrs |-> attrsArrayRule], typeFieldRules))

enumObjectRules == enumTypeRules

Suppressed(kids) == Over([kind |-> SUPPRESS], kids)

commentRules == Node("allAnnotation", Suppressed([text |-> Leaf("allAnnotation")]))
collationRules == Node("allNonBreaking", Suppressed([value |-> Leaf("allNonBreaking")]))
checkRules ==
  Node("allNonBreaking", Suppressed([expr |-> Leaf("allNonBreaking"), attrs |-> attrsArrayRule]))
generatedExprRules == Node("allNonBreaking", Suppressed([expr |-> Leaf("allNonBreaking")]))

literalRules == Node("allNonBreaking", Suppressed([value |-> Leaf("allNonBreaking")]))
rawExprRules == Node("allNonBreaking", Suppressed([expr |-> Leaf("allNonBreaking")]))
namedDefaultRules ==
  Node("allNonBreaking", Suppressed([expr |-> Lazy("exprRules"), attrs |-> attrsArrayRule]))

columnTypeRules ==
  Node("allUnclassified",
       [type |-> Lazy("schemaTypeRules"), raw |-> SUPPRESS, null |-> Leaf(nullabilityClassifier)])

columnRules ==
  Node(columnClassifier,
       [type |-> columnTypeRules, default |-> Lazy("exprRules"), attrs |-> attrsArrayRule])

indexPartRules ==
  Node("allNonBreaking",
       [seqNo |-> Leaf("allNonBreaking"), expr |-> Lazy("exprRules"), attrs |-> attrsArrayRule])

indexRules ==
  Node("allNonBreaking",
       Suppressed([unique |-> Leaf("allNonBreaking"), attrs |-> attrsArrayRule,
                   parts |-> Each(indexPartRules, "indexPartMappingResolver")]))

\* compareAsOneValue: one difference for the whole value.
AsOneValue(same) == [Leaf("allNonBreaking") EXCEPT !.compare = same]

sameNames(before, after) ==
  /\ before.is = "array" /\ after.is = "array" /\ Len(before.kids) = Len(after.kids)
  /\ \A i \in DOMAIN before.kids : before.kids[i] = after.kids[i]

sameTableRef(before, after) ==
  /\ before.is = "object" /\ after.is = "object"
  /\ \A p \in {"schema", "name"} : Kid(before, p) = Kid(after, p)

ddlReplacedAsWhole(same, c) ==
  CASE same = "sameNames" -> ~sameNames(c.before.node, c.after.node)
    [] same = "sameTableRef" -> ~sameTableRef(c.before.node, c.after.node)
    [] OTHER -> FALSE

foreignKeyRules ==
  Node("allNonBreaking",
       Suppressed([columns |-> AsOneValue("sameNames"), refTable |-> AsOneValue("sameTableRef"),
                   refColumns |-> AsOneValue("sameNames"), onUpdate |-> Leaf("allNonBreaking"),
                   onDelete |-> Leaf("allNonBreaking"), attrs |-> attrsArrayRule]))

tableRules ==
  Node(tableClassifier,
       Suppressed([columns |-> Each(columnRules, "nameMappingResolver"),
                   indexes |-> Each(indexRules, "indexMappingResolver"),
                   primaryKey |-> indexRules,
                   foreignKeys |-> Each(foreignKeyRules, "foreignKeyMappingResolver"),
                   attrs |-> attrsArrayRule, objects |-> objectsArrayRule]))

schemaRules ==
  Node("allUnclassified",
       [tables |-> Each(Lazy("tableRules"), "nameMappingResolver"),
        attrs |-> attrsArrayRule, objects |-> objectsArrayRule])

ddlRules ==
  Node("allUnclassified",
       [schemas |-> Each(schemaRules, "nameMappingResolver"),
        attrs |-> attrsArrayRule, objects |-> objectsArrayRule])

-----------------------------------------------------------------------------
(***************************************************************************)
(* Rules by the kind of a value; the dialect has none for an unknown kind. *)
(***************************************************************************)
ScalarKinds ==
  {"BoolType", "JSONType", "SpatialType", "UUIDType", "UnsupportedType", "IntegerType",
   "DecimalType", "FloatType", "StringType", "BinaryType", "TimeType"}

schemaTypeRules(kind) ==
  IF kind \in ScalarKinds THEN scalarTypeRules
  ELSE IF kind = "EnumType" THEN enumTypeRules ELSE NoRules

attrRules(kind) ==
  asElement(CASE kind = "Comment" -> commentRules
              [] kind = "Collation" -> collationRules
              [] kind = "Check" -> checkRules
              [] kind = "GeneratedExpr" -> generatedExprRules
              [] OTHER -> NoRules)

exprRules(kind) ==
  CASE kind = "Literal" -> literalRules
    [] kind = "RawExpr" -> rawExprRules
    [] kind = "NamedDefault" -> namedDefaultRules
    [] OTHER -> NoRules

objectRules(kind) ==
  asElement(CASE kind = "Table" -> tableRules
              [] kind = "Index" -> indexRules
              [] kind = "ForeignKey" -> foreignKeyRules
              [] kind = "Check" -> checkRules
              [] kind = "NamedDefault" -> namedDefaultRules
              [] kind = "EnumType" -> enumObjectRules
              [] OTHER -> NoRules)

\* The tables that are functions, or are referred to further up.
LazyNames == {"schemaTypeRules", "attrRules", "exprRules", "objectRules", "tableRules"}

ASSUME DdlRulesAssumption == None \notin LazyNames

ddlRulesOf(rules, value, path) ==
  LET name == rules.lazy
      kind == readKind(value)
  IN  CASE name = "schemaTypeRules" -> schemaTypeRules(kind)
        [] name = "attrRules" -> attrRules(kind)
        [] name = "exprRules" -> exprRules(kind)
        [] name = "objectRules" -> objectRules(kind)
        [] name = "tableRules" -> tableRules

=============================================================================
