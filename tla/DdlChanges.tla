------------------------------- MODULE DdlChanges -------------------------------
(***************************************************************************)
(* What the comparison of two database schemas tells a reader of the data, *)
(* held against the contract of docs/plans/ddlapi-changes-reporting.md:    *)
(* breaking if and only if a query that was valid fails to execute.        *)
(***************************************************************************)
EXTENDS DdlRules, FiniteSets

\* The queries of a reader: from a table, of a column, with an operation on its values.
SqlOperation ==
  [boolean |-> "and", smallint |-> "sum", integer |-> "sum", numeric |-> "sum", real |-> "sum",
   varchar |-> "lower", text |-> "lower", bytea |-> "encode", uuid |-> "uuid",
   json |-> "json path", date |-> "days", time |-> "hours", timestamp |-> "date and hours"]

\* A type the catalogue does not know supports what is its own, whatever that is.
OperationOf(defs, type) ==
  LET t == Definition(defs, type)
      name == readTypeName(t)
  IN  IF readKind(t) = "EnumType" THEN "enum label"
      ELSE IF name \in DOMAIN SqlOperation THEN SqlOperation[name] ELSE name

Elements(n, property) == IF Has(n, property) THEN Kid(n, property).kids ELSE <<>>

QueriesOfColumn(defs, at, column) ==
  {at \o <<nameKey(column)>>,
   at \o <<nameKey(column), OperationOf(defs, Kid(Kid(column, "type"), "type"))>>}

QueriesOfTable(defs, schema, table) ==
  LET at == <<nameKey(schema), nameKey(table)>>
  IN  {at} \cup UNION {QueriesOfColumn(defs, at, c) : c \in ElementsOf(Elements(table, "columns"))}

Queries(d) ==
  UNION {UNION {QueriesOfTable(d.defs, s, t) : t \in ElementsOf(Elements(s, "tables"))} :
           s \in ElementsOf(Elements(d.root, "schemas"))}

Lost(x) == Queries(x.before) \ Queries(x.after)

-----------------------------------------------------------------------------
(***************************************************************************)
(* The documents: a realm, and the enums that are declared in it once.     *)
(***************************************************************************)
\* The properties whose value is an array.
ArrayKeys ==
  {"schemas", "tables", "columns", "refColumns", "indexes", "foreignKeys", "attrs", "objects",
   "parts", "values"}

\* A node of a document: a reference leads to a definition, and arrays are where they belong.
NodeOf(d, n) ==
  /\ n = [is |-> n.is, of |-> n.of, kids |-> n.kids]
  /\ n.is \in {"object", "array", "scalar", "ref"}
  /\ n.is = "ref" => n.of \in DOMAIN d.defs
  /\ n.is = "object" =>
       /\ IsFiniteSet(DOMAIN n.kids)
       /\ \A k \in DOMAIN n.kids : k \in ArrayKeys <=> Definition(d.defs, n.kids[k]).is = "array"
  /\ n.is = "array" =>
       /\ Len(n.kids) \in Nat /\ DOMAIN n.kids = 1 .. Len(n.kids)
       /\ \A k \in DOMAIN n.kids : Definition(d.defs, n.kids[k]).is # "array"

\* All nodes are in N, and those of the definitions in F: a definition refers to no other.
DocumentOf(d, N, F) ==
  /\ d.root \in N /\ d.root.is = "object"
  /\ F \subseteq N /\ \A name \in DOMAIN d.defs : d.defs[name] \in F
  /\ \A n \in N : NodeOf(d, n) /\ \A k \in DOMAIN n.kids : n.kids[k] \in N
  /\ \A n \in F : n.is # "ref" /\ \A k \in DOMAIN n.kids : n.kids[k] \in F

IsDocument(d) == \E N, F : DocumentOf(d, N, F)

-----------------------------------------------------------------------------
(***************************************************************************)
(* What a reader takes for granted of a document: a query has one meaning. *)
(***************************************************************************)
\* What an array lists has names, and no two have the same.
NamedOnce(n, property) ==
  LET e == Elements(n, property)
  IN  /\ Kid(n, property).is # "ref"
      /\ \A i \in DOMAIN e : e[i].is = "object" /\ nameKey(e[i]) # None
      /\ \A i, j \in DOMAIN e : nameKey(e[i]) = nameKey(e[j]) => i = j

\* The operations of the catalogue are those of its types: what is summed is a number, what is
\* lowered is a text.
OperationFits(defs, type) ==
  LET op == OperationOf(defs, type)
      t == Definition(defs, type)
  IN  /\ op = "sum" => readKind(t) \in {"IntegerType", "DecimalType", "FloatType"}
      /\ op = "lower" => readKind(t) = "StringType"
      /\ readKind(t) # "EnumType" =>
           \/ readTypeName(t) \in DOMAIN SqlOperation
           \/ op # "enum label" /\ \A name \in DOMAIN SqlOperation : op # SqlOperation[name]

\* The type of a column is an object with the type proper, which may be declared elsewhere.
TypedColumn(d, column) ==
  LET type == Kid(Kid(column, "type"), "type")
  IN  /\ Kid(column, "type").is = "object" /\ Definition(d.defs, type).is = "object"
      /\ Kid(Definition(d.defs, type), "type").is = "scalar"
      /\ OperationFits(d.defs, type)

\* What lies in the objects is not a table, and an enum is known there by the name of its type.
PlainObject(n) ==
  /\ readKind(n) # "Table"
  /\ readKind(n) = "EnumType" =>
       n.is = "object" /\ ~Has(n, "name") /\ ~Has(n, "symbol") /\ PropertyOf(n, "type") # None

PlainObjects(d, n) ==
  LET objects == Definition(d.defs, Kid(n, "objects")).kids
  IN  \A k \in DOMAIN objects : PlainObject(Definition(d.defs, objects[k]))

IsRealm(d) ==
  /\ NamedOnce(d.root, "schemas") /\ PlainObjects(d, d.root)
  /\ \A s \in ElementsOf(Elements(d.root, "schemas")) :
       /\ NamedOnce(s, "tables") /\ PlainObjects(d, s)
       /\ \A t \in ElementsOf(Elements(s, "tables")) :
            /\ NamedOnce(t, "columns") /\ PlainObjects(d, t)
            /\ \A c \in ElementsOf(Elements(t, "columns")) : TypedColumn(d, c)

\* The types of a kind have the names the catalogue gives them; a time may have any name.
TypesOfKind ==
  [BoolType |-> {"boolean"}, IntegerType |-> {"smallint", "integer"}, DecimalType |-> {"numeric"},
   FloatType |-> {"real"}, StringType |-> {"varchar", "text"}, BinaryType |-> {"bytea"},
   JSONType |-> {"json"}, UUIDType |-> {"uuid"}]

\* The types that are declared elsewhere are enums.
CataloguedType(defs, type) ==
  LET t == Definition(defs, type)
  IN  /\ readKind(t) \in DOMAIN TypesOfKind => readTypeName(t) \in TypesOfKind[readKind(t)]
      /\ type.is = "ref" => readKind(t) = "EnumType"

\* Nothing is left out that could be empty, and the definitions are apart from the realm.
IsWhole(d) ==
  /\ "schemas" \notin DOMAIN d.defs
  /\ \A s \in ElementsOf(Elements(d.root, "schemas")) :
       /\ Has(s, "tables")
       /\ \A t \in ElementsOf(Elements(s, "tables")) :
            /\ Has(t, "columns")
            /\ \A c \in ElementsOf(Elements(t, "columns")) :
                 CataloguedType(d.defs, Kid(Kid(c, "type"), "type"))

TypesOf(d) ==
  UNION {UNION {{Definition(d.defs, Kid(Kid(c, "type"), "type")) : c \in ElementsOf(Elements(t, "columns"))} :
                  t \in ElementsOf(Elements(s, "tables"))} :
           s \in ElementsOf(Elements(d.root, "schemas"))}

\* No type takes over the name of an enum, nor an enum that of another type.
EnumsStay(x) ==
  \A b \in TypesOf(x.before), a \in TypesOf(x.after) :
    readTypeName(b) = readTypeName(a) => (readKind(b) = "EnumType" <=> readKind(a) = "EnumType")

-----------------------------------------------------------------------------
\* The names along the path of a difference, as far as they lead to a query.
PlaceOf(x, d) ==
  LET Element(n, property, i) == Elements(n, property)[i]
      side == IF d.action = "add" THEN x.after.root ELSE x.before.root
      p == d.path
      schema == Element(side, "schemas", p[2])
      table == Element(schema, "tables", p[4])
  IN  IF Len(p) < 2 \/ p[1] # "schemas" THEN <<>>
      ELSE IF Len(p) < 4 \/ p[3] # "tables" THEN <<nameKey(schema)>>
      ELSE IF Len(p) < 6 \/ p[5] # "columns" THEN <<nameKey(schema), nameKey(table)>>
      ELSE <<nameKey(schema), nameKey(table), nameKey(Element(table, "columns", p[6]))>>

Breaking == {d \in diffs : d.type = "breaking"}

\* Types whose kind has rules: the others are left to the dialect, which has none.
KnownTypes(d) ==
  \A s \in ElementsOf(Elements(d.root, "schemas")) :
    \A t \in ElementsOf(Elements(s, "tables")) :
      \A c \in ElementsOf(Elements(t, "columns")) :
        readKind(Definition(d.defs, Kid(Kid(c, "type"), "type")))
          \in ScalarKinds \cup {"EnumType"}

\* A query that is lost, from a schema that is still there, is told by a breaking difference
\* at its table or its column (typeNameClassifier, tableClassifier, columnClassifier).
QueriesKept ==
  Done /\ KnownTypes(asked.before) =>
    \A q \in Lost(asked) :
      \/ \A s \in ElementsOf(Elements(asked.after.root, "schemas")) : nameKey(s) # q[1]
      \/ \E d \in Breaking : PlaceOf(asked, d) # <<>> /\ IsPrefix(PlaceOf(asked, d), q)

\* A breaking difference tells of a query that is lost, and not of one that is not: whatever is
\* done to keys, indexes, defaults, comments, sizes and the values of an enum
\* (ddl.rules.ts: allNonBreaking, allAnnotation).
BreakingJustified ==
  Done => \A d \in Breaking : \E q \in Lost(asked) : IsPrefix(PlaceOf(asked, d), q)

\* An enum is declared once and typed by many columns: what is done to it is told once, by the
\* difference every column shares (docs/plans/ddlapi-changes-reporting.md 8A).
ToldOnce ==
  \A d, e \in diffs : d.action = e.action /\ d.before = e.before /\ d.after = e.after => d = e

-----------------------------------------------------------------------------
\* Violated by the code.  "identical realms => 0 diffs".
UnchangedSilent == Done /\ asked.before = asked.after => diffs = {}

=============================================================================
