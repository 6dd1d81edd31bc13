--------------------------------- MODULE MCDdl ---------------------------------
(***************************************************************************)
(* Database schemas for TLC, one family for each part of a table.          *)
(***************************************************************************)
EXTENDS DdlFacts

MCRootOf(spec) == ddlRules
MCAdapt(name, side, reference) == side

Kinded(kind, kids) == Object([kind |-> Scalar(kind)] @@ kids)
Names(names) == Array([i \in DOMAIN names |-> Scalar(names[i])])

Type(kind, name) == Kinded(kind, [type |-> Scalar(name)])
Sized(type, size) == [type EXCEPT !.kids = @ @@ [size |-> Scalar(size)]]
ColumnType(type, null) ==
  Object([type |-> type, raw |-> Scalar(type.of), null |-> Scalar(null)])

Column(name, type, attrs) ==
  Object([name |-> Scalar(name), type |-> type, attrs |-> Array(attrs)])
Defaulted(column, expr) == [column EXCEPT !.kids = @ @@ [default |-> expr]]

Comment(text) == Kinded("Comment", [text |-> Scalar(text)])
Check(name, expr) == Kinded("Check", [name |-> Scalar(name), expr |-> Scalar(expr), attrs |-> Array(<<>>)])
Collation(value) == Kinded("Collation", [value |-> Scalar(value)])
Generated(expr) == Kinded("GeneratedExpr", [expr |-> Scalar(expr)])
Foreign(kind, of) == Kinded(kind, [of |-> Scalar(of)])
Literal(value) == Kinded("Literal", [value |-> Scalar(value)])
RawExpr(expr) == Kinded("RawExpr", [expr |-> Scalar(expr)])
NamedDefault(expr) == Kinded("NamedDefault", [name |-> Scalar("d"), expr |-> expr, attrs |-> Array(<<>>)])

Part(column, seqNo) ==
  Object([column |-> Scalar(column), seqNo |-> Scalar(ToString(seqNo)), attrs |-> Array(<<>>)])
ExprPart(expr) == Object([expr |-> RawExpr(expr), seqNo |-> Scalar("1"), attrs |-> Array(<<>>)])
Parts(columns) == [i \in DOMAIN columns |-> Part(columns[i], i)]

Index(parts, unique) ==
  Kinded("Index", [parts |-> Array(parts), unique |-> Scalar(unique), attrs |-> Array(<<>>)])
NamedIndex(name, parts, unique) ==
  [Index(parts, unique) EXCEPT !.kids = @ @@ [name |-> Scalar(name)]]

ForeignKey(columns, schema, table, refColumns, onDelete) ==
  Kinded("ForeignKey",
         [columns |-> Names(columns), refColumns |-> Names(refColumns),
          refTable |-> Object([schema |-> Scalar(schema), name |-> Scalar(table)]),
          onUpdate |-> Scalar("NO ACTION"), onDelete |-> Scalar(onDelete), attrs |-> Array(<<>>)])
NamedKey(symbol, key) == [key EXCEPT !.kids = @ @@ [symbol |-> Scalar(symbol)]]

Table(name, columns, rest) ==
  Kinded("Table", rest @@ [name |-> Scalar(name), columns |-> Array(columns),
                           indexes |-> Array(<<>>), foreignKeys |-> Array(<<>>),
                           attrs |-> Array(<<>>), objects |-> Array(<<>>)])

Schema(name, tables, objects, attrs) ==
  Object([name |-> Scalar(name), tables |-> Array(tables), objects |-> Array(objects),
          attrs |-> Array(attrs)])

Realm(schemas) == Object([schemas |-> Array(schemas), attrs |-> Array(<<>>), objects |-> Array(<<>>)])
Defs(defs, root) == [defs |-> defs, root |-> root]
NoDefs == [d \in {} |-> None]

Pairs(docs) == [spec : {"ddl"}, before : docs, after : docs]

Whole == ColumnType(Type("IntegerType", "integer"), "false")
Id == Column("id", Whole, <<>>)
Plain(columns, rest) == Defs(NoDefs, Realm(<<Schema("public", <<Table("t", columns, rest)>>, <<>>, <<>>)>>))

\* Every type to every other.
Types ==
  {Type("BoolType", "boolean"), Type("IntegerType", "smallint"), Type("IntegerType", "integer"),
   Type("DecimalType", "numeric"), Type("FloatType", "real"), Type("StringType", "varchar"),
   Sized(Type("StringType", "varchar"), "9"), Type("StringType", "text"),
   Type("BinaryType", "bytea"), Type("TimeType", "date"), Type("TimeType", "time"),
   Type("TimeType", "timestamp"), Type("TimeType", "interval"), Type("JSONType", "json"),
   Type("UUIDType", "uuid"), Type("SpatialType", "point"), Type("UnsupportedType", "money"),
   Type("Domain", "age"), Ref("mood"), Ref("colour")}

Enum(name, values) == Kinded("EnumType", [type |-> Scalar(name), values |-> Names(values), attrs |-> Array(<<>>)])

WithEnums(mood, colour, columns) ==
  Defs([mood |-> mood, colour |-> colour],
       Realm(<<Schema("public", <<Table("t", columns, Nothing)>>, <<Ref("mood"), Ref("colour")>>, <<>>)>>))

ByType ==
  Pairs({WithEnums(Enum("mood", <<"sad">>), Enum("colour", <<"red">>),
                   <<Column("c", ColumnType(t, "true"), <<>>)>>) : t \in Types})

\* An enum of two columns; and columns that go over to another.
ByEnum ==
  Pairs({WithEnums(Enum("mood", m), Enum("colour", <<"red">>),
                   <<Column("a", ColumnType(Ref(e), "true"), <<>>),
                     Column("b", ColumnType(Ref(f), "true"), <<>>)>>) :
           m \in {<<>>, <<"ok", "sad">>, <<"sad", "ok">>, <<"sad", "glad", "ok">>},
           e \in {"mood", "colour"}, f \in {"mood", "colour"}})

\* The facets of a column.
ByColumn ==
  Pairs({Plain(<<Id, c>>, Nothing) :
           c \in {Column("c", Whole, a) :
                    a \in {<<>>, <<Comment("1")>>, <<Comment("2"), Collation("C")>>,
                           <<Collation("C"), Comment("2")>>, <<Collation("D")>>,
                           <<Generated("x")>>, <<Generated("y"), Comment("1")>>, <<Foreign("Identity", "x")>>,
                           <<Foreign("Identity", "y")>>}}
                 \cup {Column("c", ColumnType(Type("IntegerType", "integer"), "true"), <<>>)}
                 \cup {Defaulted(Column("c", Whole, <<>>), e) :
                    e \in {Literal("1"), Literal("2"), RawExpr("1"), NamedDefault(RawExpr("1")),
                           NamedDefault(Literal("1")), Foreign("Sequence", "s")}}})

\* Which tables, which columns, and in which order.
Columns2 == {<<>>, <<"a">>, <<"b">>, <<"a", "b">>, <<"b", "a">>}
TableOf(name, columns) ==
  Table(name, [i \in DOMAIN columns |-> Column(columns[i], Whole, <<>>)], Nothing)

ByTable ==
  Pairs({Defs(NoDefs, Realm(<<Schema("s", ts, <<>>, <<>>)>>)) :
           ts \in {<<>>} \cup {<<TableOf("t", c)>> : c \in Columns2}
                    \cup {<<TableOf("t", c), TableOf("u", <<"a">>)>> : c \in Columns2}
                    \cup {<<TableOf("u", <<"a">>), TableOf("t", c)>> : c \in Columns2}})

\* A table in one schema or the other; both schemas stay.
BySchema ==
  Pairs({Defs(NoDefs, Realm(ss)) :
           ss \in {<<Schema("r", r, o, <<>>), Schema("s", s, <<>>, a)>> :
                     r \in {<<>>, <<TableOf("t", <<"a">>)>>}, s \in {<<>>, <<TableOf("t", <<"b">>)>>},
                     o \in {<<>>, <<Check("k", "x")>>}, a \in {<<>>, <<Comment("1")>>}}
                   \cup {<<Schema("s", s, <<>>, <<>>), Schema("r", <<>>, <<>>, <<>>)>> :
                           s \in {<<>>, <<TableOf("t", <<"b">>)>>}}})

Both == <<Id, Column("c", Whole, <<>>)>>

SomeIndexes ==
  {NamedIndex(n, Parts(p), u) : n \in {"i", "j"}, p \in {<<"id">>, <<"id", "c">>, <<"c", "id">>}, u \in {"true", "false"}}
    \cup {Index(Parts(p), "true") : p \in {<<"id">>, <<"id", "c">>, <<"c", "id">>}}

ByIndex ==
  Pairs({Plain(Both, [indexes |-> Array(<<i>>)]) : i \in SomeIndexes}
          \cup {Plain(Both, [indexes |-> Array(<<NamedIndex("z", Parts(<<"c">>), "false"), i>>)]) :
                  i \in {Index(Parts(<<"id">>), "true"), NamedIndex("i", Parts(<<"id">>), "true")}}
          \cup {Plain(Both, [indexes |-> Array(<<Index(Parts(<<"id">>), "true"), NamedIndex("z", Parts(<<"c">>), "false")>>)])}
          \cup {Plain(Both, [primaryKey |-> Index(Parts(p), "true")]) : p \in {<<"id">>, <<"id", "c">>, <<"c", "id">>}}
          \cup {Plain(Both, Nothing)})

Keys ==
  {ForeignKey(c, s, "u", r, "CASCADE") : c \in {<<"id">>, <<"c">>, <<"id", "c">>, <<"c", "id">>},
                                         s \in {"public", "s"}, r \in {<<"a">>, <<"b">>}}
    \cup {ForeignKey(<<"id">>, "s", "u", <<"a">>, "NO ACTION")}

ByKey ==
  Pairs({Plain(Both, [foreignKeys |-> Array(<<k>>)]) : k \in Keys}
          \cup {Plain(Both, [foreignKeys |-> Array(<<NamedKey(n, ForeignKey(<<"id">>, "s", "u", <<"a">>, "CASCADE"))>>)]) :
                  n \in {"f", "g"}}
          \cup {Plain(Both, Nothing)})

\* What else belongs to a table.
Objects ==
  {<<>>, <<Check("k", "x")>>, <<Check("k", "y")>>, <<Check("l", "x"), Check("k", "x")>>,
   <<Check("k", "x"), Check("l", "x")>>, <<NamedDefault(Literal("1"))>>,
   <<NamedIndex("i", Parts(<<"id">>), "true")>>, <<Foreign("Trigger", "x"), Check("k", "x")>>,
   <<NamedKey("f", ForeignKey(<<"id">>, "s", "u", <<"a">>, "CASCADE"))>>}

ByObject ==
  Pairs({Plain(Both, [objects |-> Array(o)]) : o \in Objects}
          \cup {Plain(Both, [attrs |-> Array(o)]) : o \in Objects \cup {<<Comment("1")>>, <<Comment("2"), Check("k", "x")>>}})

MCInput ==
  {x : x \in ByType \cup ByEnum \cup ByColumn \cup ByTable \cup BySchema \cup ByIndex \cup ByKey \cup ByObject}

\* The nodes of a document are those that a walk comes to.
RECURSIVE AllNodes(_, _)
AllNodes(d, n) == NodeOf(d, n) /\ \A k \in DOMAIN n.kids : AllNodes(d, n.kids[k])

RECURSIVE NoRefs(_)
NoRefs(n) == n.is # "ref" /\ \A k \in DOMAIN n.kids : NoRefs(n.kids[k])

ASSUME InputsAreDocuments ==
  \A d \in {x.before : x \in MCInput} \cup {x.after : x \in MCInput} :
    /\ AllNodes(d, d.root) /\ d.root.is = "object"
    /\ \A name \in DOMAIN d.defs : AllNodes(d, d.defs[name]) /\ NoRefs(d.defs[name])

ASSUME InputsAreRealms ==
  \A d \in {x.before : x \in MCInput} \cup {x.after : x \in MCInput} : IsRealm(d)

ASSUME InputsAreWhole ==
  /\ \A d \in {x.before : x \in MCInput} \cup {x.after : x \in MCInput} : IsWhole(d)
  /\ \A x \in MCInput : EnumsStay(x)

\* An index of an expression, with a name or without, or the second one on its column.
Unchanged ==
  {x \in Pairs({Plain(Both, [indexes |-> Array(i)]) :
            i \in {<<NamedIndex("i", <<Part("id", 0), ExprPart("lower(c)")>>, "false")>>,
                   <<Index(<<ExprPart("lower(c)")>>, "false")>>,
                   <<Index(Parts(<<"id">>), "true"), Index(Parts(<<"id">>), "true")>>}}) :
     x.before = x.after}

=============================================================================
