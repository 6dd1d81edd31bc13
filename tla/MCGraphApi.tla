-------------------------------- MODULE MCGraphApi --------------------------------
(***************************************************************************)
(* GraphQL schemas for TLC, one family for each place a type is used at.   *)
(***************************************************************************)
EXTENDS GraphApiChanges

MCRootOf(spec) == graphApiRules

Kinded(kind, kids) == Object([type |-> Object([kind |-> Scalar(kind)] @@ kids)])
Simple(kind) == Kinded(kind, Nothing)
Titled(name, typeDef) == [typeDef EXCEPT !.kids = [title |-> Scalar(name)] @@ @]

UsageOf(typeDef, nullable) == Object([typeDef |-> typeDef, nullable |-> Scalar(nullable)])
Defaulted(usage, value) == [usage EXCEPT !.kids = @ @@ [default |-> Scalar(value)]]
Described(node, text) == [node EXCEPT !.kids = @ @@ [description |-> Scalar(text)]]
Using(node, usages) == [node EXCEPT !.kids = @ @@ [directives |-> Object(usages)]]

Method(args, output) == Object([args |-> Object(args), output |-> output])
Enum(values) == Kinded("enum", [values |-> Object([v \in values |-> Object(Nothing)])])
InputObject(properties) == Kinded("inputObject", [properties |-> Object(properties)])
ObjectType(methods) ==
  Kinded("object", [methods |-> Object(methods), interfaces |-> Array(<<>>)])
Implementing(typeDef, interface) ==
  [typeDef EXCEPT !.kids["type"].kids["interfaces"] = Array(<<interface>>)]
Interface(methods) == Kinded("interface", [methods |-> Object(methods)])
Union(members) == Kinded("union", [oneOf |-> Array(members)])
List(usage) == Kinded("array", [items |-> usage])

Integer == Simple("integer")
Maybe(typeDef) == UsageOf(typeDef, "true")
Always(typeDef) == UsageOf(typeDef, "false")
Field(usage) == Method(Nothing, usage)

GroupOf(typeDef) ==
  LET kind == KindOf(Kid(typeDef, "type"))
  IN  CASE kind = "enum" -> "enums" [] kind = "inputObject" -> "inputObjects"
        [] kind = "object" -> "objects" [] kind = "interface" -> "interfaces"
        [] kind = "union" -> "unions" [] OTHER -> "scalars"

Groups == {"scalars", "objects", "interfaces", "inputObjects", "unions", "enums"}

\* A schema, its types and directives by name; the normalization leaves no group out.
Schema(operations, types, directives) ==
  LET Of(g) == Object([name \in {n \in DOMAIN types : GroupOf(types[n]) = g} |-> Ref(name)])
      components == [g \in Groups |-> Of(g)]
                    @@ [directives |-> Object([name \in DOMAIN directives |-> Ref(name)])]
  IN  [defs |-> [name \in DOMAIN types |-> Titled(name, types[name])]
                @@ [name \in DOMAIN directives |-> Titled(name, directives[name])],
       root |-> Object([components |-> Object(components)] @@ operations
                       @@ [g \in {"queries", "mutations", "subscriptions"} |-> Object(Nothing)])]

Queries(methods) == [queries |-> Object(methods)]
Query(method) == Queries([q |-> method])
Pairs(docs) == [spec : {"graphapi"}, before : docs, after : docs]

-----------------------------------------------------------------------------
\* An argument that is required or not, with a default or without, of one type or another, or not there.
Variants(types, defaults) ==
  {UsageOf(t, n) : t \in types, n \in {"true", "false"}}
  \cup {Defaulted(UsageOf(t, n), d) : t \in types, n \in {"true", "false"}, d \in defaults}

ArgSets ==
  {Nothing} \cup {[a |-> u] : u \in Variants({Integer}, {"1", "2"})}
  \cup {[a |-> Maybe(Simple("string"))], [a |-> Described(Maybe(Integer), "1")], [b |-> Maybe(Integer)]}
  \cup {[a |-> Maybe(Integer), b |-> u] : u \in Variants({Integer}, {"1"})}

ByArgument ==
  Pairs({Schema(Query(Method(args, Maybe(Integer))), Nothing, Nothing) : args \in ArgSets})

\* The same of a property of an input that two operations and a list take.
ByProperty ==
  Pairs({Schema(Queries([q |-> Method([a |-> Maybe(Ref("P"))], Maybe(Integer)),
                         r |-> Method([a |-> Maybe(List(Maybe(Ref("P"))))], Maybe(Integer))]),
                [P |-> InputObject(p)], Nothing) :
           p \in {Nothing} \cup {[a |-> u] : u \in Variants({Integer}, {"1"})}
                   \cup {[a |-> Maybe(Integer), b |-> u] : u \in Variants({Ref("P")}, {})}})

\* An enum that flows in, out or both, or is not used.
ByEnum ==
  Pairs({Schema(Query(m), [P |-> Enum(values)], Nothing) :
           values \in {{"V"}, {"V", "W"}, {"W", "X"}},
           m \in {Method([a |-> Maybe(Ref("P"))], Maybe(Integer)), Method(Nothing, Maybe(Ref("P"))),
                  Method([a |-> Maybe(Ref("P"))], Maybe(Ref("P")))}})

\* What an operation answers.
Types2 == [O |-> ObjectType([f |-> Field(Maybe(Integer))]), P |-> ObjectType([g |-> Field(Always(Integer))])]

Answers ==
  {Maybe(Integer), Always(Integer), Maybe(Simple("string")), Maybe(Ref("O")), Always(Ref("O")), Maybe(Ref("P")),
   Maybe(Ref("X")), Maybe(List(Maybe(Integer))), Maybe(List(Always(Integer))), Always(List(Maybe(Ref("O"))))}

ByAnswer ==
  Pairs({Schema(Query(Field(u)), [X |-> Union(m)] @@ Types2, Nothing) :
           u \in Answers, m \in {<<Ref("O")>>, <<Ref("O"), Ref("P")>>, <<Ref("P"), Ref("O")>>}})

\* A type that answers with itself, met by several routes, through an interface and a union.
Recursive(f) ==
  {[O |-> Implementing(ObjectType(f @@ [next |-> Method(a, n)]), Ref("W")), W |-> Interface(f)] :
     a \in {Nothing, [a |-> Maybe(Integer)], [a |-> Always(Integer)]},
     n \in {Maybe(Ref("O")), Always(List(Maybe(Ref("O")))), Maybe(Ref("W"))}}

ByRecursion ==
  Pairs({Schema(Queries([q |-> Field(Maybe(Ref("O"))), r |-> Field(Always(List(Always(Ref("O")))))]),
                types, Nothing) :
           types \in UNION {Recursive(f) : f \in {[f |-> Field(Maybe(Integer))], [f |-> Field(Always(Integer))],
                                                  [g |-> Field(Maybe(Integer))]}}})

\* Operations that come and go, and move.
ByOperation ==
  LET m == [q |-> Field(Maybe(Integer))]  n == [r |-> Field(Maybe(Integer))]
  IN  Pairs({Schema(ops, Nothing, Nothing) :
               ops \in {Nothing, Queries(m), Queries(n), Queries(m @@ n), [mutations |-> Object(m)],
                        [mutations |-> Object(m)] @@ Queries(n),
                        [subscriptions |-> Object(m), mutations |-> Object(Nothing)]}})

\* Directives, and what they are written on.
DirectiveOf(locations, args) ==
  Object([args |-> Object(args), repeatable |-> Scalar("false"),
          locations |-> Array([i \in DOMAIN locations |-> Scalar(locations[i])])])

Args(n) == {Nothing, [a |-> UsageOf(Integer, n)], [b |-> UsageOf(Integer, n)]}

ByDirective ==
  Pairs({Schema(Query(Field(Maybe(Integer))), Nothing, d) :
           d \in {Nothing} \cup {[d |-> DirectiveOf(l, a)] :
                    l \in {<<"FIELD">>, <<"QUERY", "FIELD">>}, a \in Args("true") \cup {[X |-> Always(Integer)]}}})
  \cup Pairs({Schema(Query(Field(Maybe(Integer))), Nothing, [d |-> DirectiveOf(l, a)]) :
           l \in {<<"OBJECT">>, <<"ENUM", "OBJECT">>}, a \in Args("true") \cup Args("false")})
  \cup LET At(l) == Schema(Query(Field(Maybe(Integer))), Nothing, [d |-> DirectiveOf(l, Nothing)])
       IN  [spec : {"graphapi"}, before : {At(<<"FIELD">>)}, after : {At(<<"OBJECT">>)}]

Meta(value) == Object([definition |-> Ref("d"), meta |-> Object([a |-> Scalar(value)])])

ByUsage ==
  Pairs({Schema(Query(Using(Field(Maybe(Integer)), u)), Nothing, [d |-> DirectiveOf(l, [a |-> Maybe(Integer)])]) :
           l \in {<<"FIELD_DEFINITION">>, <<"FIELD_DEFINITION", "FIELD">>},
           u \in {Nothing, [d |-> Meta("1")], [d |-> Meta("2")], [deprecated |-> Meta("1")]}})

MCInput ==
  {x : x \in ByArgument \cup ByProperty \cup ByEnum \cup ByAnswer \cup ByRecursion \cup ByOperation
             \cup ByDirective \cup ByUsage}

=============================================================================
