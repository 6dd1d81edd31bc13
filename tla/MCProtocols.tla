------------------------------- MODULE MCProtocols -------------------------------
(***************************************************************************)
(* OpenAPI and AsyncAPI documents for TLC, one family for each thing in an *)
(* operation that changes.                                                 *)
(***************************************************************************)
EXTENDS ProtocolChanges

MCRootOf(spec) == IF spec = "openapi" THEN openApi3Rules ELSE asyncApi3Rules
MCReplacedAsWhole(resolver, c) == FALSE

Codes == {"200", "4XX", "4xx"}
MCLowerCase == [c \in Codes |-> IF c = "4XX" THEN "4xx" ELSE c]
MCSegments ==
  [p |-> <<"p">>, q |-> <<"q">>, p_id |-> <<"p", "{id}">>, p_key |-> <<"p", "{key}">>,
   v_p |-> <<"v", "p">>, v |-> <<"v">>]
MCMediaTypes ==
  [json |-> [main |-> "application", sub |-> "json", params |-> ""],
   json_utf |-> [main |-> "application", sub |-> "json", params |-> "utf-8"],
   xml |-> [main |-> "application", sub |-> "xml", params |-> ""]]

-----------------------------------------------------------------------------
Typed(type, nullable) == Object([type |-> Scalar(type), nullable |-> Scalar(nullable)])
With(node, kids) == [node EXCEPT !.kids = kids @@ @]
Plain(type) == Typed(type, "false")
Defaulted(node, value) == With(node, [default |-> Scalar(value)])
Strings(S) == Array([i \in 1 .. Cardinality(S) |-> Scalar(Listed(S)[i])])
Enumerated(values) == With(Plain("string"), [enum |-> Strings(values)])
ObjectOf(properties, required) ==
  With(Plain("object"), [properties |-> Object(properties), required |-> Strings(required)])
ArrayOf(items) == With(Plain("array"), [items |-> items])

\* What a schema may be, where it flows to the API and where from it.
Schemas ==
  {Plain("string"), Typed("string", "true"), Plain("integer"), Plain("number"), Plain("any"), Enumerated({"v"}),
   Enumerated({"v", "w"}), Enumerated({"w", "x"}), ObjectOf(Nothing, {}),
   ObjectOf([a |-> Plain("string")], {}), ObjectOf([a |-> Plain("string")], {"a"}),
   ObjectOf([a |-> Typed("string", "true"), b |-> Plain("number")], {"b"})}
Arrays == {ArrayOf(s) : s \in {Plain("integer"), Plain("number"), ObjectOf([a |-> Plain("number")], {"a"})}}

Inputs ==
  {Plain("string"), Defaulted(Plain("string"), "1"), Defaulted(Plain("string"), "2"),
   ObjectOf([a |-> Defaulted(Plain("string"), "1")], {"a"}), ObjectOf([a |-> Plain("string")], {"a"}),
   ObjectOf([a |-> Plain("string")], {}), ObjectOf([a |-> Defaulted(Plain("string"), "1")], {})}

-----------------------------------------------------------------------------
Content(types) == Object([t \in DOMAIN types |-> Object([schema |-> types[t]])])
Json(schema) == Content([json |-> schema])
Body(content, required) == [requestBody |-> Object([content |-> content, required |-> Scalar(required)])]
Response(content, headers) ==
  Object([content |-> content,
          headers |-> Object([h \in DOMAIN headers |-> Object([schema |-> headers[h], required |-> Scalar("false")])])])
Responses(codes) == [responses |-> Object(codes)]
Fine == Responses([c \in {"200"} |-> Response(Json(Plain("string")), Nothing)])

OperationOf(kids) == Object(kids @@ [parameters |-> Array(<<>>)] @@ Fine)
PathItem(kids) == Object(kids @@ [parameters |-> Array(<<>>)])
Get(kids) == PathItem([get |-> OperationOf(kids)])

Document(defs, paths, rest) ==
  [defs |-> defs,
   root |-> Object([openapi |-> Scalar("3.0"), paths |-> Object(paths),
                    components |-> Object([schemas |-> Object([n \in DOMAIN defs |-> Ref(n)])])] @@ rest)]

One(kids) == Document(Nothing, [p |-> Get(kids)], Nothing)
Pairs(docs) == [spec : {"openapi"}, before : docs, after : docs]

\* Parameters.
Param(in, name, required, schema) ==
  Object([in |-> Scalar(in), name |-> Scalar(name), required |-> Scalar(required), schema |-> schema,
          style |-> Scalar("form"), explode |-> Scalar("true"), allowReserved |-> Scalar("false"),
          allowEmptyValue |-> Scalar("false")])
Query(name, required, schema) == Param("query", name, required, schema)
Set(param, field, value) == [param EXCEPT !.kids[field] = Scalar(value)]

a1 == Query("a", "false", Plain("string"))
ParamLists ==
  {<<>>} \cup {<<Query("a", r, s)>> : r \in {"true", "false"},
                s \in {Plain("string"), Plain("integer"), Defaulted(Plain("string"), "1"), Defaulted(Plain("string"), "0")}}
  \cup {<<Param("header", n, "true", Plain("string")), a1>> : n \in {"a", "Accept"}}
  \cup {<<Set(a1, "style", "pipeDelimited")>>, <<Set(a1, "explode", "false")>>, <<Set(a1, "allowReserved", "true")>>,
        <<Set(a1, "allowEmptyValue", "true")>>, <<Query("b", "false", Plain("string")), a1>>}

ByParameter == Pairs({One([parameters |-> Array(ps)]) : ps \in ParamLists})

\* Paths, their parameters and their servers.
IdParam(name, schema) == Param("path", name, "true", schema)
IdSchemas == {Plain("string"), Plain("number")}
\* A parameter that moves between the two places is a removed and an added one: it stays where it is.
SharedId(name) ==
  {PathItem([parameters |-> Array(<<IdParam(name, s)>>), get |-> OperationOf([parameters |-> Array(ps)])]) :
     s \in IdSchemas, ps \in {<<>>, <<a1>>}}
OwnId(name) == {Get([parameters |-> Array(<<a1, IdParam(name, s)>>)]) : s \in IdSchemas}
ByPath ==
  UNION {Pairs({Document(Nothing, [p_id |-> i], Nothing) : i \in P[1]}
               \cup {Document(Nothing, [p_key |-> i], Nothing) : i \in P[2]}) :
           P \in {<<SharedId("{id}"), SharedId("{key}")>>, <<OwnId("{id}"), OwnId("{key}")>>}}
  \cup LET Servers(url) == [servers |-> Array(<<Object([url |-> Scalar(url)])>>)]
           methods == {[get |-> OperationOf(Nothing)], [post |-> OperationOf(Nothing)],
                       [get |-> OperationOf(Nothing), post |-> OperationOf(Nothing)]}
       IN  Pairs({Document(Nothing, [p |-> PathItem(m)], r) : m \in methods, r \in {Nothing, Servers("v")}}
                 \cup {Document(Nothing, [p |-> PathItem(m @@ Servers("v"))], Nothing) : m \in methods}
                 \cup {Document(Nothing, [v_p |-> PathItem(m), q |-> Get(Nothing)], Nothing) : m \in methods})

\* Schemas of bodies, responses and headers; one schema for both; and one that holds itself.
Answer(schema) == Responses([c \in {"200"} |-> Response(Json(schema), Nothing)])
BySchema ==
  UNION {Pairs({One(Body(Json(s), "true")) : s \in S}) : S \in {Schemas \cup Inputs, Arrays}}
  \cup UNION {Pairs({One(Answer(s)) : s \in S}) : S \in {Schemas, Arrays}}
  \cup Pairs({One(Responses([c \in {"200"} |-> Response(Json(Plain("string")), [h |-> s])])) : s \in Schemas})
ByShared ==
  LET Both(s) == Document([S |-> s], [p |-> Get(Body(Json(Ref("S")), "true") @@ Answer(ArrayOf(Ref("S"))))], Nothing)
      Self(s) == ObjectOf([a |-> s, b |-> Ref("S")], {"b"})
  IN  Pairs({Both(s) : s \in Schemas})
      \cup Pairs({Both(Self(s)) : s \in {Plain("string"), Plain("any"), Typed("string", "true"), Ref("S")}})

\* Media types, codes, headers and bodies.
Contents ==
  {Content(c) : c \in {[json |-> Plain("string")], [json_utf |-> Plain("string")], [xml |-> Plain("string")],
                       [json |-> Plain("string"), xml |-> Plain("number")], [json_utf |-> Plain("number"), xml |-> Plain("number")]}}
ByContent ==
  Pairs({One(Body(c, "false")) : c \in Contents} \cup {One(Nothing)})
  \cup Pairs({One(Body(Json(Plain("string")), r)) : r \in {"true", "false"}})
  \cup Pairs({One(Responses([c \in {"200"} |-> Response(t, h)])) : t \in Contents,
                h \in {Nothing, [h |-> Plain("string")], [h |-> Plain("string"), k |-> Plain("string")]}})
  \cup Pairs({One(Responses([c \in cs |-> Response(Json(s), Nothing)])) :
                cs \in {{"200"}, {"4XX"}, {"200", "4xx"}, {"200", "4XX"}}, s \in {Plain("string"), Plain("number")}})

\* Requirements: of an operation, under those of the document.
Requirement(schemes) == Object([s \in schemes |-> Array(<<>>)])
Requirements(list) == [security |-> Array([i \in DOMAIN list |-> Requirement(list[i])])]
Single == {<<>>, <<{}>>, <<{"s"}>>, <<{"t"}>>, <<{"s"}, {"t"}>>, <<{"t"}, {}>>}
BySecurity ==
  LET Of(root, own) == Document(Nothing, [p |-> Get(own)], root)
      owns == {Nothing} \cup {Requirements(l) : l \in Single}
  IN  UNION {Pairs({Of(root, own) : own \in owns}) : root \in {Nothing} \cup {Requirements(l) : l \in Single}}
      \cup Pairs({Of(Nothing, own) : own \in owns \cup {Requirements(<<{"s", "t"}>>)}})

-----------------------------------------------------------------------------
\* Messages are definitions, in the channel and in the operation by reference.
Message(payload) == Object([payload |-> payload])
InFormat(format, schema) == Object([schema |-> schema, schemaFormat |-> Scalar(format)])
Refs(names) == Array([i \in DOMAIN names |-> Ref(names[i])])
Channel(names) == Object([messages |-> Object([m \in names |-> Ref(m)])])
AsyncOperation(action, list, reply) ==
  Object([action |-> Scalar(action), channel |-> Channel(ElementsOf(list)), messages |-> Refs(list)] @@ reply)
Reply(list) == [reply |-> Object([channel |-> Channel(ElementsOf(list)), messages |-> Refs(list)])]

AsyncDocument(messages, operations) ==
  [defs |-> messages,
   root |-> Object([asyncapi |-> Scalar("3.0"), channels |-> Object([c |-> Channel(DOMAIN messages)]),
                    operations |-> Object(operations)])]
AsyncPairs(docs) == [spec : {"asyncapi"}, before : docs, after : docs]

AsyncSchemas == Schemas \ {Typed("string", "true"), ObjectOf([a |-> Typed("string", "true"), b |-> Plain("number")], {"b"})}

\* A message sent, received, answered, or all of it.
Flows ==
  {[o |-> AsyncOperation("send", <<"M">>, Nothing)], [o |-> AsyncOperation("receive", <<"M">>, Nothing)],
   [o |-> AsyncOperation("send", <<"N">>, Reply(<<"M">>))], [o |-> AsyncOperation("receive", <<"M">>, Reply(<<"M">>))]}
ByMessage ==
  UNION {AsyncPairs({AsyncDocument([M |-> Message(s), N |-> Message(Plain("string"))], f) : s \in AsyncSchemas}) : f \in Flows}

ByFormat ==
  UNION {AsyncPairs({AsyncDocument([M |-> Message(s)], f) :
                       s \in {Plain("string"), Plain("number")}
                             \cup {InFormat(m, Typed("string", n)) : m \in {"asyncapi", "openapi"}, n \in {"false"}}
                             \cup {InFormat("openapi", Typed("string", "true")), InFormat("asyncapi", Plain("any"))}}) :
           f \in {[o |-> AsyncOperation(x, <<"M">>, Nothing)] : x \in {"send", "receive"}}}

Headers == {ObjectOf([a |-> Plain(t)], r) : t \in {"string", "any"}, r \in {{}, {"a"}}}

\* Messages and operations that come, go and move; content types and headers.
ByOperation ==
  LET messages == [M |-> Message(Plain("string")), N |-> With(Message(Plain("string")), [contentType |-> Scalar("json")])]
      Lists == {<<"M">>, <<"N">>, <<"M", "N">>, <<"N", "M">>}
  IN  AsyncPairs({AsyncDocument(messages, [o |-> AsyncOperation(x, l, Nothing)]) : x \in {"send", "receive"}, l \in Lists}
                 \cup {AsyncDocument(messages, ops) :
                         ops \in {Nothing, [k |-> AsyncOperation("send", <<"M">>, Nothing)],
                                  [o |-> AsyncOperation("send", <<"M">>, Nothing), k |-> AsyncOperation("receive", <<"M">>, Nothing)]}})
      \cup UNION {AsyncPairs({AsyncDocument([M |-> With(Message(Plain("string")), k)], [o |-> AsyncOperation(x, <<"M">>, Nothing)]) :
                               k \in K}) :
                    x \in {"send", "receive"},
                    K \in {{Nothing} \cup {[contentType |-> Scalar(t)] : t \in {"json", "xml"}}, {[headers |-> h] : h \in Headers}}}

MCInput ==
  {x : x \in ByParameter \cup ByPath \cup BySchema \cup ByShared \cup ByContent \cup BySecurity
             \cup ByMessage \cup ByFormat \cup ByOperation}

=============================================================================
