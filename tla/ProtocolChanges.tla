----------------------------- MODULE ProtocolChanges -----------------------------
(***************************************************************************)
(* What the comparison of two OpenAPI or AsyncAPI documents tells those    *)
(* who call the API, held against what they may send and count on under    *)
(* either document.  A promise is made on a side: what flows to the API    *)
(* ("request", "send"), or from it ("response", "receive"); a difference   *)
(* is told on the side of its scope.                                       *)
(*                                                                         *)
(* The documents are normalized: schemas have a type, parameters all their *)
(* fields.  Verdicts asked for are those of test/compatibility-suites.     *)
(***************************************************************************)
EXTENDS AsyncApiRules, FiniteSets

Kinds == {"integer", "number", "string", "object", "array"}
EnumValues == {"v", "w", "x"}   \* the values that enums tell apart
Sides == {"request", "response", "root", "send", "receive"}
ToApi == {"request", "send"}

KindsOf(type) ==
  CASE type = "any" -> Kinds [] type = "number" -> {"integer", "number"} [] OTHER -> {type}

Promise(side, op, at, what) == [side |-> side, op |-> op, at |-> at, what |-> what]

\* That there is such a place is not promised; what is promised of it is, while it is there.
There(side, op, at) == Promise(side, op, at, <<"there">>)

-----------------------------------------------------------------------------
(***************************************************************************)
(* Schemas.                                                                *)
(***************************************************************************)
EnumOf(schema) == IF Has(schema, "enum") THEN Values(Kid(schema, "enum")) ELSE EnumValues
Requires(schema) == Values(Kid(schema, "required"))
Property(defs, schema, p) == Definition(defs, Kid(Kid(schema, "properties"), p))
Properties(schema) == DOMAIN Kid(schema, "properties").kids

\* What may be given.
Taken(defs, schema) ==
  {<<"give", k>> : k \in KindsOf(PropertyOf(schema, "type"))}
  \cup {<<"give value", v>> : v \in EnumOf(schema)}
  \cup {<<"give null">> : n \in {n \in {"true"} : PropertyOf(schema, "nullable") = n}}
  \cup {<<"left out means", d>> : d \in {Kid(schema, "default").of : k \in DOMAIN schema.kids \cap {"default"}}}
  \cup {<<"give property", p>> : p \in IF PropertyOf(schema, "type") = "any" THEN PropertyName ELSE Properties(schema)}
  \cup {<<"leave out property", p>> :
          p \in {p \in PropertyName : p \in Requires(schema) => Has(Property(defs, schema, p), "default")}}

\* What never comes, or always does.
Answered(schema) ==
  {<<"never", k>> : k \in Kinds \ KindsOf(PropertyOf(schema, "type"))}
  \cup {<<"never value", v>> : v \in EnumValues \ EnumOf(schema)}
  \cup {<<"never null">> : n \in {n \in {"true"} : PropertyOf(schema, "nullable") # n}}
  \cup {<<"always property", p>> : p \in Requires(schema) \cap Properties(schema)}

\* Below a definition inside itself nothing more is promised.
RECURSIVE PromisesBelow(_, _, _, _, _, _)
PromisesBelow(defs, side, op, at, node, entered) ==
  LET schema == Definition(defs, node)
      Below(key, n) ==
        PromisesBelow(defs, side, op, Append(at, key), n, entered \cup {m.of : m \in {m \in {node} : m.is = "ref"}})
  IN  {There(side, op, at)}
      \cup {Promise(side, op, at, w) : w \in IF side \in ToApi THEN Taken(defs, schema) ELSE Answered(schema)}
      \cup IF node.is = "ref" /\ node.of \in entered THEN {}
           ELSE UNION {Below(p, Kid(Kid(schema, "properties"), p)) : p \in Properties(schema)}
                \cup IF Has(schema, "items") THEN Below("items", Kid(schema, "items")) ELSE {}

SchemaPromises(defs, side, op, at, node) == PromisesBelow(defs, side, op, at, node, {})

-----------------------------------------------------------------------------
(***************************************************************************)
(* Operations of an OpenAPI document, by unified path and method.          *)
(***************************************************************************)
Methods == {"get", "post"}

\* A parameter in the path is known by its place.
ParamId(path, param) ==
  LET Place == CHOOSE i \in DOMAIN Mapping!ParamsOf(path) : Mapping!ParamsOf(path)[i] = PropertyOf(param, "name")
  IN  <<PropertyOf(param, "in"),
        IF PropertyOf(param, "in") = "path" THEN ToString(Place) ELSE PropertyOf(param, "name")>>

\* Those of the operation come before those of its path.
ParamsOfOperation(path, pathItem, operation) ==
  LET Own == ElementsOf(Kid(operation, "parameters").kids)
      Shared == ElementsOf(Kid(pathItem, "parameters").kids)
      Ids(S) == {ParamId(path, p) : p \in S}
  IN  {p \in Own \cup {p \in Shared : ParamId(path, p) \notin Ids(Own)} : ~isIgnoredHeaderParam(p)}

MayLeaveOutParam(defs, param) == ~IsTrue(Kid(param, "required")) \/ DefaultOf(defs, param).is # "undefined"

Serialization(param) ==
  {<<"style", PropertyOf(param, "style")>>, <<"explode", PropertyOf(param, "explode")>>}
  \cup {<<"may be", f>> : f \in {f \in {"allowReserved", "allowEmptyValue"} :
                                  PropertyOf(param, "in") = "query" /\ PropertyOf(param, f) = "true"}}

ParamPromises(defs, op, id, param) ==
  LET at == <<"parameter">> \o id
  IN  {Promise("request", op, <<>>, <<"give parameter">> \o id)}
      \cup {Promise("request", op, at, w) : w \in Serialization(param)}
      \cup SchemaPromises(defs, "request", op, at, Kid(param, "schema"))

\* The names of parameters that are not in the path.
ParamIds == {<<in, name>> : in \in {"query", "header"}, name \in PropertyName}

MediaTypeId(key) == <<MediaTypes[key].main, MediaTypes[key].sub>>

ContentPromises(defs, side, op, at, content) ==
  UNION {LET there == at \o MediaTypeId(key)
         IN  {Promise(side, op, at, <<"media type">> \o MediaTypeId(key))}
             \cup SchemaPromises(defs, side, op, there, Kid(content.kids[key], "schema")) :
           key \in DOMAIN content.kids}

BodyPromises(defs, op, operation) ==
  LET body == Kid(operation, "requestBody")
  IN  {Promise("request", op, <<>>, <<"leave out body">>) :
         n \in {n \in {body} : n.is = "undefined" \/ ~IsTrue(Kid(n, "required"))}}
      \cup IF body.is = "undefined" THEN {}
           ELSE {Promise("request", op, <<>>, <<"give body">>), There("request", op, <<"body">>)}
                \cup ContentPromises(defs, "request", op, <<"body">>, Kid(body, "content"))

ResponsePromises(defs, op, code, response) ==
  LET at == <<"response", LowerCase[code]>>
      headers == Kid(response, "headers").kids
  IN  {Promise("response", op, <<>>, at), There("response", op, at)}
      \cup ContentPromises(defs, "response", op, at, Kid(response, "content"))
      \cup UNION {{Promise("response", op, at, <<"header", h>>)}
                     \cup SchemaPromises(defs, "response", op, at \o <<"header", h>>, Kid(headers[h], "schema")) :
                    h \in DOMAIN headers}

OperationPromises(d, op, path, pathItem, operation) ==
  LET params == ParamsOfOperation(path, pathItem, operation)
      Given(id) == {p \in params : ParamId(path, p) = id}
      responses == Kid(operation, "responses").kids
  IN  {Promise("request", <<>>, <<>>, <<"call">> \o op), There("request", op, <<>>), There("response", op, <<>>)}
      \cup UNION {ParamPromises(d.defs, op, ParamId(path, p), p) : p \in params}
      \cup {Promise("request", op, <<>>, <<"leave out">> \o id) :
              id \in {id \in ParamIds : \A p \in Given(id) : MayLeaveOutParam(d.defs, p)}}
      \cup BodyPromises(d.defs, op, operation)
      \cup UNION {ResponsePromises(d.defs, op, code, responses[code]) : code \in DOMAIN responses}

OpenApiPromises(d) ==
  LET paths == Kid(d.root, "paths").kids
      Of(key) == UNION {OperationPromises(d, Append(Mapping!Unify(RootBasePath(d), Entry(key, paths[key])), m),
                                          Segments[key], paths[key], paths[key].kids[m]) :
                          m \in Methods \cap DOMAIN paths[key].kids}
  IN  UNION {Of(key) : key \in DOMAIN paths}

-----------------------------------------------------------------------------
(***************************************************************************)
(* Operations of an AsyncAPI document, by name.                            *)
(***************************************************************************)
PayloadPromises(defs, side, op, at, node) ==
  LET payload == Definition(defs, node)
  IN  IF ~isMultiFormatSchema(payload)
      THEN {Promise(side, op, at, <<"in format", ASYNCAPI_SCHEMA_FORMAT_DEFAULT>>)}
           \cup SchemaPromises(defs, side, op, at, payload)
      ELSE {Promise(side, op, at, <<"in format", PropertyOf(payload, "schemaFormat")>>)}
           \cup SchemaPromises(defs, side, op, at, Kid(payload, "schema"))

MessagePromises(defs, side, op, at, node) ==
  LET message == Definition(defs, node)
      there == at \o <<"message", node.of>>
  IN  {There(side, op, there)}
      \cup {Promise(side, op, there, <<"content type", Kid(message, k).of>>) :
              k \in DOMAIN message.kids \cap {"contentType"}}
      \cup UNION {PayloadPromises(defs, side, op, Append(there, k), Kid(message, k)) :
                    k \in DOMAIN message.kids \cap {"payload", "headers"}}

MessagesPromises(defs, side, op, at, n) ==
  UNION {MessagePromises(defs, side, op, at, m) : m \in ElementsOf(Kid(n, "messages").kids)}

\* A message of an operation is counted on; of a reply, what it holds.
AsyncOperationPromises(d, name, operation) ==
  LET side == PropertyOf(operation, "action")
      back == IF side = "send" THEN "receive" ELSE "send"
      reply == Kid(operation, "reply")
      op == <<name>>
  IN  {Promise("root", <<>>, <<>>, <<"operation", name>>), There("send", op, <<>>), There("receive", op, <<>>),
       Promise(side, op, <<>>, <<"action">>)}
      \cup {Promise(side, op, <<>>, <<"message", m.of>>) : m \in ElementsOf(Kid(operation, "messages").kids)}
      \cup MessagesPromises(d.defs, side, op, <<>>, operation)
      \cup IF reply.is = "undefined" THEN {} ELSE MessagesPromises(d.defs, back, op, <<"reply">>, reply)

AsyncApiPromises(d) ==
  LET operations == Kid(d.root, "operations").kids
  IN  UNION {AsyncOperationPromises(d, name, operations[name]) : name \in DOMAIN operations}

-----------------------------------------------------------------------------
(***************************************************************************)
(* What is lost and what is told.                                          *)
(***************************************************************************)
Promises(d) ==
  IF asked.spec = "openapi" THEN OpenApiPromises(d) \cup {There("request", <<>>, <<>>)}
  ELSE AsyncApiPromises(d) \cup {There("root", <<>>, <<>>)}

Lost ==
  LET before == Promises(asked.before)  after == Promises(asked.after)
  IN  {p \in before \ after : p.what # <<"there">> /\ There(p.side, p.op, p.at) \in after}

SideOf(d) == IF asked.spec = "openapi" /\ d.scope = "root" THEN "request" ELSE d.scope

\* Below the operations; who may call them is another matter.
OfOperation(d) ==
  \/ d.path[1] = "operations"
  \/ d.path[1] = "paths" /\ (Len(d.path) >= 4 /\ d.path[3] # "parameters" => d.path[4] # "security")

Alarms == {d \in diffs : d.type \in {"breaking", "risky"} /\ d.path # <<>> /\ OfOperation(d)}
AlarmOn(side) == \E d \in Alarms : SideOf(d) = side

\* Where a caller may no longer send something, or count on something in what comes back, there is a
\* breaking or risky difference in that direction, also where one schema flows both ways (reversed
\* rules of responseSchemaRules and withDynamicScopeReclassification, the classifiers of
\* openapi3.classify.ts).
ConsumersWarned == Done => \A p \in Lost : AlarmOn(p.side)

\* A default of false or 0 does not count for the classifier of a parameter's "required".
HasFalsyDefault(d) ==
  \E f \in {"false", "0"} :
    <<"left out means", f>> \in {p.what : p \in Promises(d)}

\* A breaking or risky difference in one direction is made only where a caller loses something in it.
WarningsJustified ==
  Done /\ ~HasFalsyDefault(asked.after)
    => \A side \in Sides : AlarmOn(side) => \E p \in Lost : p.side = side

-----------------------------------------------------------------------------
(***************************************************************************)
(* Who may call an operation: those who hold all the schemes of one of its *)
(* requirements; all, if there is none.                                    *)
(***************************************************************************)
RequirementsOf(d, operation) ==
  LET security == IF Has(operation, "security") THEN Kid(operation, "security") ELSE RootSecurity(d)
  IN  IF security.is = "undefined" \/ security.kids = <<>> THEN {{}}
      ELSE {DOMAIN security.kids[i].kids : i \in DOMAIN security.kids}

OperationsOf(d) ==
  LET paths == Kid(d.root, "paths").kids
  IN  UNION {{<<key, m>> : m \in Methods \cap DOMAIN paths[key].kids} : key \in DOMAIN paths}

OperationAt(d, at) == Kid(Kid(d.root, "paths"), at[1]).kids[at[2]]

ShutOut(at) ==
  \E held \in RequirementsOf(asked.before, OperationAt(asked.before, at)) :
    \A asks \in RequirementsOf(asked.after, OperationAt(asked.after, at)) : ~(asks \subseteq held)

\* Whoever is shut out of an operation by its own requirements is told by a breaking difference in
\* them (operationSecurityClassifyRule and what is below it), while the document's stay the same.
AccessWarned ==
  Done /\ asked.spec = "openapi"
    => \A at \in OperationsOf(asked.before) \cap OperationsOf(asked.after) :
         ShutOut(at) => \E d \in diffs : /\ d.type = "breaking"
                                         /\ Len(d.path) >= 4 /\ d.path[2] = at[1] /\ d.path[3] = at[2]
                                         /\ d.path[4] = "security"

=============================================================================
