----------------------------- MODULE GraphApiChanges -----------------------------
(***************************************************************************)
(* What the comparison of two GraphQL schemas tells a client, held against *)
(* what the client may do under either: the requests it may send and what  *)
(* it may count on in the answers.  The verdicts asked for are those of    *)
(* test/compatibility-suites/graphql.                                      *)
(***************************************************************************)
EXTENDS GraphApiRules, FiniteSets

CONSTANTS Depth   \* how many types deep the client looks into a recursive type

Names == {"a", "b", "V", "W", "X", "O", "P"}   \* of arguments, properties, values and members
Nodes(n, property) == Kid(n, property).kids

-----------------------------------------------------------------------------
(***************************************************************************)
(* What flows in.  A client may give an input or leave it out, and what is *)
(* left out means the default; null is a way to leave out.                 *)
(***************************************************************************)
IsNullable(usage) == Kid(usage, "nullable").of = "true"
HasDefault(usage) == Has(usage, "default")
Meaning(usage) == IF HasDefault(usage) THEN Kid(usage, "default").of ELSE "null"

LeavingOut(at, inputs) ==
  {<<"leave out">> \o at \o <<name>> :
     name \in {n \in Names : Has(inputs, n) => LET u == Kid(inputs, n)
                                               IN  IsNullable(u) \/ HasDefault(u)}}
  \cup {<<"leaving out means", Meaning(Kid(inputs, name))>> \o at \o <<name>> :
          name \in {n \in Names : Has(inputs, n) /\ (IsNullable(Kid(inputs, n))
                                                     \/ HasDefault(Kid(inputs, n)))}}

RECURSIVE Type(_, _, _, _, _)

Usage(defs, at, usage, scope, depth) ==
  (IF scope = "output" /\ ~IsNullable(usage) THEN {<<"never null">> \o at} ELSE {})
  \cup Type(defs, at, Kid(usage, "typeDef"), scope, depth)

Inputs(defs, at, inputs, scope, depth) ==
  LeavingOut(at, inputs) \cup
  UNION {{<<"give">> \o at \o <<name>>}
           \cup Usage(defs, at \o <<name>>, Kid(inputs, name), scope, depth) : name \in DOMAIN inputs.kids}

Operation(defs, at, method, depth) ==
  {<<"select">> \o at}
  \cup Inputs(defs, at \o <<"args">>, Kid(method, "args"), "args", depth)
  \cup Usage(defs, at, Kid(method, "output"), "output", depth)

\* What flows out; and what never does, told apart as far as names go.
Type(defs, at, typeDef, scope, depth) ==
  LET type == Kid(Definition(defs, typeDef), "type")
      kind == KindOf(type)
      members == {PropertyOf(Definition(defs, m), "title") : m \in ElementsOf(Nodes(type, "oneOf"))}
  IN  {<<"is a", kind>> \o at} \cup
      (IF depth = 0 THEN {} ELSE
       CASE kind = "enum" ->
              {<<"value", v>> \o at : v \in {v \in Names : scope = "args" /\ Has(Kid(type, "values"), v)}}
              \cup {<<"no value", v>> \o at :
                      v \in {v \in Names : scope = "output" /\ ~Has(Kid(type, "values"), v)}}
         [] kind = "inputObject" -> Inputs(defs, at, Kid(type, "properties"), scope, depth - 1)
         [] kind \in {"object", "interface"} ->
              UNION {Operation(defs, at \o <<m>>, Nodes(type, "methods")[m], depth - 1) :
                       m \in DOMAIN Nodes(type, "methods")}
         [] kind = "union" ->
              {<<"member", m>> \o at : m \in members}
              \cup {<<"no member", m>> \o at : m \in Names \ members}
              \cup UNION {Type(defs, at \o <<PropertyOf(Definition(defs, m), "title")>>, m, scope, depth - 1) :
                            m \in ElementsOf(Nodes(type, "oneOf"))}
         [] kind = "array" -> Usage(defs, at \o <<"items">>, Kid(type, "items"), scope, depth - 1)
         [] OTHER -> {})

\* A client writes a directive where it may stand in a request.
Directive(name, directive) ==
  IF ~isRuntimeDirectiveLocations(Kid(directive, "locations")) THEN {}
  ELSE {<<"write", name>>}
       \cup {<<"write at", Nodes(directive, "locations")[i].of, name>> :
               i \in {i \in DOMAIN Nodes(directive, "locations") :
                        Nodes(directive, "locations")[i].of \in RUNTIME_DIRECTIVE_LOCATIONS}}
       \cup {<<"give", name, a>> : a \in DOMAIN Nodes(directive, "args")}
       \cup {<<"leave out", name, a>> :
               a \in {a \in Names : Has(Kid(directive, "args"), a)
                                      => IsNullable(Kid(Kid(directive, "args"), a))}}

\* An interface or a type as such: a client may name it.
Component(defs, group, name, component) ==
  IF group = "directives" THEN Directive(name, Definition(defs, component))
  ELSE {<<"name", group, name>>} \cup Type(defs, <<group, name>>, component, "components", 1)

Promises(d) ==
  UNION {UNION {Operation(d.defs, <<group, name>>, Kid(d.root, group).kids[name], Depth) :
                  name \in DOMAIN Kid(d.root, group).kids} :
           group \in {"queries", "mutations", "subscriptions"} \cap DOMAIN d.root.kids}
  \cup UNION {UNION {Component(d.defs, group, name, Kid(Kid(d.root, "components"), group).kids[name]) :
                       name \in DOMAIN Kid(Kid(d.root, "components"), group).kids} :
                group \in DOMAIN Nodes(d.root, "components")}

-----------------------------------------------------------------------------
(***************************************************************************)
(* The suites take a required argument with a default for one that must be *)
(* given ("Remove default value of required argument": nonBreaking).       *)
(***************************************************************************)
IsRequiredWithDefault(n) == n.is = "object" /\ Has(n, "nullable") /\ ~IsNullable(n) /\ HasDefault(n)

\* A union of one member, which is taken for the member itself.
IsSingletonUnion(n) == n.is = "object" /\ Has(n, "oneOf") /\ Len(Nodes(n, "oneOf")) = 1

RECURSIVE Holds(_, _)
Holds(what, n) ==
  \/ what = "required with default" /\ IsRequiredWithDefault(n)
  \/ what = "singleton union" /\ IsSingletonUnion(n)
  \/ \E k \in DOMAIN n.kids : Holds(what, n.kids[k])

Somewhere(what, d) == Holds(what, d.root) \/ \E name \in DOMAIN d.defs : Holds(what, d.defs[name])

Lost(x) == Promises(x.before) \ Promises(x.after)
Requests(x) == {p \in Lost(x) : p[1] # "no value"}

Told(type) == \E d \in diffs : d.type = type

\* Whatever a client could do or count on and no longer can is told by a breaking difference:
\* operations, arguments, properties, values, members, directives that go; what becomes required,
\* or is left out with another meaning; answers that may be null (the classifiers of
\* graphapi.rules.ts in their scopes).
ClientsWarned ==
  Done /\ ~Somewhere("required with default", asked.before)
       /\ ~Somewhere("singleton union", asked.after)
       /\ Requests(asked) # {}
    => Told("breaking")

\* A breaking difference is made only where a client loses something.
AlarmJustified ==
  Done /\ ~Somewhere("required with default", asked.after) /\ Told("breaking") => Requests(asked) # {}

\* "Risky" is for a value an answer never had, and for nothing else; also where the same enum is
\* the type of an argument (enumValueClassifier by scope).
RiskyIffNewValue ==
  Done => (Told("risky") <=> \E p \in Lost(asked) : p[1] = "no value" /\ <<"is a", "enum">> \o SubSeq(p, 3, Len(p)) \in Promises(asked.after))

=============================================================================
