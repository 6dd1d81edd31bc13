------------------------------ MODULE MCResolvers ------------------------------
(***************************************************************************)
(* Queries for TLC.                                                        *)
(***************************************************************************)
EXTENDS Resolvers

CONSTANTS
  i1, i2, i3, i4, k1, k2,
  api, users, id, name, uid, get, summary, json, text

-----------------------------------------------------------------------------
(***************************************************************************)
(* Arrays of up to three items.  i1 and i2 are deep-equal, both are keyed *)
(* by k1; i3 is keyed by k2; i4 has no key.                                *)
(***************************************************************************)
MCItem == {i1, i2, i3, i4}
MCEquality == {<<x, x>> : x \in MCItem} \cup {<<i1, i2>>, <<i2, i1>>}
MCIdentity == [x \in MCItem |-> IF x \in {i1, i2} THEN k1 ELSE IF x = i3 THEN k2 ELSE NoIdentity]

Arrays == UNION {[1 .. n -> MCItem] : n \in 0 .. 3}

ArrayQueries ==
  [resolver : {"array", "uniqueItems", "key"}, before : Arrays, after : Arrays,
   context : {<<>>}]

KeyedQueries == {x \in ArrayQueries : x.resolver = "key"}

\* Objects and lists of up to two different keys.
Distinct(S) == {<<>>} \cup {<<x>> : x \in S} \cup {t \in S \X S : t[1] # t[2]}

ObjectQueries ==
  [resolver : {"object"}, before : Distinct({name, summary, id}),
   after : Distinct({name, summary, id}), context : {<<>>}]

-----------------------------------------------------------------------------
(***************************************************************************)
(* Documents of OpenAPI.                                                   *)
(***************************************************************************)
MCParamName == {id, name, uid}

\* "4XX" and "4xx", and two codes that have no case.
MCLower == [code \in {"4XX", "4xx", "200", "404"} |-> IF code = "4XX" THEN "4xx" ELSE code]

MCPath == {<<users>>, <<api, users>>, <<users, id>>, <<users, name>>, <<users, id, name>>}
MCBase == {<<>>, <<api>>}

Entries == {s \in UNION {[1 .. n -> [path : MCPath, base : MCBase \cup {Undeclared}]] : n \in 0 .. 2} :
              Len(s) = 2 => s[1].path # s[2].path}

\* A path item has one operation or, where it ends in a parameter, none.
Operations == [p \in MCPath |-> IF p[Len(p)] \in MCParamName THEN {} ELSE {get}]

PathQueries ==
  [resolver : {"paths"}, before : Entries, after : {s \in Entries : Len(s) = 1},
   context : [before : MCBase, after : MCBase, operations : {Operations},
              openApiPathItemPerOperationDiffs : BOOLEAN]]

SingleQueries ==
  [resolver : {"single"}, before : Distinct(MCPath), after : Distinct(MCPath),
   context : [operations : {Operations}, openApiPathItemPerOperationDiffs : BOOLEAN]]

MethodQueries ==
  [resolver : {"methods"}, before : Distinct({get, summary, id}),
   after : Distinct({get, summary, id}), context : {<<>>}]

MediaTypes == [main : {text, Star}, sub : {json, Star}, params : {"", "utf-8"}]

MediaQueries ==
  [resolver : {"media"}, before : Distinct(MediaTypes), after : Distinct(MediaTypes),
   context : {<<>>}]

ResponseQueries ==
  [resolver : {"responses"}, before : Distinct(DOMAIN MCLower),
   after : Distinct(DOMAIN MCLower), context : {<<>>}]

\* A document declares the parameters of its path, in any order, and maybe others.
ParameterLists(path) ==
  {s \in Distinct([in : {"path", "query"}, name : MCParamName]) :
     ElementsOf(path) \cap MCParamName = {s[i].name : i \in {n \in DOMAIN s : s[n].in = "path"}}}

\* Paths that pathMappingResolver pairs, which unify alike.
PathPairs ==
  {<<users, id>>} \X {<<users, id>>, <<users, name>>}
    \cup {<<id, name>>} \X {<<id, name>>, <<id, uid>>, <<uid, name>>, <<name, id>>}

ParameterQueries ==
  UNION {[resolver : {"parameters"}, before : ParameterLists(p[1]), after : ParameterLists(p[2]),
          context : {[before |-> p[1], after |-> p[2]]}] : p \in PathPairs}

-----------------------------------------------------------------------------
Queries ==
  ArrayQueries \cup ObjectQueries \cup PathQueries \cup SingleQueries \cup MethodQueries
    \cup MediaQueries \cup ResponseQueries \cup ParameterQueries

=============================================================================
