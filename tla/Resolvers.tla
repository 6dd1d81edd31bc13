------------------------------- MODULE Resolvers -------------------------------
(***************************************************************************)
(* A mapping resolver is asked once about two objects or two arrays        *)
(* (core/compare.ts:374-378) and answers which keys or indexes belong      *)
(* together.  Which resolver serves which node is said by the rules of the *)
(* engines.                                                                *)
(***************************************************************************)
EXTENDS CoreMapping, OpenApiMapping

CONSTANTS
  Equality,    \* the pairs of items the equality function accepts
  Identity,    \* Identity[x]: the logical key of item x, or NoIdentity
  NoIdentity,  \* undefined: the element has no key
  Query,       \* what is asked: [resolver, before, after, context]
  Pending      \* no answer yet

IsSequence(s) == Len(s) \in Nat /\ DOMAIN s = 1 .. Len(s)

\* The keys of an object.
NoneTwice(s) == \A i, j \in DOMAIN s : s[i] = s[j] => i = j

\* The resolvers that are asked about the keys of objects.
ByKeys == {"object", "single", "methods", "media", "responses"}

\* What a path is made of.  A base path has no parameters: the variables of a server are
\* filled in.  An asterisk is not written in either.
IsPath(path) == path \in Seq(ElementsOf(path) \ {Star})
IsBase(base) == base \in Seq(ElementsOf(base) \ (ParamName \cup {Star}))

\* The paths of a document, under its own servers or those of the path item.
ArePaths(entries, root) ==
  /\ IsBase(root)
  /\ \A i \in DOMAIN entries :
        /\ IsPath(entries[i].path)
        /\ entries[i].base = Undeclared \/ IsBase(entries[i].base)
        /\ \A j \in DOMAIN entries : entries[i].path = entries[j].path => i = j

\* The parameters of an operation: a parameter is its location and name, those of the path
\* are named in it once.
AreParameters(list, path) ==
  /\ IsSequence(ParamsOf(path)) /\ NoneTwice(ParamsOf(path))
  /\ \A i, j \in DOMAIN list : list[i].in = list[j].in /\ list[i].name = list[j].name => i = j
  /\ \A i \in DOMAIN list : list[i].in = "path" => list[i].name \in ElementsOf(ParamsOf(path))

\* Parameters are asked about under paths that pathMappingResolver paired.
ASSUME ResolversAssumption ==
  /\ \A q \in Query :
        /\ IsSequence(q.before) /\ IsSequence(q.after)
        /\ q.resolver \in ByKeys => NoneTwice(q.before) /\ NoneTwice(q.after)
        /\ q.resolver = "responses" => ElementsOf(q.before) \cup ElementsOf(q.after) \subseteq DOMAIN Lower
        /\ q.resolver = "paths" =>
              ArePaths(q.before, q.context.before) /\ ArePaths(q.after, q.context.after)
        /\ q.resolver = "parameters" =>
              /\ AreParameters(q.before, q.context.before) /\ AreParameters(q.after, q.context.after)
              /\ DOMAIN ParamsOf(q.context.before) = DOMAIN ParamsOf(q.context.after)
  /\ \A code \in DOMAIN Lower :
        Lower[code] \in DOMAIN Lower /\ Lower[Lower[code]] = Lower[code]

VARIABLES
  asked,   \* the query
  answer   \* the MapKeysResult

vars == <<asked, answer>>

-----------------------------------------------------------------------------
Init == asked \in Query /\ answer = Pending

Answer(resolver, result) ==
  /\ asked.resolver = resolver
  /\ answer = Pending
  /\ answer' = result
  /\ UNCHANGED asked

\* The keys of the items of an array.
KeysOfItems(items) == [i \in DOMAIN items |-> Identity[items[i]]]

MapByPosition == Answer("array", arrayMappingResolver(asked.before, asked.after))
MapUniqueItems ==
  Answer("uniqueItems", customUniqueItemsArrayMappingResolver(Equality, asked.before, asked.after))
MapByKey ==
  Answer("key", createKeyMappingResolver(KeysOfItems(asked.before), KeysOfItems(asked.after), NoIdentity))
MapProperties == Answer("object", objectMappingResolver(asked.before, asked.after))

\* The resolvers of the paths are followed by the one for synthetic diffs, if that is asked for.
WithSyntheticDiffs(r, pathsAfter) ==
  IF asked.context.openApiPathItemPerOperationDiffs
  THEN syntheticDiffsResolver(r, asked.context.operations, pathsAfter) ELSE r

PathsOf(entries) == {entries[i].path : i \in DOMAIN entries}

MapPaths ==
  Answer("paths", WithSyntheticDiffs(
                    pathMappingResolver(asked.before, asked.after, asked.context),
                    PathsOf(asked.after)))
MapSingleOperation ==
  Answer("single", WithSyntheticDiffs(
                     singleOperationPathMappingResolver(asked.before, asked.after),
                     ElementsOf(asked.after)))
MapMethods == Answer("methods", methodMappingResolver(asked.before, asked.after))
MapParameters ==
  Answer("parameters", paramMappingResolver(asked.before, asked.after, asked.context))
MapMediaTypes == Answer("media", contentMediaTypeMappingResolver(asked.before, asked.after))
MapResponses ==
  Answer("responses", apihubCaseInsensitiveKeyMappingResolver(asked.before, asked.after))

Next ==
  \/ MapByPosition \/ MapUniqueItems \/ MapByKey \/ MapProperties
  \/ MapPaths \/ MapSingleOperation \/ MapMethods \/ MapParameters
  \/ MapMediaTypes \/ MapResponses

Spec == Init /\ [][Next]_vars

-----------------------------------------------------------------------------
(***************************************************************************)
(* Properties                                                              *)
(***************************************************************************)
Answered(resolver) == asked.resolver = resolver /\ answer # Pending

\* Objects that are answered in keys as they are written, and arrays.
AnsweredInKeys ==
  \/ Answered("object") \/ Answered("methods")
  \/ Answered("single") /\ ~asked.context.openApiPathItemPerOperationDiffs
AnsweredInIndexes == Answered("array") \/ Answered("uniqueItems") \/ Answered("key")

(***************************************************************************)
(* These resolvers answer as the comparison needs it to: each key is       *)
(* mapped, removed or added and nothing twice, also when an array holds    *)
(* equal elements or several under one key (mapping.ts:64, "each after     *)
(* index is consumed at most once"), and a removed key of an object is not *)
(* the key of anything else in the merged object.                          *)
(***************************************************************************)
AnswersContract ==
  /\ AnsweredInKeys => EachKeyOnce(answer, ElementsOf(asked.before), ElementsOf(asked.after))
  /\ AnsweredInIndexes => EachKeyOnce(answer, DOMAIN asked.before, DOMAIN asked.after)
  /\ AnsweredInKeys \/ AnsweredInIndexes => OneToOne(answer)
  /\ Answered("object") \/ Answered("methods") => RemovedKeepTheirKeys(answer)

(***************************************************************************)
(* An element is never reported removed while an equal one is reported     *)
(* added, so for arrays with set semantics (required, enum, tags) a        *)
(* reorder, with duplicates too, is no difference.                         *)
(***************************************************************************)
NoEqualLeftOver ==
  Answered("uniqueItems") =>
    \A i \in answer.removed, j \in answer.added :
       <<asked.before[i], asked.after[j]>> \notin Equality

\* Items of after told apart by their keys.
DistinctKeys(s) ==
  \A i, j \in DOMAIN s : Identity[s[i]] = Identity[s[j]] /\ Identity[s[i]] # NoIdentity => i = j

(***************************************************************************)
(* Matching by key is right when keys are keys: if no two elements of      *)
(* after have the same one, an element is reported removed or added only   *)
(* when the other side has no element with its key, or a duplicate in      *)
(* before has taken it already.                                            *)
(***************************************************************************)
KeyedPairsFound ==
  Answered("key") /\ DistinctKeys(asked.after) =>
    /\ \A i \in DOMAIN answer.mapped :
          /\ Identity[asked.before[i]] = Identity[asked.after[answer.mapped[i]]]
          /\ Identity[asked.before[i]] # NoIdentity
    /\ \A i \in answer.removed, j \in DOMAIN asked.after :
          Identity[asked.before[i]] = Identity[asked.after[j]]
            /\ Identity[asked.after[j]] # NoIdentity
          => \E l \in DOMAIN answer.mapped : l < i /\ answer.mapped[l] = j

\* The URL under which a path is served, and when two of them are the same but for the
\* names of parameters.
Url(entry, root) == (IF entry.base = Undeclared THEN root ELSE entry.base) \o entry.path
UrlBefore(i) == Url(asked.before[i], asked.context.before)
UrlAfter(j) == Url(asked.after[j], asked.context.after)

SameEndpoint(p, q) ==
  /\ Len(p) = Len(q)
  /\ \A i \in DOMAIN p : p[i] = q[i] \/ {p[i], q[i]} \subseteq ParamName

EndpointsDiffer ==
  /\ \A i, j \in DOMAIN asked.before : SameEndpoint(UrlBefore(i), UrlBefore(j)) => i = j
  /\ \A i, j \in DOMAIN asked.after : SameEndpoint(UrlAfter(i), UrlAfter(j)) => i = j

(***************************************************************************)
(* A path keeps its identity when its parameters are renamed and when its  *)
(* prefix moves between the key, the servers of the path item and the      *)
(* servers of the document: exactly the paths of the same endpoint are     *)
(* mapped, and each path is told once.                                     *)
(***************************************************************************)
SameEndpointMapped ==
  Answered("paths") /\ EndpointsDiffer /\ ~asked.context.openApiPathItemPerOperationDiffs =>
    /\ EachKeyOnce(answer, PathsOf(asked.before), PathsOf(asked.after))
    /\ OneToOne(answer)
    /\ \A i \in DOMAIN asked.before, j \in DOMAIN asked.after :
          SameEndpoint(UrlBefore(i), UrlAfter(j)) <=>
            /\ asked.before[i].path \in DOMAIN answer.mapped
            /\ answer.mapped[asked.before[i].path] = asked.after[j].path

\* No name of a path parameter is taken over by another parameter of the path.
NoNameTakenOver ==
  LET renamed == mapPathParams(asked.context)
  IN  \A n \in DOMAIN renamed : renamed[n] # n => renamed[n] \notin DOMAIN renamed

(***************************************************************************)
(* Parameters are paired one to one, path parameters by their position in  *)
(* the path whatever they are called and wherever they are listed, the     *)
(* others by their location and name.                                      *)
(***************************************************************************)
ParametersPaired ==
  Answered("parameters") /\ NoNameTakenOver =>
    /\ EachKeyOnce(answer, DOMAIN asked.before, DOMAIN asked.after)
    /\ OneToOne(answer)
    /\ \A i \in DOMAIN asked.before, j \in DOMAIN asked.after :
          LET b == asked.before[i]
              a == asked.after[j]
              paths == asked.context
              inPlace == \E x \in DOMAIN ParamsOf(paths.before) \cap DOMAIN ParamsOf(paths.after) :
                           ParamsOf(paths.before)[x] = b.name /\ ParamsOf(paths.after)[x] = a.name
          IN  (i \in DOMAIN answer.mapped /\ answer.mapped[i] = j) <=>
                /\ b.in = a.in
                /\ IF b.in = "path" THEN inPlace ELSE b.name = a.name

(***************************************************************************)
(* Media types: told once each; a type that both sides declare is compared *)
(* with itself however well another fits it; what is left over on both     *)
(* sides has different base types, and is incompatible if it is one each.  *)
(***************************************************************************)
MediaTypesPaired ==
  Answered("media") =>
    LET B == ElementsOf(asked.before)
        A == ElementsOf(asked.after)
    IN  /\ EachKeyOnce(answer, B, A) /\ OneToOne(answer) /\ RemovedKeepTheirKeys(answer)
        /\ \A x \in B \cap A : answer.mapped[x] = x
        /\ \A x \in answer.removed, y \in answer.added :
              /\ getMediaTypeBase(x) # getMediaTypeBase(y)
              /\ answer.removed = {x} /\ answer.added = {y} => ~isWildcardCompatible(x, y)

(***************************************************************************)
(* Response codes are matched one to one: a code is never left over while  *)
(* the same code in another case is left over on the other side.           *)
(***************************************************************************)
ResponsesPaired ==
  Answered("responses") =>
    /\ OneToOne(answer)
    /\ \A k \in DOMAIN answer.mapped : Lower[answer.mapped[k]] = Lower[k]
    /\ \A x \in answer.removed, y \in answer.added : Lower[x] # Lower[y]

=============================================================================
