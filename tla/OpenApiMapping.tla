----------------------------- MODULE OpenApiMapping -----------------------------
(***************************************************************************)
(* The mapping resolvers of the OpenAPI rules (openapi3.mapping.ts and     *)
(* mapping.ts): paths under base paths, methods, parameters, media types   *)
(* and response codes.  Objects are sequences of distinct keys, in the     *)
(* order of the text, which some of these resolvers depend on.             *)
(*                                                                         *)
(* A path is a sequence of segments; slashes are not told apart.           *)
(***************************************************************************)
EXTENDS MapKeys, FiniteSets

CONSTANTS
  ParamName,  \* names of parameters; {name} in a path is the name itself
  Star,       \* PATH_PARAM_UNIFIED_PLACEHOLDER, and "*" in a media type
  Lower,      \* Lower[code]: the response code in lower case
  Undeclared  \* no servers

-----------------------------------------------------------------------------
(***************************************************************************)
(* Paths.  An entry is [path, base]: the key and the base path of the      *)
(* servers of its path item, or Undeclared; root is the one of the         *)
(* document's servers, empty when there are none.                          *)
(***************************************************************************)
hidePathParamNames(path) ==
  [i \in DOMAIN path |-> IF path[i] \in ParamName THEN Star ELSE path[i]]

\* Mutant: the servers of a path item do not override the root ones.
UnifyUnderRoot(root, entry) == root \o hidePathParamNames(entry.path)

\* createPathUnifier: path-level servers come before root-level ones.
Unify(root, entry) ==
  (IF entry.base = Undeclared THEN root ELSE entry.base) \o hidePathParamNames(entry.path)

\* Object.fromEntries: of the paths that unify alike the last one stays.
UnifiedToKey(root, entries) ==
  LET unified == {Unify(root, entries[i]) : i \in DOMAIN entries}
      IsLast(u, i) == /\ Unify(root, entries[i]) = u
                      /\ \A j \in DOMAIN entries : Unify(root, entries[j]) = u => j <= i
  IN  [u \in unified |-> entries[CHOOSE i \in DOMAIN entries : IsLast(u, i)].path]

pathMappingResolver(before, after, root) ==
  LET b == UnifiedToKey(root.before, before)
      a == UnifiedToKey(root.after, after)
      both == DOMAIN b \cap DOMAIN a
      Key(u) == CHOOSE v \in both : b[v] = u
  IN  MapKeysResult({a[u] : u \in DOMAIN a \ both}, {b[u] : u \in DOMAIN b \ both},
                    [x \in {b[u] : u \in both} |-> a[Key(x)]])

(***************************************************************************)
(* syntheticDiffsResolver: a removed path item that has operations is      *)
(* mapped to an empty one put into the after document under the same key,  *)
(* so that each operation is reported.  A path item that is there already  *)
(* stays: "compared" says what each such path item is compared with.       *)
(***************************************************************************)
syntheticDiffsResolver(r, operations, after) ==
  LET split == {p \in r.removed : operations[p] # {}}
  IN  [added |-> r.added, removed |-> r.removed \ split,
       mapped |-> [p \in DOMAIN r.mapped \cup split |->
                     IF p \in split THEN p ELSE r.mapped[p]],
       compared |-> [p \in split |-> IF p \in after THEN "its namesake" ELSE "nothing"]]

\* The i-th key of one object goes to the i-th of the other.
singleOperationPathMappingResolver(before, after) ==
  MapKeysResult({after[i] : i \in DOMAIN after \ DOMAIN before},
                {before[i] : i \in DOMAIN before \ DOMAIN after},
                [x \in {before[i] : i \in DOMAIN before \cap DOMAIN after} |->
                   after[CHOOSE i \in DOMAIN before : before[i] = x]])

methodMappingResolver(before, after) ==
  LET b == ElementsOf(before)  a == ElementsOf(after)
  IN  MapKeysResult(a \ b, b \ a, [k \in b \cap a |-> k])

-----------------------------------------------------------------------------
(***************************************************************************)
(* Parameters are [in, name].  The context of a query is the pair of paths *)
(* the operation is under.                                                 *)
(***************************************************************************)
ParamsOf(path) == SelectSeq(path, LAMBDA segment : segment \in ParamName)

\* The i-th parameter of one path is the i-th of the other; of two alike the last one counts.
mapPathParams(paths) ==
  LET b == ParamsOf(paths.before)
      a == ParamsOf(paths.after)
      both == DOMAIN b \cap DOMAIN a
      Where(name) == CHOOSE i \in both : b[i] = name /\ \A j \in both : b[j] = name => j <= i
  IN  [name \in {b[i] : i \in both} |-> a[Where(name)]]

\* Mutant: path parameters are matched by their names only.
SameNames(b, a, renamed) == b.in = a.in /\ b.name = a.name

SameParameter(b, a, renamed) ==
  /\ b.in = a.in
  /\ \/ b.name = a.name
     \/ b.in = "path" /\ b.name \in DOMAIN renamed /\ renamed[b.name] = a.name

\* findIndex looks at all of after, also at what is already mapped.
paramMappingResolver(before, after, paths) ==
  LET renamed == mapPathParams(paths)
      Match(r, i) ==
        LET same == {j \in DOMAIN after : SameParameter(before[i], after[j], renamed)}
        IN  IF same = {} THEN r ELSE Pairing(r, i, Least(same))
  IN  FoldLeft(Match, Unmatched(DOMAIN before, DOMAIN after), Indexes(before))

-----------------------------------------------------------------------------
(***************************************************************************)
(* Media types are [main, sub, params].  Three rounds: the whole type, the *)
(* type without parameters, and wildcards if one is left on either side.   *)
(***************************************************************************)
getMediaTypeBase(mediaType) == [main |-> mediaType.main, sub |-> mediaType.sub]

isWildcardCompatible(b, a) ==
  /\ b.main = a.main \/ b.main = Star \/ a.main = Star
  /\ b.sub = a.sub \/ b.sub = Star \/ a.sub = Star

\* One round; before and after are the types as the round compares them.
mapExactMatches(r, before, after) ==
  LET Match(acc, i) ==
        LET same == {j \in acc.added : after[j] = before[i]}
        IN  IF i \notin acc.removed \/ same = {} THEN acc ELSE Pairing(acc, i, Least(same))
  IN  FoldLeft(Match, r, Indexes(before))

\* Mutant: any compatible pair that is left is mapped.
MapFirstWildcard(r, before, after) ==
  LET pairs == {p \in r.removed \X r.added : isWildcardCompatible(before[p[1]], after[p[2]])}
  IN  IF pairs = {} THEN r
      ELSE LET pair == CHOOSE x \in pairs : TRUE IN Pairing(r, pair[1], pair[2])

MapSingleWildcard(r, before, after) ==
  LET pairs == {p \in r.removed \X r.added : isWildcardCompatible(before[p[1]], after[p[2]])}
      single == Cardinality(r.removed) = 1 /\ Cardinality(r.added) = 1
  IN  IF ~single \/ pairs = {} THEN r
      ELSE LET pair == CHOOSE x \in pairs : TRUE IN Pairing(r, pair[1], pair[2])

\* The loops run over indexes, the answer is told in keys.
InKeys(r, before, after) ==
  MapKeysResult({after[j] : j \in r.added}, {before[i] : i \in r.removed},
                [x \in {before[i] : i \in DOMAIN r.mapped} |->
                   after[r.mapped[CHOOSE i \in DOMAIN before : before[i] = x]]])

contentMediaTypeMappingResolver(before, after) ==
  LET unmatched == Unmatched(DOMAIN before, DOMAIN after)
      Bases(types) == [i \in DOMAIN types |-> getMediaTypeBase(types[i])]
      whole == mapExactMatches(unmatched, before, after)
      bases == mapExactMatches(whole, Bases(before), Bases(after))
  IN  InKeys(MapSingleWildcard(bases, before, after), before, after)

(***************************************************************************)
(* Response codes, whatever their case.  A removed code is told in lower   *)
(* case.                                                                   *)
(***************************************************************************)
\* Mutant: the code of after is not put into lower case.
SameLowerBefore(b, a) == Lower[b] = a

SameCode(b, a) == Lower[b] = Lower[a]

apihubCaseInsensitiveKeyMappingResolver(before, after) ==
  LET Match(r, i) ==
        LET same == {j \in r.added : SameCode(before[i], after[j])}
        IN  IF same = {} THEN r ELSE Pairing(r, i, Least(same))
      r == FoldLeft(Match, Unmatched(DOMAIN before, DOMAIN after), Indexes(before))
  IN  [InKeys(r, before, after) EXCEPT !.removed = {Lower[k] : k \in @}]

=============================================================================
