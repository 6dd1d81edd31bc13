---------------------------------- MODULE Jso ----------------------------------
(***************************************************************************)
(* The input of one comparison: two normalized documents, the rules that   *)
(* govern their nodes, and what a pair of nodes means to the comparison.   *)
(*                                                                         *)
(* A document is a graph of objects and arrays (Node) with primitive       *)
(* values (Leaf) at its rim.  A node may be held under several keys (a     *)
(* resolved $ref) and may hold an ancestor (a recursive schema).           *)
(*                                                                         *)
(* Everything here is constant-level: d is the pair of documents.          *)
(***************************************************************************)
EXTENDS Naturals, FiniteSets

CONSTANTS
  Node,          \* the objects and arrays of both documents
  Leaf,          \* the primitive values
  Key,           \* property keys, and array indexes (a subset of Nat)
  Path,          \* declaration paths
  NoPath,        \* the empty path list: not declared on that side, or synthetic
  Scope,         \* compare scopes: request, response, ...
  RootScope,     \* COMPARE_SCOPE_ROOT
  Element,       \* names of the custom scope elements
  ElementValue,  \* the values their providers answer
  Unset,         \* undefined
  RootKey,       \* JSO_ROOT
  BeforeRoot,    \* the object holding the before document under RootKey
  AfterRoot,     \* the object holding the after document under RootKey
  Rule           \* Rule[k]: the rule a node reached under key k is subject to

Value == Node \cup Leaf

CustomScope == [Element -> ElementValue \cup {Unset}]

EMPTY_CUSTOM_SCOPE == [e \in Element |-> Unset]

CompareRule ==
  [ignoreDifference    : BOOLEAN,
   ignoreKeyDifference : BOOLEAN,
   ignoreAddRemove     : BOOLEAN,
   newCompareScope     : Scope \cup {Unset},
   patchAt             : CustomScope]

(***************************************************************************)
(* A document pair.  at[o] is what node o holds, decl[o][k] where the      *)
(* value o holds under k is declared, default[o] the keys whose value the  *)
(* normalization filled in, array the nodes that are arrays, and           *)
(* map[<<b, a>>] what the mapping resolver of the rule answers for b and a *)
(*                                                                         *)
(* What every mapping resolver owes the engine: each before key is mapped  *)
(* to at most one after key, no after key is taken twice, and a key that   *)
(* both objects hold is never left as removed, so that in the merged       *)
(* object no entry lands on the key of a removed one.                      *)
(***************************************************************************)
ResolverContract(d, b, a) ==
  LET m == d.map[<<b, a>>]
  IN  /\ DOMAIN m \subseteq DOMAIN d.at[b]
      /\ \A k \in DOMAIN m : m[k] \in DOMAIN d.at[a]
      /\ \A k, l \in DOMAIN m : m[k] = m[l] => k = l
      /\ b \notin d.array =>
            DOMAIN d.at[b] \cap DOMAIN d.at[a] \subseteq DOMAIN m

IsDocumentPair(d) ==
  /\ DOMAIN d.at = Node /\ DOMAIN d.decl = Node /\ DOMAIN d.default = Node
  /\ d.array \subseteq Node
  /\ \A o \in Node :
        /\ DOMAIN d.at[o] \subseteq Key /\ DOMAIN d.decl[o] = DOMAIN d.at[o]
        /\ d.default[o] \subseteq DOMAIN d.at[o]
        /\ \A k \in DOMAIN d.at[o] : d.at[o][k] \in Value /\ d.decl[o][k] \in Path
        /\ o \in d.array => DOMAIN d.at[o] \subseteq Nat
  /\ DOMAIN d.map = Node \X Node
  /\ \A b, a \in Node : ResolverContract(d, b, a)
  /\ \A o \in Node : IsFiniteSet(DOMAIN d.at[o])
  /\ \A o \in Node : \A k \in DOMAIN d.at[o] : d.at[o][k] \notin {BeforeRoot, AfterRoot}
  /\ {BeforeRoot, AfterRoot} \cap d.array = {}
  /\ DOMAIN d.at[BeforeRoot] = {RootKey} /\ DOMAIN d.at[AfterRoot] = {RootKey}
  /\ d.map[<<BeforeRoot, AfterRoot>>] = [k \in {RootKey} |-> RootKey]

(***************************************************************************)
(* What $ref gives a document and sharing by object identity does not: a   *)
(* node is declared in one place, its target, however many hold it.        *)
(***************************************************************************)
DeclaredOnce(d) ==
  \A o, q \in Node : \A k \in DOMAIN d.at[o], l \in DOMAIN d.at[q] :
     d.at[o][k] \in Node /\ d.at[o][k] = d.at[q][l] => d.decl[o][k] = d.decl[q][l]

\* S holds a document, where a declaration path leads to one value.
PathsLeadIn(d, S) ==
  /\ \A o \in S : \A k \in DOMAIN d.at[o] : d.at[o][k] \in S \cup Leaf
  /\ \A o, q \in S : \A k \in DOMAIN d.at[o], l \in DOMAIN d.at[q] :
        d.decl[o][k] = d.decl[q][l] => d.at[o][k] = d.at[q][l]

\* Every value of either document is told from its others by the path it is declared at.
ToldByPath(d) ==
  \E B, A \in SUBSET Node : /\ BeforeRoot \in B /\ PathsLeadIn(d, B)
                           /\ AfterRoot \in A /\ PathsLeadIn(d, A)

ASSUME JsoAssumption ==
  /\ Node \cap Leaf = {}
  /\ {BeforeRoot, AfterRoot} \subseteq Node
  /\ RootKey \in Key /\ NoPath \in Path /\ RootScope \in Scope
  /\ Rule \in [Key -> CompareRule]

-----------------------------------------------------------------------------
(***************************************************************************)
(* Pairs: two values compared under a compare scope and a custom scope.    *)
(***************************************************************************)
Pair == [b : Value, a : Value, scope : Scope, custom : CustomScope]

RootPair == [b |-> BeforeRoot, a |-> AfterRoot,
             scope |-> RootScope, custom |-> EMPTY_CUSTOM_SCOPE]

\* typeOf on both sides; two leaves of different types differ as values anyway.
SameContainer(d, b, a) ==
  b \in Node /\ a \in Node /\ (b \in d.array <=> a \in d.array)

KeyMap(d, p) == d.map[<<p.b, p.a>>]

Removed(d, p) == DOMAIN d.at[p.b] \ DOMAIN KeyMap(d, p)

Added(d, p) == DOMAIN d.at[p.a] \ {KeyMap(d, p)[k] : k \in DOMAIN KeyMap(d, p)}

KeysToRemove(d, p) == Removed(d, p) \ d.default[p.b]

KeysToAdd(d, p) == Added(d, p) \ d.default[p.a]

\* The mapped keys a comparison looks at; a node under ignoreDifference is adopted unseen.
Compared(d, p) == {k \in DOMAIN KeyMap(d, p) : ~Rule[k].ignoreDifference}

MergeKey(d, p, k) == IF p.b \in d.array THEN k ELSE KeyMap(d, p)[k]

\* interner.mergeOrReuse(parent, patchAt(...)): an answer restates an element, none inherits it.
MergeOrReuse(parent, patch) ==
  [e \in Element |-> IF patch[e] = Unset THEN parent[e] ELSE patch[e]]

\* newCompareScope ?? compareScope
ScopeAt(scope, k) ==
  IF Rule[k].newCompareScope = Unset THEN scope ELSE Rule[k].newCompareScope

ChildPair(d, p, k) ==
  [b |-> d.at[p.b][k], a |-> d.at[p.a][KeyMap(d, p)[k]],
   scope |-> ScopeAt(p.scope, k), custom |-> MergeOrReuse(p.custom, Rule[k].patchAt)]

-----------------------------------------------------------------------------
(***************************************************************************)
(* Differences, as diffFactory builds them.  subject is beforeValue and    *)
(* afterValue, or the two keys of a rename.                                *)
(***************************************************************************)
Difference ==
  [action  : {"add", "remove", "replace", "rename"},
   before  : Path,
   after   : Path,
   subject : (Value \cup Key \cup {Unset}) \X (Value \cup Key \cup {Unset}),
   scope   : Scope,
   custom  : CustomScope]

\* The context of a removed or an added key keeps the compare scope of its container.
DiffRemoved(d, p, k) ==
  [action |-> "remove", before |-> d.decl[p.b][k], after |-> NoPath,
   subject |-> <<d.at[p.b][k], Unset>>, scope |-> p.scope,
   custom |-> MergeOrReuse(p.custom, Rule[k].patchAt)]

DiffAdded(d, p, k) ==
  [action |-> "add", before |-> NoPath, after |-> d.decl[p.a][k],
   subject |-> <<Unset, d.at[p.a][k]>>, scope |-> p.scope,
   custom |-> MergeOrReuse(p.custom, Rule[k].patchAt)]

DiffReplaced(d, p, k) ==
  LET c == ChildPair(d, p, k)
  IN  [action |-> "replace", before |-> d.decl[p.b][k],
       after |-> d.decl[p.a][KeyMap(d, p)[k]],
       subject |-> <<c.b, c.a>>, scope |-> c.scope, custom |-> c.custom]

DiffRenamed(d, p, k) ==
  LET c == ChildPair(d, p, k)
  IN  [action |-> "rename", before |-> d.decl[p.b][k],
       after |-> d.decl[p.a][KeyMap(d, p)[k]],
       subject |-> <<k, KeyMap(d, p)[k]>>, scope |-> c.scope, custom |-> c.custom]

ReplacedKeys(d, p) ==
  {k \in Compared(d, p) : LET c == ChildPair(d, p, k)
                          IN  c.b # c.a /\ ~SameContainer(d, c.b, c.a)}

RenamedKeys(d, p) ==
  {k \in Compared(d, p) : k # KeyMap(d, p)[k] /\ ~Rule[k].ignoreKeyDifference}

ReportedRemovals(d, p) == {k \in KeysToRemove(d, p) : ~Rule[k].ignoreAddRemove}

ReportedAdditions(d, p) == {k \in KeysToAdd(d, p) : ~Rule[k].ignoreAddRemove}

=============================================================================
