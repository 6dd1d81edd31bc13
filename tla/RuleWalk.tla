-------------------------------- MODULE RuleWalk --------------------------------
(***************************************************************************)
(* The comparison of core/compare.ts as a table of rules sees it: which    *)
(* rules each pair of nodes is met under, and which differences are made   *)
(* with which verdict.  MergeCrawl models the merged document, the meta    *)
(* records and the custom scopes; here they are left out, and the rules    *)
(* are those of a real engine.                                             *)
(*                                                                         *)
(* A node is an object, an array, a scalar, or a reference to one of the   *)
(* definitions of its document: the normalization puts the definition      *)
(* itself in the place of a reference, which is where it is declared,      *)
(* while its parts are declared in the definition, whatever the route.     *)
(***************************************************************************)
EXTENDS Rules, CoreMapping

CONSTANTS
  Input,                        \* the pairs of documents
  RootOf(_),                    \* the rules of the root of a kind of document
  RulesOf(_, _, _),             \* what a function in a table answers for the value and the path
  ClassifyRuleOf(_, _),         \* the classify rule of a name in a context
  MappingOf(_, _, _),           \* the mapping resolver of a context, for its two values
  Adapt(_, _, _),               \* the adapter of a name: a side, and the other for reference
  ReplacedAsWhole(_, _)         \* whether the compare resolver of a name settles the pair

VARIABLES
  asked,     \* the documents
  todo,      \* the pairs of nodes still to be entered, in the order of the crawl
  compared,  \* the rules each footprint was entered under first
  diffs      \* the differences made

vars == <<asked, todo, compared, diffs>>

-----------------------------------------------------------------------------
(***************************************************************************)
(* Documents.                                                              *)
(***************************************************************************)
Object(kids) == [is |-> "object", of |-> "", kids |-> kids]
Array(kids) == [is |-> "array", of |-> "", kids |-> kids]
Scalar(value) == [is |-> "scalar", of |-> value, kids |-> <<>>]
Ref(name) == [is |-> "ref", of |-> name, kids |-> <<>>]
Absent == [is |-> "undefined", of |-> "", kids |-> <<>>]

IsContainer(n) == n.is \in {"object", "array"}
Has(n, key) == IsContainer(n) /\ key \in DOMAIN n.kids
Kid(n, key) == IF Has(n, key) THEN n.kids[key] ELSE Absent
PropertyOf(n, property) == IF Kid(n, property).is = "scalar" THEN Kid(n, property).of ELSE None

\* A side of a comparison: a node; where it is declared, and where its parts are; where it was met
\* first, if it lies in itself (cleanUpRecursive); the nodes above it, and the definitions entered.
Side(defs, node, at, above, entered) ==
  IF node.is = "ref"
  THEN LET now == Over(entered, [name \in {node.of} |-> at])
       IN  [node |-> defs[node.of], at |-> at, home |-> <<node.of>>, first |-> now[node.of],
            above |-> above, entered |-> now]
  ELSE [node |-> node, at |-> at, home |-> at, first |-> at, above |-> above, entered |-> entered]

RootSide(d) == Side(d.defs, d.root, <<>>, <<>>, Nothing)
Definition(defs, node) == IF node.is = "ref" THEN defs[node.of] ELSE node

KidSide(defs, side, key) ==
  Side(defs, Kid(side.node, key), Append(side.home, key),
       <<side.node>> \o side.above, side.entered)

\* resolveValueFromContext: a property of the n-th node above.
FromAbove(side, n, property) ==
  IF n \in DOMAIN side.above THEN Kid(side.above[n], property) ELSE Absent

\* createChildContext: the side where a child is missing.
NoSide(parent) ==
  [parent EXCEPT !.node = Absent, !.at = <<>>, !.home = <<>>, !.first = <<>>,
                 !.above = <<parent.node>> \o @]

-----------------------------------------------------------------------------
(***************************************************************************)
(* Rules of a table: the classify rule of the node, by name; the rules of  *)
(* its children, "any" for "/*"; and the rest of CompareRule.  A rule that *)
(* is a function, or refers to a table further down, is lazy.              *)
(***************************************************************************)
Node(classify, kids) ==
  [classify |-> classify, kids |-> kids, mapping |-> "default", compare |-> "default",
   adapters |-> <<>>, scope |-> None, flags |-> {}, lazy |-> None]

NoKids == Nothing
Leaf(classify) == Node(classify, NoKids)
NoRules == Leaf("allUnclassified")
Lazy(name) == [NoRules EXCEPT !.lazy = name]
Flagged(rules, flag) == [rules EXCEPT !.flags = @ \cup {flag}]
InScope(rules, scope) == [rules EXCEPT !.scope = scope]
Mapped(rules, mapping) == [rules EXCEPT !.mapping = mapping]
Classified(rules, classify) == [rules EXCEPT !.classify = classify]
Unclassified(kids) == Node("allUnclassified", kids)
EachOf(rules) == Unclassified([any |-> rules])

Same(type) == ThreeSlots(type, type, type)

Resolved(rules, value, path) ==
  IF rules.lazy = None THEN rules
  ELSE LET found == RulesOf(rules, value, path)
       IN  [found EXCEPT !.flags = @ \cup rules.flags]

\* getNodeRules; a node without rules is unclassified, and so is everything below it.
KidRules(rules, key) ==
  IF key \in DOMAIN rules.kids \ {"any"} THEN rules.kids[key]
  ELSE IF "any" \in DOMAIN rules.kids THEN rules.kids["any"] ELSE NoRules

-----------------------------------------------------------------------------
(***************************************************************************)
(* Mapping resolvers of core/mapping.ts, on the keys of the elements: an   *)
(* element without a key has None.                                         *)
(***************************************************************************)
ByKeys(b, a) == createKeyMappingResolver(b, a, None)

\* What deepEqual accepts is each item with itself.
ByEquality(b, a) ==
  customUniqueItemsArrayMappingResolver({<<k, k>> : k \in ElementsOf(b)}, b, a)

Listed(S) == FoldSet(LAMBDA k, s : Append(s, k), <<>>, S)

\* The resolver of an array or object without one of its own.
DefaultMapping(before, after) ==
  IF before.is = "array" THEN arrayMappingResolver(before.kids, after.kids)
  ELSE objectMappingResolver(Listed(DOMAIN before.kids), Listed(DOMAIN after.kids))

-----------------------------------------------------------------------------
(***************************************************************************)
(* One pair of nodes.  An item is what the crawl hands to the hook: the    *)
(* rules, the two sides, their keys and those of the contexts above, the   *)
(* scope and the path; or a pair whose exit hook is still to be run.       *)
(***************************************************************************)
Item(rules, before, after, keys, scope, path) ==
  [rules |-> rules, before |-> before, after |-> after, keys |-> keys, scope |-> scope,
   path |-> path, entered |-> FALSE]

\* adaptValues: before against after, then after against what became of before.
adaptValues(item, adapters) ==
  LET One(pair, name) ==
        LET b == Adapt(name, pair[1], pair[2])  IN <<b, Adapt(name, pair[2], b)>>
  IN  FoldLeft(One, <<item.before, item.after>>, adapters)

Context(item) ==
  LET rules == Resolved(item.rules, item.before.node, item.path)
      sides == adaptValues(item, rules.adapters)
  IN  [item EXCEPT !.rules = rules, !.before = sides[1], !.after = sides[2],
                   !.scope = IF rules.scope # None THEN rules.scope ELSE item.scope]

\* Mutant: a pair is known by the route to it.
FootprintByRoute(c) == <<c.path, c.scope>>

\* Mutant: a pair is the same in every scope.
FootprintWithoutScope(c) == <<c.before.first, c.after.first>>

Footprint(c) == <<c.before.first, c.after.first, c.scope>>

SlotOf(action) == CASE action = "add" -> 1 [] action = "remove" -> 2 [] OTHER -> 3

Verdict(c, action) == ClassifyRuleOf(c.rules.classify, c)[SlotOf(action)]

DiffOf(c, action) ==
  [action |-> action, before |-> c.before.at, after |-> c.after.at, scope |-> c.scope,
   path |-> c.path, type |-> Verdict(c, action)]

Ignored(c) == "ignoreDifference" \in c.rules.flags

Renamed(c) ==
  IF Head(c.keys)[1] # Head(c.keys)[2] /\ "ignoreKeyDifference" \notin c.rules.flags
  THEN {DiffOf(c, "rename")} ELSE {}

Replaced(c) ==
  \/ ReplacedAsWhole(c.rules.compare, c)
  \/ c.before.node.is # c.after.node.is
  \/ c.before.node.is = "scalar" /\ c.before.node.of # c.after.node.of

\* A container with the definitions its elements refer to.
Seen(defs, n) == [n EXCEPT !.kids = [k \in DOMAIN @ |-> Definition(defs, @[k])]]

MappingData(c) ==
  MappingOf(c, Seen(asked.before.defs, c.before.node),
            Seen(asked.after.defs, c.after.node))

-----------------------------------------------------------------------------
(***************************************************************************)
(* The children of two containers.                                         *)
(***************************************************************************)
\* createChildContext, whose rules are looked up with the path ANY_COMBINER_PATH.
ChildContext(c, before, after, key) ==
  LET value == IF after.node.is = "undefined" THEN before.node ELSE after.node
      keys == IF after.node.is = "undefined" THEN <<key, None>> ELSE <<None, key>>
  IN  Item(Resolved(KidRules(c.rules, key), value, <<>>), before, after, <<keys>> \o c.keys, c.scope,
           Append(c.path, key))

RemovedKid(c, key) ==
  ChildContext(c, KidSide(asked.before.defs, c.before, key), NoSide(c.after), key)

AddedKid(c, key) ==
  ChildContext(c, NoSide(c.before), KidSide(asked.after.defs, c.after, key), key)

\* getOrCreateChildDiffAdd and -Remove: one difference for a declaration in a scope.
AlreadyTold(action, k) ==
  \E d \in diffs : /\ d.action = action /\ d.scope = k.scope
                   /\ d.before = k.before.at /\ d.after = k.after.at

Tells(action, k) == "ignoreAddRemove" \notin k.rules.flags /\ ~AlreadyTold(action, k)

Removals(c, keys) ==
  {DiffOf(RemovedKid(c, k), "remove") : k \in {k \in keys : Tells("remove", RemovedKid(c, k))}}

Additions(c, keys) ==
  {DiffOf(AddedKid(c, k), "add") : k \in {k \in keys : Tells("add", AddedKid(c, k))}}

MappedKid(c, key, to) ==
  Item(KidRules(c.rules, key), KidSide(asked.before.defs, c.before, key),
       KidSide(asked.after.defs, c.after, to), <<<<key, to>>>> \o c.keys, c.scope,
       Append(c.path, key))

Kids(c) ==
  LET mapped == MappingData(c).mapped
      keys == Listed(DOMAIN mapped)
  IN  [i \in DOMAIN keys |-> MappedKid(c, keys[i], mapped[keys[i]])]

-----------------------------------------------------------------------------
Start(x) ==
  Item(RootOf(x.spec), RootSide(x.before), RootSide(x.after), <<<<"#", "#">>>>, "root", <<>>)

Init ==
  /\ asked \in Input
  /\ todo = <<Start(asked)>>
  /\ compared = [footprint \in {} |-> NoRules]
  /\ diffs = {}

Current ==
  IF todo = <<>> THEN {}
  ELSE IF Head(todo).entered THEN {Head(todo)} ELSE {Context(Head(todo))}

\* A pair met for the first time; from now on its footprint is known.
Fresh(c) == ~c.entered /\ ~Ignored(c) /\ Footprint(c) \notin DOMAIN compared
Remember(c) == compared' = Over([footprint \in {Footprint(c)} |-> c.rules], compared)

\* The node is left as it is, with everything below.
Ignore(c) ==
  /\ ~c.entered /\ Ignored(c)
  /\ todo' = Tail(todo)
  /\ UNCHANGED <<asked, compared, diffs>>

\* The result of the first time is taken, whatever the rules here say.
Reuse(c) ==
  /\ ~c.entered /\ ~Ignored(c) /\ Footprint(c) \in DOMAIN compared
  /\ todo' = Tail(todo)
  /\ UNCHANGED <<asked, compared, diffs>>

\* The pair differs as a whole, or is a pair of scalars.
Settle(c) ==
  /\ Fresh(c) /\ (Replaced(c) \/ ~IsContainer(c.before.node))
  /\ diffs' = diffs \cup Renamed(c) \cup (IF Replaced(c) THEN {DiffOf(c, "replace")} ELSE {})
  /\ todo' = Tail(todo)
  /\ Remember(c)
  /\ UNCHANGED asked

\* Two containers: the mapped children come first.
Enter(c) ==
  /\ Fresh(c) /\ ~Replaced(c) /\ IsContainer(c.before.node)
  /\ diffs' = diffs \cup Renamed(c)
  /\ todo' = Kids(c) \o <<[c EXCEPT !.entered = TRUE]>> \o Tail(todo)
  /\ Remember(c)
  /\ UNCHANGED asked

\* The exit hook: the children only one side has.
Leave(c) ==
  /\ c.entered
  /\ LET r == MappingData(c)
     IN  diffs' = diffs \cup Removals(c, r.removed) \cup Additions(c, r.added)
  /\ todo' = Tail(todo)
  /\ UNCHANGED <<asked, compared>>

Next == \E c \in Current : Ignore(c) \/ Reuse(c) \/ Settle(c) \/ Enter(c) \/ Leave(c)

Spec == Init /\ [][Next]_vars

Done == todo = <<>>

-----------------------------------------------------------------------------
\* What is found at a pair itself, and the rules for what is below it, are those of other rules.
SameFindings(c, rules) ==
  LET there == [c EXCEPT !.rules = rules]
  IN  /\ Renamed(c) = Renamed(there)
      /\ Replaced(c) = Replaced(there)
      /\ Replaced(c) => Verdict(c, "replace") = Verdict(there, "replace")
      /\ IsContainer(c.before.node) => rules.kids = c.rules.kids

\* Whatever the routes to a pair of declarations in one scope, the rules they bring to it come to the
\* same: else the verdicts would be those of the route that comes first, for compare.ts takes the
\* result of the first time for a pair that it knows by its footprint and scope.
FootprintDecides ==
  \A c \in Current :
    ~c.entered /\ ~Ignored(c) /\ Footprint(c) \in DOMAIN compared
      => SameFindings(c, compared[Footprint(c)])

=============================================================================
