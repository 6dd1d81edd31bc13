# A verification development of api-diff

The repository compares two API documents (OpenAPI, AsyncAPI, GraphQL, JSON Schema, DDL
realms) and returns a merged document with the differences recorded in it, together with
the list of the differences. This directory holds TLA+ models of the parts of it where
that is hard to get right, the TLC runs that check them and the proofs that TLAPS checks.
Paths below are relative to the repository; source lines are named per definition in
`PROJECT.json` under `map`.

## 1. The system

### Components, their state and operations

| Component | Code | State it keeps | Operations |
|---|---|---|---|
| Entry point | `src/api.ts` | none | pick the engine for the two specification types, fill in options |
| Comparison engine | `src/core/compare.ts` | per call: `mergedJsoCache`, `createdMergedJso`, `diffUniquenessCache`, the crawl's stack of node contexts, the merged document, its meta records, the list of differences | normalize, crawl the before document, map keys, adapt, classify, merge, report, denormalize |
| Core mapping resolvers | `src/core/mapping.ts` | none | pair the keys or indexes of two nodes |
| Difference factory | `src/core/diff.ts` | the meta record of the node in hand | make, classify and record a difference |
| Custom scope | `src/core/customScope.ts` | interned scope objects | merge a node's answer into the inherited scope |
| Rules algebra | `src/core/rules.ts`, `constants.ts` | none | reverse, transform and combine classify rules |
| JSON Schema | `src/jsonSchema/*` | nested crawls through the caller's caches | match combiner options, compare bounds, adapt types |
| OpenAPI | `src/openapi/*` | none | resolvers for paths, methods, parameters, media types, response codes; rule tables; classifiers of parameters, security and paths |
| AsyncAPI | `src/asyncapi/*` | a cache of rule tables by schema format | rule tables, reversal of schema rules by scope, the adapter between plain and multi-format schemas |
| GraphAPI | `src/graphapi/*` | none | rule tables by scope, classifiers, adapters of unions and interfaces, a compare resolver |
| DDL | `src/ddl/*` | none | rule tables, identity keys, classifiers, the dialect's table of types |
| Aggregation | `src/utils.ts` | `visited`, the aggregate stored in each object | roll differences up to the objects that hold them |
| Descriptions | `src/core/description.ts` | none | text of a difference |

The entry point calls the engine with one rule table. The engine crawls the before
document; at each node the rule table says which mapping resolver, adapters, compare scope,
custom scope and classify rule apply. Components meet in three places: the resolver's answer
(`MapKeysResult`) is taken on trust by the crawl and by the exit hook; the custom compare
callbacks of JSON Schema and GraphAPI call back into the crawl with the caches of the crawl
that is in the middle of calling them; and the merged document with its meta records is
what aggregation and every client reads.

### What is hard here

Everything runs in one synchronous call on one thread: there are no messages, crashes or
timeouts. The difficulty is elsewhere:

* *Graphs, not trees.* References are resolved to shared objects, and recursive schemas make
  documents cyclic. The crawl must end on them, compare a shared part once per context, and
  still hand the result to each holder. What decides is a *footprint*: two values, two
  declaration paths, two scopes; with the paths replaced by those of the outermost open
  occurrence of the same value. An entry is put into the cache *before* the children are
  crawled, so results are read while they are incomplete.
* *Evaluation order.* A document's text decides which holder of a shared node comes first and
  thus who evaluates and who reuses. The model takes the keys in any order.
* *Two derivations of one thing.* The merge key of a mapped element, the index of an added
  one and the key of a removed one are computed in different places and must not collide. The
  list of differences and the meta records are filled by different statements.
* *Greedy matching* of arrays, parameters, media types and combiner options with duplicates,
  equal elements, elements without a key, and of paths whose prefix or parameter names moved.
* *A crawl within a crawl.* The options of a combiner are compared by nested crawls that work
  on the reuse cache of the crawl in the middle of which they run.
* *Verdicts that must add up.* Each keyword of a schema is classified by itself, but whether a
  change is compatible is a fact about the schema; and every rule has a reverse, used for
  responses, received messages and what is inside a `not`.
* *One definition, several uses.* A schema, type, message, column type or enum is declared once
  and met by many routes, under rules that differ: in a request and in a response, in an argument
  and in an answer, in a channel and in a reply. Its verdict must be that of each use, while the
  engine compares it once per footprint and takes the result of the first route for the rest.
* *Suppressed here because told there.* The tables leave out properties that follow from others
  and add or remove only the container; what is left out in both places is lost without a word.
* *Roll-up over cycles*, where an object is asked for its aggregate before it has one.

`PROJECT.json` lists each such hazard at its line, with the properties that cover it.

### What makes each component correct

* Engine: it returns, on every document; it never unrolls a recursion; the merged document
  is complete, holding what was mapped, removed and added; every difference is reported, none
  twice; the meta records and the list agree.
* Resolvers: each key of either side is told exactly once; no two nodes are compared with
  the same node; nothing that has a counterpart is left over.
* Aggregation: it returns; the root's aggregate is exact; no object aggregates too much.
* Combiners: options that refer to one schema are compared, of the others no two would both be
  better off with each other; no option is lost.
* Rules and classification: an incompatible change has a breaking or risky difference, a
  compatible one has none; a rule that fails changes nothing.
* Engines: whoever uses an API or a database under the old document and can no longer do, or
  count on, something is told by a breaking or risky difference in that direction or at that
  place; a breaking difference tells of something really lost; a document compared with a
  reordered one is silent.

## 2. Modules

```
Jso ── DiffReport ─────────┐ (INSTANCE: MergeCrawl implements it)
  └─── MergeCrawl ─────────┴── MCMergeCrawl          (runs crawl_*)
            └── MergeCrawl_proofs ── DiffReport_proofs   (theorems)
MapKeys ─┬─ CoreMapping ──┬── Resolvers ── MCResolvers   (run resolvers)
         └─ OpenApiMapping┘       └── Resolvers_proofs   (theorems, with FoldFacts)
         CoreMapping ── FoldFacts                    (lemmas about loops)
AggregateDiffs ── MCAggregateDiffs                   (run aggregate_rollup)
  └── AggregateDiffs_proofs                          (theorems)
CombinerMatch ── MCCombinerMatch                     (runs combiner_*)
  └── CombinerMatch_proofs                           (theorems)
Rules ─┬─ SchemaRules ── Verdicts ── MCVerdicts      (run verdicts)
       │                   └── Verdicts_proofs       (theorems, with FoldFacts)
       └─ RuleWalk (with CoreMapping)
            ├─ DdlRules ── DdlChanges ─┬─ DdlFacts ── MCDdl     (runs ddl_*)
            │                          └─ DdlChanges_proofs     (theorems, with FoldFacts)
            ├─ GraphApiRules ── GraphApiChanges ── MCGraphApi   (run graphapi)
            └─ OpenApiRules ── AsyncApiRules ── ProtocolChanges ── MCProtocols
                  │ (INSTANCE: OpenApiMapping, SchemaRules)     (run protocols)
```

**Jso** is the constant level: a *document pair* `d`, rules by key, and what a pair of nodes
means. `d.at[o]` is what a node holds, `d.decl[o][k]` where the value under `k` is declared,
`d.default[o]` the keys the normalization filled in, `d.map[<<b, a>>]` what the mapping
resolver answers for two nodes. `IsDocumentPair` states what the crawl may assume of its
input; the part about `d.map` is `ResolverContract`. The differences follow `diffFactory`.

**DiffReport** is the abstract specification: a comparison compares pairs that mappings lead
to from the roots, reports differences of compared pairs, and may return only when every
pair to be compared has been and every difference other than a rename has been reported. It
has no cache, no stack, no order.

**MergeCrawl** is `compareInternal` with its merge hook and exit hook.

| `src/core/compare.ts` | MergeCrawl |
|---|---|
| crawl stack, node contexts | `stack`: per open node its footprint, its own declaration paths, its keys left to visit |
| `mergedJsoCache` | `cache`: footprint -> value to link and the diffs pulled up to the holder |
| `createdMergedJso` | `created` |
| merged objects | `merged`, each named by the footprint that created it |
| `metaKey` records | `meta` |
| `onDiff` | `diffs`, a set of objects with an identity of their own |
| `diffUniquenessCache` | `getOrCreateChildDiff` |
| `cleanUpRecursive` | `cleanUpBefore`, `cleanUpAfter` |
| hook: key without counterpart | `KeepRemoved` |
| hook: `ignoreDifference` | `AdoptIgnored` |
| hook: cache hit / miss on leaves / miss on containers | `Reuse` / `CompareLeaf` / `Descend` |
| exit hook | `ExitHook` |
| end of the crawl | `Return` |

An action is one call of the hook for one key. Between two calls the crawler of the other
package only moves to the next key, so an action is as long as the code's own step. Two
kinds of sharing exist in inputs: by object identity, where each edge has its own
declaration path, and through `$ref`, where all edges share the target's.

**CoreMapping** and **OpenApiMapping** are the resolvers as pure operators; loops that
consume a working set are folds over the indexes of before (`FoldLeft`), in the code's order.
**Resolvers** asks one query and answers it, one action per resolver, and states the
properties. **MapKeys** is the answer and its contract.

**AggregateDiffs** is `aggregateDiffsWithRollup`: recursive calls are frames of `stack`,
`Enter` is a call for a new object, `MeetAgain` one for a visited object, `Leave` the rest
of the function after the loop over the children.

**CombinerMatch** is `combinersCompareResolver`: the rounds by reference, of comparisons and of
choices, and the indexes of what is left over. What a comparison of two options shows is data:
differences of the pair's own and shared *parts*, each with its differences. A part that is in
`linked`, the reuse cache of the surrounding crawl, is linked without its differences, as
`Reuse` of MergeCrawl does; that is the one thing taken over from there.

**Rules** is the algebra of classify rules, a rule being what its slots yield at one context.
**SchemaRules** has the classifiers of JSON Schema constraints and, as the reference they are
checked against, `Accepts`: which values a schema accepts. **Verdicts** compares two schemas:
`Adapt` converts bounds between OpenAPI versions and finds the differences, `CreateDiff` is
`createDiff`, with the rule of the keyword, reversed as the place asks for, and the
reclassification pipeline.

**RuleWalk** is the comparison again, as a rule table sees it: MergeCrawl leaves the rules open
to ask what the engine does under *any* of them; RuleWalk leaves out the merged document, meta
records and custom scopes to ask what the *real* tables come to. A table is data (`Node`, `Leaf`,
`Lazy` for a rule that is a function), and `Context` resolves a lazy rule for the value of before
and the path, runs the adapters and sets the scope, in the order of the merge hook. `Ignore`,
`Reuse`, `Settle`, `Enter` are the outcomes of one call of the hook, `Leave` is the exit hook.
A document is a tree of nodes in which a reference stands for a definition. Where a node is
declared decides how often a difference is told and what is reused, so a side keeps three places:
`at`, where the node itself is declared; `home`, below which its parts are (those of a definition
lie in the definition, whatever the route); and `first`, the place where a definition that
contains itself was met first (`cleanUpRecursive`). The mapping resolvers are those of CoreMapping.

**DdlRules**, **GraphApiRules**, **OpenApiRules** and **AsyncApiRules** are the tables of the four
engines, row by row and under the names of the source, with their classifiers, resolvers and
adapters. OpenApiRules takes its resolvers from OpenApiMapping and the classifiers of types, enums
and properties from SchemaRules; AsyncApiRules reuses the schemas of OpenApiRules.

**DdlChanges**, **GraphApiChanges** and **ProtocolChanges** say what the differences must come to,
without looking at rules. Each derives from a document what a user of it may do and rely on: the
queries of a reader; the requests of a GraphQL client and what its answers may hold; per operation
and direction, what a caller of an API may give, leave out, or find in an answer. What is promised
under before and not under after is lost, and the verdicts are held against that. What walks a
document to its end is RECURSIVE and out of the prover's reach; for DDL it has a module of its own,
**DdlFacts**, so that DdlChanges can be proved about.

### Abstractions

* Values other than containers are opaque; two of them are equal or not. Types of leaves
  matter only through equality.
* A rule depends on the key a node is reached under, where the code looks rules up by path.
* Custom scopes are records compared by value: what interning by identity achieves.
* Order of the text, hence of diffs in the list, is dropped: keys are taken in any order.
* Strings are segments, names and codes: slashes of a path are not told apart, a URL is its
  base path, `params` of a media type one token.
* Sparse arrays are left out.

## 3. Runs

All passing runs are exhaustive. `CHECK_DEADLOCK FALSE` is set everywhere because a
comparison, an answer and a walk return.

**crawl_shared** (`NoReentry`, `CrawlInv`, `MergedWhole`, `Termination`). Two objects a side
with up to two keys, each holding itself, the other or a leaf, shared by identity and by
`$ref`. Two objects suffice for self-recursion, mutual recursion, a cycle entered by two
routes, and cycles of different lengths on the two sides, where a pair of values recurs only
after several rounds. `MaxDepth` is the bound on open nodes; `Termination` passes under it, and
since a crawl stopped by the bound would never reach the empty stack, the run shows the
bound is never what stops it.

**crawl_rules** (`DiffsUnique`, `MergedWhole`, `MetaMatchesDiffs`, `ReportSpec`). The same
engine under rules that suppress, rescope and mark, with two families of documents: objects
reached under up to four footprints, and an object holding an array under *every* answer
`ResolverContract` allows, with default values. `ReportSpec` is the refinement of DiffReport.

**resolvers** (seven properties). Every resolver, asked about all arrays of up to three items
out of four (two deep-equal, one with another key, one without), all objects of up to two
keys, all path maps of up to two entries over five paths and three positions of a
base path, all media-type lists, response-code maps and parameter lists of two. Two
elements per side give competition for a match; three are needed for arrays, so that a
consumed element lies between two candidates.

**aggregate_rollup** (`RootExact`, `RollupExact`, `Termination`). Merged documents of four
objects with chains, diamonds, cycles through and beside the root.

**combiner_match** (`OptionsKept`, `NothingLeftOver`, `RefsMatched`, `MinDiffsReported`). Up to
three options of before against two of after, one object twice among them, in three families:
every table of four costs for four pairs; every assignment of two references and none; every
table of two shared parts, one of them compared before or not. Two options a side make a choice,
the third a leftover.

**verdicts** (`LossFlagged`, `NoFalseAlarm`, `FailuresContained`, `ReversalsAgree`). One family
of schema pairs per group of keywords: bounds in the encodings of draft 04 and later and across
them, lengths, multiples, type with enum, enum, required with properties and defaults, and rules
of the caller. Bounds are 1 to 3 and instances are half numbers from 0 to 4, so there is a value
on, between, below and above every two bounds. `LossFlagged` compares verdicts with `Accepts`.

**ddl_readers** (`QueriesKept`, `BreakingJustified`, `SilentIffSame`, `ToldOnce`), 162,920 states.
Families of realms: columns of every kind and class of type, enums shared by columns and tables,
keys, indexes, foreign keys, comments, defaults, and elements of all these that come, go, move and
change at once. `QueriesKept` and `BreakingJustified` are the contract of
`docs/plans/ddlapi-changes-reporting.md`: breaking if and only if a query that was valid fails.

**graphapi** (`ClientsWarned`, `AlarmJustified`, `RiskyIffNewValue`), 201,227 states. Families of
schemas: types of every kind in arguments, answers and both, nullability and defaults of inputs,
lists, unions and interfaces with their members, recursive types, directives and their uses. The
client looks `Depth` (3) types deep, so it passes through a recursive type more than once.

**protocols** (`ConsumersWarned`, `WarningsJustified`, `AccessWarned`, `FootprintDecides`),
107,153 states. Families of OpenAPI documents: parameters and each of their fields; paths with
renamed parameters and base paths in two places; schemas in bodies, responses, headers, in both
directions at once, and recursive; media types, codes, headers and bodies that come and go;
requirements of an operation under those of the document. And of AsyncAPI documents: payloads
sent, received, in replies and in both; schemas with, without and in another format; messages,
operations, content types and headers. Each family pairs every document with every other one,
so that the changes of a family happen together and in both directions. `FootprintDecides` says
that the first route to a declaration never decides: any later one in the same scope brings rules
that come to the same.

Three runs are expected to be violated; each is one disagreement between the code and what a
document, comment or test says, listed under `findings`:

| Run | What it shows |
|---|---|
| crawl_renames | of two renamed keys that hold one shared child only the first has its rename reported (the rename is made on a cache miss only, `compare.ts:351`) |
| combiner_cached | a pair of options with a part compared before is counted with fewer differences than it has, and is matched where another pair is equal |
| ddl_unchanged | a realm with an index of an expression, or two unnamed indexes of one column, differs from itself |

The properties of the passing runs carry the preconditions that leave these cases out
(`PartsApart`, no two renames to one child, no such index), so a reader sees where the code is right.

### Boundaries of the properties

* `DiffsUnique` is checked on documents shared through `$ref`. With an object shared by
  *identity* under edges of different declaration paths, an added or removed child is declared
  at one path but its container has two footprints; the run `crawl_shared` has such documents
  for the structural properties only.
* `MergedWhole` and the refinement assume `ResolverContract`. For the resolvers of objects,
  methods and arrays `AnswersContract` establishes it. `ParametersPaired` leaves out lists in which
  one parameter takes over the name of another (two that swap places are both paired with the same
  one), `KeyedPairsFound` arrays with two elements under one key (`DistinctKeys`),
  `SameEndpointMapped` documents in which two paths unify to one; the hazards at `compare.ts:286`
  and `openapi/mapping.ts:15` are two more cases outside the contract.
* `RollupExact` is exact where no cycle is reached: an object that reaches differences only through
  an object still open gets no aggregate.
* `OptionsKept` assumes that after has an option. Compared with an empty combiner, which a schema
  of type *nothing* is adapted to, all removed options are stored under one index.
* `LossFlagged` is checked for at most one reversal. A rule that is breaking both ways (a
  changed `type`) is non-breaking after two, inside a `not` of a response; see the hazard at
  `rules.ts:58`. And it is stated of unified schemas, which have one bound a side, as
  `openapi.exclusive-bounds.test.ts` does: `BoundsUnified` is the hypothesis of its theorem, and the
  inputs of the run satisfy it (`InputsUnified`).
* `NoFalseAlarm` is about one group of keywords at a time, bounds, lengths, type or enum (`OneGroup`):
  a bound on numbers that conform to no schema anyhow excludes nothing, and is flagged all the same.
  It leaves out the keywords whose rules are cautious on purpose (`multipleOf`,
  `jsonSchema.classify.ts:72`, `properties`, `required`, `default`), schemas that accept no number or
  no string at all, and a type that is added or removed. Two false alarms the code makes are outside
  it: a `minLength` of 0 added, and a type *any* added, which excludes nothing. That a flagged change
  excludes a value takes an instance that tells the two schemas apart, so the theorem assumes that
  there are enough of them (`Rich`); those of the run are (`InputsRich`).
* `ToldOnce` and `BreakingJustified` are about documents (`IsDocument`: references lead to
  definitions, definitions refer to no other) that are, for `BreakingJustified`, realms (`IsRealm`: schemas,
  tables and columns have names, no two the same; a column has a type; what is summed is a number and
  what is lowered a text; what lies in `objects` is no table). `InputsAreDocuments` and `InputsAreRealms` make TLC
  check that of every document of the run.
* `QueriesKept` is about schemas that are still there and types the dialect's table knows: a
  dropped schema and a column whose type has another kind are told by unclassified differences
  (the hazard at `ddl.rules.ts:386`). Its theorem needs besides that documents are whole (`IsWhole`:
  every schema has its tables and every table its columns, if none then an empty list; a type has a name its kind
  has in the catalogue; a type declared elsewhere is an enum; `schemas` is no definition), and that
  no type takes over the name of an enum or the other way round (`EnumsStay`). The code takes the last for
  granted (`ddl.rules.ts:175-176`: a change of family always changes the name); otherwise nothing
  breaking is told, for a change of kind is not reported. None of these mentions the
  table of families (`consumptionFamily`): that it keeps operations apart is proved (`FamilyOperates`). `InputsAreWhole` makes TLC check both.
* `ClientsWarned` and `AlarmJustified` leave out inputs that must be given but have a default,
  which the suites take for required, and unions of one member, which are compared as the member.
* The documents of `protocols` are normalized ones: parameters have all their fields, schemas a
  type and `nullable`. Outside them the tables give a false alarm, or none, on purpose or not: a
  parameter that moves between a path item and its operation is removed and added; the first
  parameters, a required body or a schema for headers added; items or a default added to or
  removed from a schema of a response (rules without verdicts for the reverse are reversed); a
  header's `required`, which is never reversed; several schemes in one requirement, of which the
  first counts, beside requirements of the document; requirements of the document that change
  (`AccessWarned` is about an operation's own). `WarningsJustified` leaves out defaults of false
  and 0, which are taken for none (`openapi3.classify.ts:77`).
* Renames are left out of the obligation of `Finish` in DiffReport because of
  `crawl_renames`.

### Fairness

The code under verification is one synchronous call. `WF_vars(Next)` says that a started call
keeps executing while it has something left to do, which a thread that runs to completion
guarantees. No action has a fairness of its own: no scheduling choice is assumed. Resolvers,
CombinerMatch, Verdicts and RuleWalk have no liveness property and no fairness: that a crawl ends
is shown by MergeCrawl.

## 4. Proofs

`MergeCrawl_proofs` proves, for every set of nodes, keys, paths and scopes, every rule table,
every set of document pairs and every bound:

* **CrawlInvariant**: `Spec => []CrawlInv`.
* **NeverReentered**: `Spec => []NoReentry`, no pair of values is opened inside itself
  under the same scopes.
* **DepthBounded**: when values and scopes are finite, the depth of the crawl is at most the
  number of pairs of values and scopes, plus one for the pseudo root. Hence a cyclic document
  cannot be unrolled, whatever `MaxDepth` is.

`NoReentry` is not inductive. That a footprint found open is in the cache helps only if the
pair met again *has* that footprint, and a footprint contains declaration paths, which
differ from edge to edge. `CleanPaths` closes the gap: open nodes with the same before value
have the same before path, that of the outermost of them, and the outermost has its own path;
the same for after. `CleanUpAgrees` shows that `cleanUpRecursive` yields that path for a
child, so a pair that is already open is a cache hit and `Descend` is disabled for it.
`OpenNodes` (open footprints are cached and created) and `TypeOK` make the invariant inductive. The
proof has one lemma per action (`ShrinkingStep` for the visits that only consume a key,
`LeafStep`, `DescendStep`, `ExitStep`, `ReturnStep`).

It goes on from `CrawlInv`, under the same assumptions:

* **MergedInvariant**: `Spec => []MergedInv`.
* **MergedIsWhole**: `Spec => []MergedWhole`.
* **MetaTellsDiffs**: `Spec => []MetaMatchesDiffs`.

Both properties are about objects the crawl has left, and an object linked from the cache may still
be open, so neither says anything about the time it is linked. `CacheRight` does: an entry for a
footprint of containers hands out the merged object of that footprint and pulls up nothing, one for
leaves the value of after and, if they differ, a replace diff of just these two that has been
reported. `ObjectsFilled` says of *every* object, open or left, that each key visited is merged and
recorded; `OpenFilled` that an open object holds nothing else (without which the exit hook could meet
an index of a removed item already taken), and `LeftFilled` what the exit hook has added.
`RootOutermost` keeps the pseudo root, for which there is no object, out of all this.

`DiffReport_proofs` goes on from `MergedInv`:

* **CrawlImplementsReport**: `Spec => ReportSpec` for inputs in which a node is declared once
  (`DeclaredOnce`).
* **NoDiffToldTwice**: `Spec => []DiffsUnique` for inputs in which, moreover, the path of a
  declaration tells the value (`ToldByPath`).

The refinement is proved step by step: every action of the crawl maps to a step of `Progress`, to
`Finish` or to a stutter. The hard step is `Finish`: when the crawl returns, pairs that the cache
spared it must have been compared and told of. `ReportInv` says that what is pulled from the cache
is what the place it is pulled to would have told, and that each replaced value visited was told of
with its own paths. This needs `DeclaredOnce`, and not only for the proof: where an object is shared
by identity under edges of different paths, the reuse cache, whose footprints carry the paths of the
outermost open occurrence, may hand out a replace diff made under another edge. Documents shared
through `$ref` satisfy both hypotheses; `MixedInputsDeclared` makes TLC check that those of the run
crawl_rules do. Uniqueness is not inductive either: a replacement is a new object at each
evaluation, so two with the same paths are one only if there was one evaluation. `UniqueInv` says that
footprints opened and cached lie at a place of each document (`OpenPlaced`, `CachePlaced`), that a diff
made by an evaluation tells the paths of the footprint evaluated (`DiffsPlaced`), and that an
evaluation makes one (`OncePerEvaluation`).

`CombinerMatch_proofs` proves, for combiners of any size, any references, and any differences and parts:

* **CombinerInvariant**: `Spec => []MatchInv`.
* **NoneLeftOver**, **NoOptionLost**, **RefsAreMatched**, **MinDiffs**: the four properties of
  the run combiner_match.

`Indexed`, `Merging` and `PairsLeft` tie the working sets to the merged array: an index of before is
free or in one matched pair, and no pair of free indexes escapes the rounds. `RefsUsedUp` counts: while
references are matched, as many pairs of one have been made as options of it were taken on either
side, so when the round is over one side of each is used up. `CacheTells` and `DiffsTell` hold
where parts are apart: a pair that was compared tells all its differences, whenever that was. `Stable`
makes `MinDiffsFound` inductive: a pair matched by choice is no worse than any pair that was free when
it was chosen, so two options that both would be better off with each other cannot be left behind.
`NoOptionLost` needs the safe buffer only: the index for a removed option lies above all of after.

`FoldFacts` says what a loop is. The resolvers and the pipeline of createDiff are folds of the
community modules, functions on sets of indexes that take the greatest one off first; `FoldingExists`
proves that such a function exists, `FirstIndexes` that on the first k indexes it is what the loop
has after k rounds, and `Rounds` that what each round keeps holds at the end, by well-founded
induction on the set of rounds where it fails. So no induction theorem with an operator parameter is
needed.

`Resolvers_proofs` proves, for objects, arrays, contents, responses, parameters and path maps of any size:

* **AnswersKeepContract**, **EqualItemsPaired**, **KeysFindPairs**, **EndpointsArePaired**,
  **ParametersArePaired**, **MediaTypesArePaired**, **CodesArePaired**: the seven properties of the
  run resolvers.

That the answer is that of the resolver asked is trivial (`Told`); the work is in the loops. Those
that take what they pair out of a working set have a loop invariant that says what each index told so
far, free or paired, was told for (`RoundMakes`, `LoopMakes`); the three rounds of media types keep the invariants
of the rounds before. The loop over parameters looks at all of after each time, and has a
closed form instead (`FirstSoFar`): each index goes to its first match, whether that is free or not, so
that it is one to one only if no name is taken over. For paths, `UnifyHides` and `UnifyAlike` say that
two URLs unify to one key if and only if they are one endpoint.

`Verdicts_proofs` proves, first, for every classify rule:

* **DynamicReversal**: both reversals agree; **ReversedTwice**: a rule without explicit reverse
  verdicts is itself again when reversed twice; **ReversedIsRule**: a reversed rule is a rule.
* **NotsCollapse**: inside any number of `not` a rule is itself, its reverse or the reverse of that.

And of every comparison of two schemas:

* **VerdictsHold**: `Spec => []VerdictsInv`.
* **ReversedAlike**: `Spec => []ReversalsAgree`, for callers without rules of their own.
* **FailuresStayContained**: `Spec => []FailuresContained`, for any number of rules of the caller.
* **LossAlwaysFlagged**: `Spec => []LossFlagged` where bounds are unified (`BoundsUnified`).
* **NoLossNotFlagged**: `Spec => []NoFalseAlarm` where there are instances beside every number of the
  schemas (`Rich`).

`VerdictsInv` says that the verdict of each difference made is the slot of its rule handed down the
pipeline, and that the differences made and left are those of the adapted schemas. From it `LossFlagged` is a fact about two schemas: if a value was accepted
and no longer is, one conjunct of `Accepts` tells the two apart, and there is a lemma for each that finds
the keyword that changed and its verdict: bounds in both directions, with flags (`FlagBoundTightened`,
`FlagBoundLoosened`) and by the effective bound (`BoundTightened`, `BoundLoosened`), `TypeLost`,
`LengthLost`, `MultipleLost`, `EnumLost`, `RequiredLost`. `InputAdapted` says that the conversion of
bounds between versions keeps the values accepted. Since a loss is traced to *one* keyword,
it does not matter how many others change with it; the run has one group of keywords at a time.
For draft 04 no `BoundsUnified` is needed, for flags are no bounds of their own. `NoFalseAlarm` goes
the other way: for each flagged keyword a lemma names the instance that was accepted and no longer
is, the number half a step beside the new bound, the string one shorter or longer, a value of the type
or of the enum that is gone. Both theorems together say that the verdicts of these keywords are exact.

`DdlChanges_proofs` proves, for every set of pairs of documents, of any size, any number of schemas,
tables and columns:

* **EachToldOnce**: `Spec => []ToldOnce` (`DocumentsGiven`).
* **AlarmsJustified**: `Spec => []BreakingJustified` (`DocumentsGiven`, `RealmsGiven`).
* **LossesTold**: `Spec => []QueriesKept` (`DocumentsGiven`, `RealmsGiven`, `WholesGiven`).

`IsDdl` says that the root and the parts the walk takes as constants are those of DDL (the run's are). The
first part shows that the walk is about the documents it was asked about: `CrawlInv` says that
every pair to come lies in them, under a table of rules of DDL that fits it (an array under a
mapping resolver of keys, never under one of objects) and that the resolver's answer is one to one
(`MappingContract`). Tables are nested records, and a rule that refers further up is lazy, so that each
is of bounded depth (`IsTable`); no recursive predicate is needed. For `ToldOnce`, `TellInv` ties every
difference of a pair to a footprint in `compared`: a footprint names both declarations, so the same declarations
cannot be met again; for what only one side has there is the list of differences told.

The second part follows the rules that can be breaking. Only three are: of a table, of a column and
of the name of a type (`ddl.classify.ts`). `ChainInv` says of every pair to come that it is on the
way from the realm to one of these, at its very place in both documents (`AtSchema`, `AtTable`, ...
`AtTypeName`), or is an object beside the way, or under a table with no such verdict (`IsCalm`).
Names on the way agree, since the elements of an array are paired by name (`NamesPaired`), so the
place of a difference is the place of a query. `JustInv` is what is wanted of each difference made:
a table removed loses the query that reads it (`TableLeft`), a column the query that selects it
(`ColumnLeft`), and a type replaced, with a family not the same, the operation
on its values (`OperationsDiffer`: two types with one operation have one family).

The third part goes the other way. A query that is lost has a `Goal` (`LossHasGoal`): its table is gone
(`TableLoss`), or its column (`ColumnLoss`), or the operation on its values is another one
(`OperationLoss`), and the steps above it are there on both sides (`Ladder`). `CoverInv` says that each goal
is told already, or that a pair still to come lies on the way to it (`Rung`) and no pair further down has
been met (`Unseen`). That last part is what the reuse of footprints could break: a pair met before at
another place would be settled without being entered. It does not, since a declaration on the way
lies at one place only: `PathInv` says that whoever stands there has come by that path, under the rules
of that step. What is removed is told once, by its declaration, so `RemovalInv` says that such a
difference, if there already is one, is the very one wanted: breaking, and at that path. The step of the crawl is `CoverStep`:
at the head of the crawl the way goes one rung down (`WayGoesOn`), or its end is told (`LossLeft`), and the
rest of it stays (`RestLeads`). When nothing is left to go (`Done`), every goal is told, and
the difference is at the place of the query (`LossPlace`). Together with AlarmsJustified this is the
contract of docs/plans/ddlapi-changes-reporting.md in both directions.

`AggregateDiffs_proofs` proves, for every set of objects and differences, every document over
them, shared and cyclic ones included, and every bound:

* **AggregateInvariant**: `Spec => []AggregateInv`.
* **RootIsExact**: `Spec => []RootExact`, the aggregate of the root is everything below it.
* **RollupIsExact**: `Spec => []RollupExact`, no object ever has too much, and one that reaches
  no cycle has everything once it is left.

`RootExact` says nothing before the walk ends, and in a cycle an object is stored with less than
is below it. What makes it true all the same is `Carried`: the own differences of an object the
walk has left are in the findings of some open call, so they come to the root whatever the
objects between have stored; with `Entered` (an object left holds only objects entered) the
entered objects are a closed set when the root is left, hence all that it reaches.
`RollupExact` needs `Complete` (away from cycles a call has everything below the children it is
done with) and `Chained` (each open object is held by the one before it): an object met again
while open reaches the innermost one, so that one reaches a cycle (`MetOpenIsCyclic`). TLC agreed with
each part of the invariant on the documents of aggregate_rollup before it was proved.
There is one lemma per action, two for `Leave` (of the root, of another object).

Assumptions, all of which TLC evaluates in the runs of their modules: `JsoAssumption` and
`MergeCrawlAssumption` (constants have their shapes and inputs are document pairs),
`AggregateAssumption` (documents have their shape), `RulesAssumption` (the markers are no verdicts),
`CombinerAssumption` (combiners have their shape, differences and parts are finite sets),
`SchemaRulesAssumption` (bounds are integers, no marker is one), `VerdictsAssumption` (inputs are
schemas of their encoding, and a comparison across versions is not one of draft 04),
`DdlRulesAssumption` (the marker for no table is not the name of one) and
`ResolversAssumption`: keys of an object are distinct; no asterisk is written in a path, where it
stands for a hidden parameter; a base path has no parameters; parameters are distinct by location and
name, those of the path are named in it once; and parameters are asked about under two paths with
equally many of them. The last holds of paths that `pathMappingResolver` paired. It does not of those
`singleOperationPathMappingResolver` pairs without looking: with `/{a}/{b}` and `/{b}` two
parameters may be mapped to one, and nothing is claimed of that.

Only model-checked:

* Of the engines, `SilentIffSame`, `ClientsWarned`, `AlarmJustified`, `RiskyIffNewValue`,
  `ConsumersWarned`, `WarningsJustified` and `AccessWarned`: what is told or lost is a RECURSIVE
  operator over documents, for which the prover has no backend.
* `FootprintDecides`, a fact about the tables of OpenAPI and AsyncAPI and no others.
* Termination, which is liveness, and the three runs that are violated.

## 5. Not modelled

* The crawler, the normalizer and the denormalizer of the other package: the crawl order is
  abstracted, the normalized document is the input.
* Descriptions: only wording.
* In MergeCrawl: adapters and compare resolvers (RuleWalk has them; CombinerMatch models the one
  of JSON Schema, apart from the crawl), denormalization of the result. Its differences carry
  no verdict; Verdicts and RuleWalk give them theirs.
* In RuleWalk: the merged document, meta records, custom scopes, and the caller's own rules.
* In OpenApiRules: the mode of one operation and synthetic differences (OpenApiMapping has the
  resolvers of both), OpenAPI 3.1, callbacks (no rules), combiners, `not` and the keywords with
  numbers. The adapters between combiners and plain schemas (`jsonSchema.adapter.ts`).
* In DdlRules: dialects other than PostgreSQL, of which the code has none.
* The entry point: it picks a table by two types and fills in options.
* In CombinerMatch: combiners that are not arrays, which are one replace difference, and sparse
  arrays.
* In Verdicts: keywords whose rule is constant (OpenApiRules has them) and the type *nothing*.
* A custom scope provider whose value varies per visit: it would disable the reuse that bounds
  a cyclic comparison, and the contract of `valueAt` (`src/types/compare.ts`) excludes it.

## 6. Plan

In this order; each item is a module with its runs, then its theorems.

1. **Adapters of JSON Schema**: schemas and combiners made alike before they are compared
   (`jsonSchema.adapter.ts`, `jsonSchema.utils.ts`, nullable to anyOf), as adapters of OpenApiRules,
   with combiners in its documents and CombinerMatch as their compare resolver.
2. **Denormalize**: the memo that decides which parts of the merged document stay normalized
   (`compare.ts:493-552`).
3. **CustomScope** as a detailed interner shown to implement the records used here.
4. Documents of one operation, and OpenAPI 3.1, in the run protocols.

Theorems still to prove: of RuleWalk, for every rule table, that nothing is reported twice below one
footprint and that what is reused was settled, as `CrawlInv` is for MergeCrawl; that the walk tells a
pair of equal documents nothing; and of the other engines those losses that do not
recur (access, parameters, media types), once they are told apart from the recursive ones.
