------------------------------- MODULE MergeCrawl -------------------------------
(***************************************************************************)
(* The comparison of two documents (compareInternal and the merge hook of  *)
(* core/compare.ts): a depth-first crawl of the before document that walks *)
(* the after document beside it, fills a merged document and reports the   *)
(* differences.  What makes it terminate on a cyclic document, and report  *)
(* a shared subtree once, is a reuse cache keyed by the footprint of a     *)
(* comparison.                                                             *)
(*                                                                         *)
(* The merged object a footprint produced is named by that footprint.  The *)
(* order of the keys of a node is the order of the document's text, so the *)
(* crawl takes any of the keys that are left.                              *)
(***************************************************************************)
EXTENDS Jso, Sequences, FiniteSetsExt

CONSTANTS
  Input,    \* the document pairs a comparison may be given
  MaxDepth  \* bound: the crawl is not followed below this many open nodes

ASSUME MergeCrawlAssumption ==
  /\ \A d \in Input : IsDocumentPair(d)
  /\ MaxDepth \in Nat \ {0}

VARIABLES
  doc,     \* the document pair under comparison
  stack,   \* the open nodes of the crawl, outermost first
  cache,   \* mergedJsoCache: footprint -> reusable merge result
  created, \* createdMergedJso: merged objects the crawl has descended for
  merged,  \* the merged objects: footprint -> key -> value or merged object
  meta,    \* the diff record under metaKey of each merged object
  diffs    \* the differences reported through onDiff, a set of objects

vars == <<doc, stack, cache, created, merged, meta, diffs>>

Footprint ==
  [b : Value, a : Value, pb : Path, pa : Path, scope : Scope, custom : CustomScope]

PairOf(f) == [b |-> f.b, a |-> f.a, scope |-> f.scope, custom |-> f.custom]

\* The pseudo node { [JSO_ROOT]: document } the crawl starts from.
RootFootprint ==
  [b |-> BeforeRoot, a |-> AfterRoot, pb |-> NoPath, pa |-> NoPath,
   scope |-> RootScope, custom |-> EMPTY_CUSTOM_SCOPE]

(***************************************************************************)
(* A reported diff is an object: two of them with the same contents differ *)
(* in "by", the evaluation that made them.  An added or removed value has  *)
(* its diff made once per entry of diffUniquenessCache, whose key is the   *)
(* very contents, so there "by" is Unset.                                  *)
(***************************************************************************)
DiffObject == [of : Difference, by : Footprint \cup {Unset}]

\* Mutant: no diffUniquenessCache, each exit makes its diffs anew.
UncachedChildDiff(difference) == [of |-> difference, by |-> stack[Len(stack)].fp]

getOrCreateChildDiff(difference) == [of |-> difference, by |-> Unset]

Top == stack[Len(stack)]

\* The pair whose children the crawl is visiting.
Here == PairOf(Top.fp)

CanVisit(k) == stack # <<>> /\ k \in Top.todo

\* Mutant: objects and arrays are not looked up in the reuse cache.
IsMissOrContainer(f) == f \notin DOMAIN cache \/ f.b \in Node

IsMiss(f) == f \notin DOMAIN cache

-----------------------------------------------------------------------------
(***************************************************************************)
(* The footprint of a child.  cleanUpRecursive replaces the path of a node *)
(* by the path of its outermost open ancestor with the same value, so that *)
(* a node met again inside itself has the footprint it was opened under.   *)
(***************************************************************************)
Outermost(S) == CHOOSE i \in S : \A j \in S : i <= j

OpenBefore(v) == {i \in 2 .. Len(stack) : stack[i].fp.b = v}
OpenAfter(v)  == {i \in 2 .. Len(stack) : stack[i].fp.a = v}

\* Mutant: the path of the edge, as if cleanUpRecursive were not called.
OwnPath(v, own) == own

cleanUpBefore(v, own) ==
  IF OpenBefore(v) = {} THEN own ELSE stack[Outermost(OpenBefore(v))].db

cleanUpAfter(v, own) ==
  IF OpenAfter(v) = {} THEN own ELSE stack[Outermost(OpenAfter(v))].da

\* Mutant: the custom scope of the parent, without what the provider answered for the child.
InheritedFootprint(k) ==
  LET c == ChildPair(doc, Here, k)
      m == KeyMap(doc, Here)
  IN  [b |-> c.b, a |-> c.a,
       pb |-> cleanUpBefore(c.b, doc.decl[Here.b][k]),
       pa |-> cleanUpAfter(c.a, doc.decl[Here.a][m[k]]),
       scope |-> c.scope, custom |-> Here.custom]

ChildFootprint(k) ==
  LET c == ChildPair(doc, Here, k)
      m == KeyMap(doc, Here)
  IN  [b |-> c.b, a |-> c.a,
       pb |-> cleanUpBefore(c.b, doc.decl[Here.b][k]),
       pa |-> cleanUpAfter(c.a, doc.decl[Here.a][m[k]]),
       scope |-> c.scope, custom |-> c.custom]

-----------------------------------------------------------------------------
Empty == [x \in {} |-> Unset]

Put(f, k, v) == [x \in DOMAIN f \cup {k} |-> IF x = k THEN v ELSE f[x]]

Overlay(f, g) == [x \in DOMAIN f \cup DOMAIN g |-> IF x \in DOMAIN g THEN g[x] ELSE f[x]]

SetChild(k, v) == merged' = [merged EXCEPT ![Top.fp] = Put(@, k, v)]

\* Mutant: a diff already recorded under the key is kept.
KeepFirstDiff(record, k, entries) ==
  IF entries = {} \/ k \in DOMAIN record
  THEN record ELSE Put(record, k, CHOOSE e \in entries : TRUE)

\* addDiffObjectToContainer: one diff per key of the record, the last one stays.
addDiffObjectToContainer(record, k, entries) ==
  IF entries = {} THEN record ELSE Put(record, k, CHOOSE e \in entries : TRUE)

Consume(k) == [stack EXCEPT ![Len(stack)].todo = @ \ {k}]

(***************************************************************************)
(* The visits of the hook.  A key without a counterpart keeps its value.   *)
(***************************************************************************)
KeepRemoved(k) ==
  /\ CanVisit(k)
  /\ k \notin DOMAIN KeyMap(doc, Here)
  /\ SetChild(k, doc.at[Here.b][k])
  /\ stack' = Consume(k)
  /\ UNCHANGED <<doc, cache, created, meta, diffs>>

\* ignoreDifference: the after value is adopted and nothing below is compared.
AdoptIgnored(k) ==
  /\ CanVisit(k)
  /\ k \in DOMAIN KeyMap(doc, Here)
  /\ Rule[k].ignoreDifference
  /\ SetChild(MergeKey(doc, Here, k), doc.at[Here.a][KeyMap(doc, Here)[k]])
  /\ stack' = Consume(k)
  /\ UNCHANGED <<doc, cache, created, meta, diffs>>

\* Mutant: only the first holder of a shared value gets its merged object.
ReuseUnlinked(k) ==
  LET f == ChildFootprint(k)
      mk == MergeKey(doc, Here, k)
  IN  /\ CanVisit(k) /\ k \in Compared(doc, Here) /\ ~IsMiss(f)
      /\ meta' = [meta EXCEPT ![Top.fp] = addDiffObjectToContainer(@, mk, cache[f].pull)]
      /\ stack' = Consume(k)
      /\ UNCHANGED <<doc, cache, created, merged, diffs>>

\* A hit: the cached value is linked, and the diff a leaf pulled up is recorded here too.
Reuse(k) ==
  LET f == ChildFootprint(k)
      mk == MergeKey(doc, Here, k)
  IN  /\ CanVisit(k)
      /\ k \in Compared(doc, Here)
      /\ ~IsMiss(f)
      /\ SetChild(mk, cache[f].value)
      /\ meta' = [meta EXCEPT ![Top.fp] = addDiffObjectToContainer(@, mk, cache[f].pull)]
      /\ stack' = Consume(k)
      /\ UNCHANGED <<doc, cache, created, diffs>>

\* The rename diff belongs to the evaluation of the child, so only a miss makes it.
Renames(k, f) ==
  IF k \in RenamedKeys(doc, Here)
  THEN {[of |-> DiffRenamed(doc, Here, k), by |-> f]} ELSE {}

\* A miss on two values that are not two objects or two arrays.
CompareLeaf(k) ==
  LET f == ChildFootprint(k)
      mk == MergeKey(doc, Here, k)
      replaced == IF f.b # f.a THEN {[of |-> DiffReplaced(doc, Here, k), by |-> f]} ELSE {}
  IN  /\ CanVisit(k)
      /\ k \in Compared(doc, Here)
      /\ IsMiss(f)
      /\ ~SameContainer(doc, f.b, f.a)
      /\ cache' = Put(cache, f, [value |-> f.a, pull |-> replaced])
      /\ SetChild(mk, f.a)
      /\ meta' = [meta EXCEPT ![Top.fp] =
                    addDiffObjectToContainer(
                      addDiffObjectToContainer(@, mk, Renames(k, f)), mk, replaced)]
      /\ diffs' = diffs \cup Renames(k, f) \cup replaced
      /\ stack' = Consume(k)
      /\ UNCHANGED <<doc, created>>

\* A miss on two objects or two arrays opens the pair, once per merged object.
Descend(k) ==
  LET f == ChildFootprint(k)
      mk == MergeKey(doc, Here, k)
      m == KeyMap(doc, Here)
  IN  /\ CanVisit(k)
      /\ k \in Compared(doc, Here)
      /\ IsMiss(f)
      /\ SameContainer(doc, f.b, f.a)
      /\ Len(stack) <= MaxDepth
      /\ cache' = Put(cache, f, [value |-> f, pull |-> {}])
      /\ created' = created \cup {f}
      /\ merged' = Put([merged EXCEPT ![Top.fp] = Put(@, mk, f)], f, Empty)
      /\ meta' = Put([meta EXCEPT ![Top.fp] =
                        addDiffObjectToContainer(@, mk, Renames(k, f))], f, Empty)
      /\ diffs' = diffs \cup Renames(k, f)
      /\ stack' = Append(Consume(k),
                         [fp |-> f, db |-> doc.decl[Here.b][k],
                          da |-> doc.decl[Here.a][m[k]], todo |-> DOMAIN doc.at[f.b]])
      /\ UNCHANGED doc

-----------------------------------------------------------------------------
(***************************************************************************)
(* Leaving a node.  Added elements of an array go behind the merged ones.  *)
(***************************************************************************)
Length(array) == IF DOMAIN array = {} THEN 0 ELSE 1 + Max(DOMAIN array)

\* Mutant: an added element goes to its index in the after array.
IndexInAfter(p, base, k) == k

KeyInMerge(p, base, k) ==
  IF p.b \in doc.array
  THEN Length(base) + Cardinality({x \in KeysToAdd(doc, p) : x < k})
  ELSE k

\* What the added keys hold, under the keys they get in the merge.
AddedEntries(p, base, entry) ==
  LET place == [k \in DOMAIN entry |-> KeyInMerge(p, base, k)]
  IN  [x \in {place[k] : k \in DOMAIN entry} |->
         entry[CHOOSE k \in DOMAIN entry : place[k] = x]]

Removals(p) ==
  [k \in ReportedRemovals(doc, p) |-> getOrCreateChildDiff(DiffRemoved(doc, p, k))]

Additions(p) ==
  [k \in ReportedAdditions(doc, p) |-> getOrCreateChildDiff(DiffAdded(doc, p, k))]

ExitHook ==
  LET f == Top.fp
      base == merged[f]
      added == AddedEntries(Here, base, [k \in KeysToAdd(doc, Here) |-> doc.at[f.a][k]])
      entries == Overlay(Removals(Here), AddedEntries(Here, base, Additions(Here)))
  IN  /\ Len(stack) > 1
      /\ Top.todo = {}
      /\ merged' = [merged EXCEPT ![f] = Overlay(base, added)]
      /\ meta' = [meta EXCEPT ![f] = Overlay(@, entries)]
      /\ diffs' = diffs \cup {entries[x] : x \in DOMAIN entries}
      /\ stack' = SubSeq(stack, 1, Len(stack) - 1)
      /\ UNCHANGED <<doc, cache, created>>

\* compareInternal returns: the pseudo root has no exit hook.
Return ==
  /\ Len(stack) = 1
  /\ Top.todo = {}
  /\ stack' = <<>>
  /\ UNCHANGED <<doc, cache, created, merged, meta, diffs>>

-----------------------------------------------------------------------------
Init ==
  /\ doc \in Input
  /\ stack = <<[fp |-> RootFootprint, db |-> NoPath, da |-> NoPath, todo |-> {RootKey}]>>
  /\ cache = Empty
  /\ created = {}
  /\ merged = [f \in {RootFootprint} |-> Empty]
  /\ meta = [f \in {RootFootprint} |-> Empty]
  /\ diffs = {}

Visit(k) ==
  KeepRemoved(k) \/ AdoptIgnored(k) \/ Reuse(k) \/ CompareLeaf(k) \/ Descend(k)

Next == (\E k \in Key : Visit(k)) \/ ExitHook \/ Return

\* One call on one thread: nothing can hold the crawl back.
Spec == Init /\ [][Next]_vars /\ WF_vars(Next)

-----------------------------------------------------------------------------
(***************************************************************************)
(* Properties                                                              *)
(***************************************************************************)
Frame ==
  [fp : Footprint, db : Path, da : Path, todo : SUBSET Key]

\* Every variable has its shape: the caches and records are functions of footprints.
TypeOK ==
  /\ stack \in Seq(Frame)
  /\ DOMAIN cache \subseteq Footprint
  /\ \A f \in DOMAIN cache :
        cache[f] \in [value : Value \cup Footprint, pull : SUBSET DiffObject]
  /\ created \subseteq Footprint
  /\ DOMAIN merged = created \cup {RootFootprint}
  /\ DOMAIN meta = created \cup {RootFootprint}
  /\ diffs \subseteq DiffObject

(***************************************************************************)
(* The crawl never opens a pair of values inside itself: no two open nodes *)
(* compare the same values under the same scopes.  This is what keeps a    *)
(* recursive document from being unrolled, whatever path leads back into   *)
(* the recursion (cleanUpRecursive, the footprint and createdMergedJso).   *)
(***************************************************************************)
NoReentry ==
  \A i, j \in 2 .. Len(stack) :
     PairOf(stack[i].fp) = PairOf(stack[j].fp) => i = j

(***************************************************************************)
(* Why: open nodes are cached; open nodes with the same before value have  *)
(* the same before path in their footprints, the path the outermost of     *)
(* them was declared at; likewise for after.  So a pair met again inside   *)
(* itself has a footprint that is already in the cache.                    *)
(***************************************************************************)
OpenNodes ==
  /\ \A i \in 1 .. Len(stack) :
        LET fr == stack[i]
        IN  fr.fp.b \in Node /\ fr.fp.a \in Node /\ fr.todo \subseteq DOMAIN doc.at[fr.fp.b]
  /\ \A i \in 1 .. Len(stack) : stack[i].fp \in created \cup {RootFootprint}
  /\ \A i \in 2 .. Len(stack) : stack[i].fp \in DOMAIN cache

CleanPaths ==
  /\ \A i, j \in 2 .. Len(stack) :
        stack[i].fp.b = stack[j].fp.b => stack[i].fp.pb = stack[j].fp.pb
  /\ \A i, j \in 2 .. Len(stack) :
        stack[i].fp.a = stack[j].fp.a => stack[i].fp.pa = stack[j].fp.pa
  /\ \A i \in 2 .. Len(stack) :
        (\A j \in 2 .. i - 1 : stack[j].fp.b # stack[i].fp.b) => stack[i].fp.pb = stack[i].db
  /\ \A i \in 2 .. Len(stack) :
        (\A j \in 2 .. i - 1 : stack[j].fp.a # stack[i].fp.a) => stack[i].fp.pa = stack[i].da

CrawlInv == TypeOK /\ OpenNodes /\ CleanPaths /\ NoReentry

IsOpen(f) == \E i \in 1 .. Len(stack) : stack[i].fp = f

\* The merged objects the crawl has left.
Left == {f \in created : ~IsOpen(f)}

(***************************************************************************)
(* A merged object the crawl has left is whole: it holds one entry for     *)
(* every mapped, removed and added key, the removed values of before, the  *)
(* added values of after, and under a mapped key the merged object of      *)
(* exactly the child pair under its own scopes, or the after value.        *)
(***************************************************************************)
LinkedRight(f, k) ==
  LET c == ChildPair(doc, PairOf(f), k)
      v == merged[f][MergeKey(doc, PairOf(f), k)]
  IN  IF k \in Compared(doc, PairOf(f)) /\ SameContainer(doc, c.b, c.a)
      THEN v \in created /\ PairOf(v) = c
      ELSE v = c.a

MergedWhole ==
  \A f \in Left :
    LET p == PairOf(f)
    IN  /\ Cardinality(DOMAIN merged[f]) =
             Cardinality(DOMAIN doc.at[f.b]) + Cardinality(KeysToAdd(doc, p))
        /\ \A k \in DOMAIN KeyMap(doc, p) :
              MergeKey(doc, p, k) \in DOMAIN merged[f] /\ LinkedRight(f, k)
        /\ \A k \in Removed(doc, p) :
              k \in DOMAIN merged[f] /\ merged[f][k] = doc.at[f.b][k]
        /\ \A k \in KeysToAdd(doc, p) :
              \E x \in DOMAIN merged[f] : merged[f][x] = doc.at[f.a][k]

(***************************************************************************)
(* Diff should be unique by [type, beforeDeclarationPaths,                 *)
(* afterDeclarationPaths, scope, custom scope] (types/compare.ts): two     *)
(* reported objects never tell the same difference of the same place.      *)
(* A synthetic value, which has no declaration path, is told by its value. *)
(***************************************************************************)
DiffsUnique ==
  \A x, y \in diffs :
     /\ x.of.action = y.of.action
     /\ x.of.before = y.of.before /\ x.of.after = y.of.after
     /\ x.of.scope = y.of.scope /\ x.of.custom = y.of.custom
     /\ {x.of.before, x.of.after} = {NoPath} => x.of.subject = y.of.subject
     => x = y

(***************************************************************************)
(* The merged document and the list of differences tell the same story: a  *)
(* merged object the crawl has left records, at the key concerned, every   *)
(* replacement, removal and addition among its own keys, including those   *)
(* it shares with other merged objects through the reuse cache; what is    *)
(* recorded has been reported.                                             *)
(***************************************************************************)
RecordedAt(f, x, difference) ==
  /\ x \in DOMAIN meta[f]
  /\ meta[f][x].of.action = difference.action
  /\ meta[f][x].of.subject = difference.subject
  /\ meta[f][x].of.scope = difference.scope
  /\ meta[f][x].of.custom = difference.custom

MetaMatchesDiffs ==
  \A f \in Left :
    LET p == PairOf(f)
    IN  /\ \A k \in ReplacedKeys(doc, p) :
              RecordedAt(f, MergeKey(doc, p, k), DiffReplaced(doc, p, k))
        /\ \A k \in ReportedRemovals(doc, p) : RecordedAt(f, k, DiffRemoved(doc, p, k))
        /\ \A k \in ReportedAdditions(doc, p) :
              \E x \in DOMAIN meta[f] :
                 /\ RecordedAt(f, x, DiffAdded(doc, p, k))
                 /\ merged[f][x] = doc.at[f.a][k]
        /\ \A x \in DOMAIN meta[f] : x \in DOMAIN merged[f] /\ meta[f][x] \in diffs

(***************************************************************************)
(* A renamed key is recorded in the merged object that holds it, as the    *)
(* operation mode test expects of paths (test/openapi.diff.test.ts:182).   *)
(***************************************************************************)
RenamesRecorded ==
  \A f \in Left :
    \A k \in RenamedKeys(doc, PairOf(f)) :
       MergeKey(doc, PairOf(f), k) \in DOMAIN meta[f]

\* A comparison returns, however its documents recur.
Termination == <>(stack = <<>>)

(***************************************************************************)
(* The crawl implements DiffReport: a pair is compared when the crawl      *)
(* opens it, and a diff is reported when its object is.                    *)
(***************************************************************************)
ComparedPairs == {RootPair} \cup {PairOf(f) : f \in created}

Report == INSTANCE DiffReport WITH
  compared <- ComparedPairs,
  reported <- {x.of : x \in diffs},
  done     <- stack = <<>>

ReportSpec == Report!ReportSpec

=============================================================================
