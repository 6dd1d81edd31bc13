---------------------------- MODULE DiffReport_proofs ----------------------------
(***************************************************************************)
(* Proofs that the crawl implements DiffReport and that no difference is   *)
(* told twice, for documents whose nodes are declared where they are       *)
(* defined (DeclaredOnce), as $ref leaves them.                            *)
(***************************************************************************)
EXTENDS MergeCrawl_proofs

-----------------------------------------------------------------------------
(***************************************************************************)
(* The inductive invariant of the refinement.                              *)
(***************************************************************************)

\* The path a difference tells of value v, evaluated under a footprint with this path.
Told(v, path, told) ==
  IF v \in Node
  THEN \A o \in Node : \A k \in DOMAIN doc.at[o] : doc.at[o][k] = v => doc.decl[o][k] = told
  ELSE told = path

\* The diff a leaf pulls up has the paths of every place the leaf can be met at.
PullTold ==
  \A g \in DOMAIN cache : \A e \in cache[g].pull :
    Told(g.b, g.pb, e.of.before) /\ Told(g.a, g.pa, e.of.after)

Reported(difference) == \E e \in diffs : e.of = difference

\* A replaced value that has been visited has been reported with its own paths.
ReplacedReported ==
  \A f \in created \cup {RootFootprint} : \A k \in ReplacedKeys(doc, PairOf(f)) :
    Seen(f, k) => Reported(DiffReplaced(doc, PairOf(f), k))

ReportInv == PullTold /\ ReplacedReported

(***************************************************************************)
(* The inductive invariant of uniqueness: a diff that is made per          *)
(* evaluation tells the paths of the footprint evaluated, which are those  *)
(* of a place of each document.                                            *)
(***************************************************************************)
Removal(x, B) ==
  /\ x.of.action = "remove" /\ x.of.after = NoPath /\ x.by = Unset
  /\ \E o \in B : \E k \in DOMAIN doc.at[o] :
        x.of.before = doc.decl[o][k] /\ x.of.subject = <<doc.at[o][k], Unset>>

Addition(x, A) ==
  /\ x.of.action = "add" /\ x.of.before = NoPath /\ x.by = Unset
  /\ \E o \in A : \E k \in DOMAIN doc.at[o] :
        x.of.after = doc.decl[o][k] /\ x.of.subject = <<Unset, doc.at[o][k]>>

PerEvaluation(x) == x.of.action \in {"replace", "rename"}

Evaluation(x) ==
  /\ PerEvaluation(x) /\ x.by \in DOMAIN cache
  /\ x.of.before = x.by.pb /\ x.of.after = x.by.pa
  /\ x.of.scope = x.by.scope /\ x.of.custom = x.by.custom

\* Value v is held in the document S where the path says.
Placed(v, path, S) ==
  \E o \in S : \E k \in DOMAIN doc.at[o] : doc.at[o][k] = v /\ doc.decl[o][k] = path

OpenPlaced(B, A) ==
  /\ \A i \in 1 .. Len(stack) : stack[i].fp.b \in B /\ stack[i].fp.a \in A
  /\ \A i \in 2 .. Len(stack) : /\ Placed(stack[i].fp.b, stack[i].db, B)
                                /\ Placed(stack[i].fp.a, stack[i].da, A)

CachePlaced(B, A) ==
  \A g \in DOMAIN cache : Placed(g.b, g.pb, B) /\ Placed(g.a, g.pa, A)

DiffsPlaced(B, A) == \A x \in diffs : Removal(x, B) \/ Addition(x, A) \/ Evaluation(x)

OncePerEvaluation ==
  \A x, y \in diffs :
    PerEvaluation(x) /\ x.by = y.by /\ x.of.action = y.of.action => x = y

UniqueInv(B, A) ==
  OpenPlaced(B, A) /\ CachePlaced(B, A) /\ DiffsPlaced(B, A) /\ OncePerEvaluation

-----------------------------------------------------------------------------
(***************************************************************************)
(* ReportInv is kept by every step.                                        *)
(***************************************************************************)

\* A leaf is never open, so cleanUpRecursive leaves it its own path.
LEMMA LeafPaths ==
  ASSUME doc \in Input, CrawlInv, stack # <<>>, NEW k \in Compared(doc, Here),
         NEW f, f = ChildFootprint(k)
  PROVE  /\ f.b = doc.at[Here.b][k] /\ f.a = doc.at[Here.a][KeyMap(doc, Here)[k]]
         /\ k \in DOMAIN doc.at[Here.b] /\ KeyMap(doc, Here)[k] \in DOMAIN doc.at[Here.a]
         /\ Here.b \in Node /\ Here.a \in Node
         /\ f.b \notin Node => f.pb = doc.decl[Here.b][k]
         /\ f.a \notin Node => f.pa = doc.decl[Here.a][KeyMap(doc, Here)[k]]
<1>1. /\ Here \in Pair /\ Here.b \in Node /\ Here.a \in Node
      /\ k \in DOMAIN KeyMap(doc, Here) /\ IsDocumentPair(doc)
  BY HereTyping, InputTyping DEF CrawlInv, Typed, Compared
<1>2. k \in DOMAIN doc.at[Here.b] /\ KeyMap(doc, Here)[k] \in DOMAIN doc.at[Here.a]
  BY <1>1, ChildTyping
<1>3. /\ f.b = doc.at[Here.b][k] /\ f.a = doc.at[Here.a][KeyMap(doc, Here)[k]]
      /\ f.pb = cleanUpBefore(f.b, doc.decl[Here.b][k])
      /\ f.pa = cleanUpAfter(f.a, doc.decl[Here.a][KeyMap(doc, Here)[k]])
  BY DEF ChildFootprint, ChildPair
<1>4. \A i \in 2 .. Len(stack) : stack[i].fp.b \in Node /\ stack[i].fp.a \in Node
  <2>1. Len(stack) \in Nat
    BY DEF CrawlInv, TypeOK
  <2>2. QED
    BY <2>1 DEF CrawlInv, OpenNodes
<1>5. /\ f.b \notin Node => OpenBefore(f.b) = {}
      /\ f.a \notin Node => OpenAfter(f.a) = {}
  BY <1>4 DEF OpenBefore, OpenAfter
<1>6. QED
  BY <1>1, <1>2, <1>3, <1>5 DEF cleanUpBefore, cleanUpAfter

\* The own path of a child is what Told says of it.
LEMMA OwnPathTold ==
  ASSUME doc \in Input, DeclaredOnce(doc), CrawlInv, stack # <<>>,
         NEW k \in Compared(doc, Here), NEW f, f = ChildFootprint(k),
         NEW told
  PROVE  /\ Told(f.b, f.pb, told) <=> told = doc.decl[Here.b][k]
         /\ Told(f.a, f.pa, told) <=> told = doc.decl[Here.a][KeyMap(doc, Here)[k]]
<1>1. /\ f.b = doc.at[Here.b][k] /\ f.a = doc.at[Here.a][KeyMap(doc, Here)[k]]
      /\ k \in DOMAIN doc.at[Here.b] /\ KeyMap(doc, Here)[k] \in DOMAIN doc.at[Here.a]
      /\ Here.b \in Node /\ Here.a \in Node
      /\ f.b \notin Node => f.pb = doc.decl[Here.b][k]
      /\ f.a \notin Node => f.pa = doc.decl[Here.a][KeyMap(doc, Here)[k]]
  BY LeafPaths
<1>2. ASSUME NEW o \in Node, NEW l \in DOMAIN doc.at[o]
      PROVE  /\ f.b \in Node /\ doc.at[o][l] = f.b => doc.decl[o][l] = doc.decl[Here.b][k]
             /\ f.a \in Node /\ doc.at[o][l] = f.a
                  => doc.decl[o][l] = doc.decl[Here.a][KeyMap(doc, Here)[k]]
  BY <1>1 DEF DeclaredOnce
<1>3. QED
  BY <1>1, <1>2 DEF Told

\* What was reported stays reported, so only what a step visits is in question.
LEMMA ReplacedStays ==
  ASSUME ReplacedReported, doc' = doc, diffs \subseteq diffs',
         \A f \in created' \cup {RootFootprint} : \A k \in ReplacedKeys(doc, PairOf(f)) :
           Seen(f, k)' => \/ f \in created \cup {RootFootprint} /\ Seen(f, k)
                          \/ \E e \in diffs' : e.of = DiffReplaced(doc, PairOf(f), k)
  PROVE  ReplacedReported'
<1>1. ASSUME NEW f \in created' \cup {RootFootprint}, NEW k \in ReplacedKeys(doc, PairOf(f)),
             Seen(f, k)'
      PROVE  \E e \in diffs' : e.of = DiffReplaced(doc, PairOf(f), k)
  BY <1>1 DEF ReplacedReported, Reported
<1>2. QED
  BY <1>1 DEF ReplacedReported, Reported, PairOf

\* The visit of a key that is not replaced, or whose replacement is reported, keeps it so.
LEMMA VisitReported ==
  ASSUME doc \in Input, CrawlInv, MergedInv, ReplacedReported, stack # <<>>,
         NEW t, t = Top.fp, NEW k, Visits(t, k), doc' = doc, diffs \subseteq diffs',
         MergedInv',
         \A g \in created' \ (created \cup {RootFootprint}) : \A l \in KeysOf(g) : ~Seen(g, l)',
         k \in ReplacedKeys(doc, Here) => \E e \in diffs' : e.of = DiffReplaced(doc, Here, k)
  PROVE  ReplacedReported'
<1>1. Here = PairOf(t) /\ t \in created \cup {RootFootprint}
  BY TopFacts
<1>2. ASSUME NEW f \in created' \cup {RootFootprint}, NEW l \in ReplacedKeys(doc, PairOf(f)),
             Seen(f, l)'
      PROVE  \/ f \in created \cup {RootFootprint} /\ Seen(f, l)
             \/ \E e \in diffs' : e.of = DiffReplaced(doc, PairOf(f), l)
  <2>1. CASE f \in created \cup {RootFootprint}
    BY <1>1, <1>2, <2>1 DEF Visits
  <2>2. CASE f \in created' \ (created \cup {RootFootprint})
    <3>1. l \in DOMAIN KeyMap(doc, PairOf(f)) /\ PairOf(f).b = f.b
      BY DEF ReplacedKeys, Compared, PairOf
    <3>2. l \notin KeysOf(f)
      BY <1>2, <2>2
    <3>3. PairOf(f).b \in Node /\ PairOf(f).a \in Node
      BY <2>2 DEF MergedInv, CacheRight, SameContainer, PairOf
    <3>4. l \in DOMAIN doc.at[PairOf(f).b]
      BY <3>1, <3>3, InputTyping, PairKeys
    <3>5. QED
      BY <3>1, <3>2, <3>4 DEF KeysOf
  <2>3. QED
    BY <2>1, <2>2
<1>3. QED
  BY <1>2, ReplacedStays

\* Linking a cached result: the diff of a leaf is the diff this place asks for.
LEMMA ReuseReports ==
  ASSUME doc \in Input, DeclaredOnce(doc), CrawlInv, MergedInv, ReportInv, NEW k, Reuse(k),
         MergedInv'
  PROVE  ReportInv'
<1>1. PICK t : t = Top.fp
  OBVIOUS
<1>2. PICK f : f = ChildFootprint(k)
  OBVIOUS
<1>3. /\ stack # <<>> /\ k \in Compared(doc, Here) /\ f \in DOMAIN cache
      /\ stack' = Consume(k) /\ UNCHANGED <<doc, cache, created, diffs>>
  BY <1>1, <1>2 DEF Reuse, CanVisit, IsMiss
<1>4. Visits(t, k)
  BY <1>1, <1>3, ConsumeVisits
<1>5. ASSUME k \in ReplacedKeys(doc, Here)
      PROVE  \E e \in diffs : e.of = DiffReplaced(doc, Here, k)
  <2> DEFINE c == ChildPair(doc, Here, k)
  <2>1. /\ f.b = c.b /\ f.a = c.a /\ f.scope = c.scope /\ f.custom = c.custom
        /\ k \in DOMAIN KeyMap(doc, Here)
    BY <1>2, <1>3, ChildFacts
  <2>2. f.b # f.a /\ ~SameContainer(doc, f.b, f.a)
    BY <1>5, <2>1 DEF ReplacedKeys
  <2>3. PICK e \in diffs : /\ cache[f].pull = {e} /\ e.of.action = "replace"
                           /\ e.of.subject = <<f.b, f.a>>
                           /\ e.of.scope = f.scope /\ e.of.custom = f.custom
    BY <1>3, <2>2 DEF MergedInv, CacheRight, PullRight
  <2>4. Told(f.b, f.pb, e.of.before) /\ Told(f.a, f.pa, e.of.after)
    BY <1>3, <2>3 DEF ReportInv, PullTold
  <2>5. /\ e.of.before = doc.decl[Here.b][k]
        /\ e.of.after = doc.decl[Here.a][KeyMap(doc, Here)[k]]
    <3>1. \A told : /\ Told(f.b, f.pb, told) <=> told = doc.decl[Here.b][k]
                    /\ Told(f.a, f.pa, told) <=> told = doc.decl[Here.a][KeyMap(doc, Here)[k]]
      BY <1>2, <1>3, OwnPathTold
    <3>2. QED
      BY <2>4, <3>1
  <2>6. e.of \in Difference
    BY DEF CrawlInv, TypeOK, DiffObject
  <2>7. e.of = DiffReplaced(doc, Here, k)
    BY <2>1, <2>3, <2>5, <2>6 DEF DiffReplaced, Difference
  <2>8. QED
    BY <2>7
<1>6. ReplacedReported'
  BY <1>1, <1>3, <1>4, <1>5, VisitReported DEF ReportInv
<1>7. PullTold'
  BY <1>3 DEF ReportInv, PullTold, Told
<1>8. QED
  BY <1>6, <1>7 DEF ReportInv

\* A key without a counterpart and an ignored key are not replaced.
LEMMA KeepReports ==
  ASSUME doc \in Input, CrawlInv, MergedInv, ReportInv, MergedInv',
         NEW k, KeepRemoved(k) \/ AdoptIgnored(k)
  PROVE  ReportInv'
<1>1. PICK t : t = Top.fp
  OBVIOUS
<1>2. /\ stack # <<>> /\ k \notin Compared(doc, Here)
      /\ stack' = Consume(k) /\ UNCHANGED <<doc, cache, created, diffs>>
  BY DEF KeepRemoved, AdoptIgnored, CanVisit, Compared
<1>3. Visits(t, k)
  BY <1>1, <1>2, ConsumeVisits
<1>4. k \notin ReplacedKeys(doc, Here)
  BY <1>2 DEF ReplacedKeys
<1>5. ReplacedReported'
  BY <1>1, <1>2, <1>3, <1>4, VisitReported DEF ReportInv
<1>6. PullTold'
  BY <1>2 DEF ReportInv, PullTold, Told
<1>7. QED
  BY <1>5, <1>6 DEF ReportInv

\* Comparing two leaves reports the replacement and caches it with the paths of this place.
LEMMA LeafReports ==
  ASSUME doc \in Input, DeclaredOnce(doc), CrawlInv, MergedInv, ReportInv,
         NEW k, CompareLeaf(k), MergedInv'
  PROVE  ReportInv'
<1>1. PICK t : t = Top.fp
  OBVIOUS
<1>2. PICK f : f = ChildFootprint(k)
  OBVIOUS
<1> DEFINE e == [of |-> DiffReplaced(doc, Here, k), by |-> f]
           replaced == IF f.b # f.a THEN {e} ELSE {}
<1>3. /\ stack # <<>> /\ k \in Compared(doc, Here) /\ f \notin DOMAIN cache
      /\ cache' = Put(cache, f, [value |-> f.a, pull |-> replaced])
      /\ diffs' = diffs \cup Renames(k, f) \cup replaced
      /\ stack' = Consume(k) /\ UNCHANGED <<doc, created>>
  BY <1>1, <1>2 DEF CompareLeaf, CanVisit, IsMiss
<1>4. Visits(t, k)
  BY <1>1, <1>3, ConsumeVisits
<1>5. k \in ReplacedKeys(doc, Here) => e \in diffs'
  <2>1. /\ f.b = ChildPair(doc, Here, k).b /\ f.a = ChildPair(doc, Here, k).a
    BY <1>2, <1>3, ChildFacts
  <2>2. k \in ReplacedKeys(doc, Here) => f.b # f.a
    BY <2>1 DEF ReplacedKeys
  <2>3. QED
    BY <1>3, <2>2
<1>6. ReplacedReported'
  BY <1>1, <1>3, <1>4, <1>5, VisitReported DEF ReportInv
<1>7. PullTold'
  <2>1. /\ DOMAIN cache' = DOMAIN cache \cup {f} /\ cache'[f].pull = replaced
        /\ \A g \in DOMAIN cache : cache'[g] = cache[g]
    BY <1>3 DEF Put
  <2>2. \A d \in replaced : Told(f.b, f.pb, d.of.before) /\ Told(f.a, f.pa, d.of.after)
    <3>1. \A told : /\ Told(f.b, f.pb, told) <=> told = doc.decl[Here.b][k]
                    /\ Told(f.a, f.pa, told) <=> told = doc.decl[Here.a][KeyMap(doc, Here)[k]]
      BY <1>2, <1>3, OwnPathTold
    <3>2. \A d \in replaced : /\ d.of.before = doc.decl[Here.b][k]
                               /\ d.of.after = doc.decl[Here.a][KeyMap(doc, Here)[k]]
      BY DEF DiffReplaced
    <3>3. QED
      BY <3>1, <3>2
  <2>3. \A v, path, told : Told(v, path, told)' <=> Told(v, path, told)
    BY <1>3 DEF Told
  <2> HIDE DEF replaced
  <2>4. ASSUME NEW g \in DOMAIN cache', NEW d \in cache'[g].pull
        PROVE  Told(g.b, g.pb, d.of.before) /\ Told(g.a, g.pa, d.of.after)
    BY <2>1, <2>2, <2>4 DEF ReportInv, PullTold
  <2>5. QED
    BY <2>3, <2>4 DEF PullTold
<1>8. QED
  BY <1>6, <1>7 DEF ReportInv

\* Opening a pair replaces nothing.
LEMMA DescendReports ==
  ASSUME doc \in Input, CrawlInv, MergedInv, ReportInv, NEW k, Descend(k), MergedInv'
  PROVE  ReportInv'
<1>1. PICK t : t = Top.fp
  OBVIOUS
<1>2. PICK f : f = ChildFootprint(k)
  OBVIOUS
<1>3. /\ stack # <<>> /\ k \in Compared(doc, Here) /\ f \notin DOMAIN cache
      /\ SameContainer(doc, f.b, f.a)
      /\ cache' = Put(cache, f, [value |-> f, pull |-> {}])
      /\ created' = created \cup {f} /\ diffs \subseteq diffs' /\ doc' = doc
  BY <1>1, <1>2 DEF Descend, CanVisit, IsMiss
<1>4. Visits(t, k) /\ \A l \in KeysOf(f) : ~Seen(f, l)'
  BY <1>1, <1>2, DescendVisits
<1>5. k \notin ReplacedKeys(doc, Here)
  <2>1. /\ f.b = ChildPair(doc, Here, k).b /\ f.a = ChildPair(doc, Here, k).a
    BY <1>2, <1>3, ChildFacts
  <2>2. QED
    BY <1>3, <2>1 DEF ReplacedKeys
<1>6. ReplacedReported'
  BY <1>1, <1>3, <1>4, <1>5, VisitReported DEF ReportInv
<1>7. PullTold'
  <2>1. /\ DOMAIN cache' = DOMAIN cache \cup {f} /\ cache'[f].pull = {}
        /\ \A g \in DOMAIN cache : cache'[g] = cache[g]
    BY <1>3 DEF Put
  <2>2. \A v, path, told : Told(v, path, told)' <=> Told(v, path, told)
    BY <1>3 DEF Told
  <2>3. QED
    BY <2>1, <2>2 DEF ReportInv, PullTold
<1>8. QED
  BY <1>6, <1>7 DEF ReportInv

\* Leaving a node reports what was added and removed, never less than before.
LEMMA ExitReportsMore ==
  ASSUME doc \in Input, CrawlInv, MergedInv, ReportInv, ExitHook
  PROVE  ReportInv'
<1>1. PICK t : t = Top.fp
  OBVIOUS
<1>2. /\ Top.todo = {} /\ stack # <<>> /\ stack' = SubSeq(stack, 1, Len(stack) - 1)
      /\ diffs \subseteq diffs' /\ UNCHANGED <<doc, cache, created>>
  BY DEF ExitHook, CrawlInv, TypeOK
<1>3. \A g, l : g # t => (Seen(g, l)' <=> Seen(g, l))
  BY <1>1, <1>2, PopCloses
<1>4. \A l : Seen(t, l)
  BY <1>1, <1>2, TopFacts
<1>5. \A g, l : Seen(g, l)' => Seen(g, l)
  BY <1>3, <1>4
<1>6. ReplacedReported'
  BY <1>2, <1>5, ReplacedStays DEF ReportInv
<1>7. QED
  BY <1>2, <1>6 DEF ReportInv, PullTold, Told

\* Returning reports nothing: the root has been visited.
LEMMA ReturnReports ==
  ASSUME doc \in Input, CrawlInv, MergedInv, ReportInv, Return
  PROVE  ReportInv' /\ \A g, l : Seen(g, l)
<1>1. PICK t : t = Top.fp
  OBVIOUS
<1>2. Len(stack) = 1 /\ Top.todo = {} /\ UNCHANGED <<doc, cache, created, diffs>>
  BY DEF Return
<1>3. \A g, l : Seen(g, l)
  BY <1>2 DEF Seen, Top
<1>4. ReplacedReported'
  BY <1>2, <1>3, ReplacedStays DEF ReportInv
<1>5. QED
  BY <1>2, <1>3, <1>4 DEF ReportInv, PullTold, Told

\* One case per action of the crawl.
LEMMA ReportStep ==
  ASSUME doc \in Input, DeclaredOnce(doc), CrawlInv, MergedInv, ReportInv, [Next]_vars, MergedInv'
  PROVE  ReportInv'
<1>1. ASSUME NEW k \in Key, Visit(k) PROVE ReportInv'
  <2>1. CASE KeepRemoved(k) \/ AdoptIgnored(k)
    BY <2>1, KeepReports
  <2>2. CASE Reuse(k)
    BY <2>2, ReuseReports
  <2>3. CASE CompareLeaf(k)
    BY <2>3, LeafReports
  <2>4. CASE Descend(k)
    BY <2>4, DescendReports
  <2>5. QED
    BY <1>1, <2>1, <2>2, <2>3, <2>4 DEF Visit
<1>2. CASE ExitHook
  BY <1>2, ExitReportsMore
<1>3. CASE Return
  BY <1>3, ReturnReports
<1>4. CASE UNCHANGED vars
  <2>1. \A g, l : Seen(g, l)' <=> Seen(g, l)
    BY <1>4 DEF vars, Seen
  <2>2. ReplacedReported'
    BY <1>4, <2>1, ReplacedStays DEF vars, ReportInv
  <2>3. QED
    BY <1>4, <2>2 DEF vars, ReportInv, PullTold, Told
<1>5. QED
  BY <1>1, <1>2, <1>3, <1>4 DEF Next

-----------------------------------------------------------------------------
(***************************************************************************)
(* The refinement: initial states map to initial states, and every step    *)
(* of the crawl to progress of the report, its finish, or a stutter.       *)
(***************************************************************************)
\* DiffReport speaks of the documents with the operators of Jso, as the crawl does.
LEMMA SameWords ==
  /\ Report!RootPair = RootPair
  /\ \A d, b, a : Report!SameContainer(d, b, a) <=> SameContainer(d, b, a)
  /\ \A d, p, k : Report!ChildPair(d, p, k) = ChildPair(d, p, k)
  /\ \A d, p : Report!Compared(d, p) = Compared(d, p)
  /\ \A d, p, k : /\ Report!DiffReplaced(d, p, k) = DiffReplaced(d, p, k)
                  /\ Report!DiffRenamed(d, p, k) = DiffRenamed(d, p, k)
                  /\ Report!DiffRemoved(d, p, k) = DiffRemoved(d, p, k)
                  /\ Report!DiffAdded(d, p, k) = DiffAdded(d, p, k)
  /\ \A d, p : /\ Report!ReplacedKeys(d, p) = ReplacedKeys(d, p)
               /\ Report!RenamedKeys(d, p) = RenamedKeys(d, p)
               /\ Report!ReportedRemovals(d, p) = ReportedRemovals(d, p)
               /\ Report!ReportedAdditions(d, p) = ReportedAdditions(d, p)
<1>1. Report!RootPair = RootPair
  BY DEF Report!RootPair, Report!EMPTY_CUSTOM_SCOPE, RootPair, EMPTY_CUSTOM_SCOPE
<1>2. \A d, b, a : Report!SameContainer(d, b, a) <=> SameContainer(d, b, a)
  BY DEF Report!SameContainer, SameContainer
<1>3. \A d, p : Report!KeyMap(d, p) = KeyMap(d, p)
  BY DEF Report!KeyMap, KeyMap
<1>4. /\ \A scope, k : Report!ScopeAt(scope, k) = ScopeAt(scope, k)
      /\ \A parent, patch : Report!MergeOrReuse(parent, patch) = MergeOrReuse(parent, patch)
  BY DEF Report!ScopeAt, ScopeAt, Report!MergeOrReuse, MergeOrReuse
<1>5. \A d, p, k : Report!ChildPair(d, p, k) = ChildPair(d, p, k)
  BY <1>3, <1>4 DEF Report!ChildPair, ChildPair
<1>6. \A d, p : Report!Compared(d, p) = Compared(d, p)
  BY <1>3 DEF Report!Compared, Compared
<1>7. \A d, p, k : /\ Report!DiffReplaced(d, p, k) = DiffReplaced(d, p, k)
                  /\ Report!DiffRenamed(d, p, k) = DiffRenamed(d, p, k)
  BY <1>3, <1>5 DEF Report!DiffReplaced, DiffReplaced, Report!DiffRenamed, DiffRenamed
<1>8. \A d, p, k : /\ Report!DiffRemoved(d, p, k) = DiffRemoved(d, p, k)
                  /\ Report!DiffAdded(d, p, k) = DiffAdded(d, p, k)
  BY <1>4 DEF Report!DiffRemoved, DiffRemoved, Report!DiffAdded, DiffAdded
<1>9. \A d, p : /\ Report!ReplacedKeys(d, p) = ReplacedKeys(d, p)
               /\ Report!RenamedKeys(d, p) = RenamedKeys(d, p)
  BY <1>2, <1>3, <1>5, <1>6
     DEF Report!ReplacedKeys, ReplacedKeys, Report!RenamedKeys, RenamedKeys
<1>10. \A d, p : /\ Report!KeysToRemove(d, p) = KeysToRemove(d, p)
                /\ Report!KeysToAdd(d, p) = KeysToAdd(d, p)
  BY <1>3 DEF Report!KeysToRemove, KeysToRemove, Report!Removed, Removed,
              Report!KeysToAdd, KeysToAdd, Report!Added, Added
<1>11. \A d, p : /\ Report!ReportedRemovals(d, p) = ReportedRemovals(d, p)
                /\ Report!ReportedAdditions(d, p) = ReportedAdditions(d, p)
  BY <1>10 DEF Report!ReportedRemovals, ReportedRemovals,
               Report!ReportedAdditions, ReportedAdditions
<1>12. QED
  BY <1>1, <1>2, <1>5, <1>6, <1>7, <1>8, <1>9, <1>11

\* What a compared pair asks the report for.
LEMMA PairAsks ==
  ASSUME NEW p
  PROVE  /\ \A c : c \in Report!SubPairs(p) <=>
              \E k \in Compared(doc, p) : c = ChildPair(doc, p, k) /\ SameContainer(doc, c.b, c.a)
         /\ \A d : d \in Report!Differences(p) <=>
              \/ \E k \in ReplacedKeys(doc, p) : d = DiffReplaced(doc, p, k)
              \/ \E k \in ReportedRemovals(doc, p) : d = DiffRemoved(doc, p, k)
              \/ \E k \in ReportedAdditions(doc, p) : d = DiffAdded(doc, p, k)
         /\ \A d : d \in Report!RenamesOf(p) <=>
              \E k \in RenamedKeys(doc, p) : d = DiffRenamed(doc, p, k)
<1>1. \A c : c \in Report!SubPairs(p) <=>
         \E k \in Compared(doc, p) : c = ChildPair(doc, p, k) /\ SameContainer(doc, c.b, c.a)
  BY SameWords DEF Report!SubPairs
<1>2. \A d : d \in Report!Differences(p) <=>
         \/ \E k \in ReplacedKeys(doc, p) : d = DiffReplaced(doc, p, k)
         \/ \E k \in ReportedRemovals(doc, p) : d = DiffRemoved(doc, p, k)
         \/ \E k \in ReportedAdditions(doc, p) : d = DiffAdded(doc, p, k)
  BY SameWords DEF Report!Differences
<1>3. \A d : d \in Report!RenamesOf(p) <=>
         \E k \in RenamedKeys(doc, p) : d = DiffRenamed(doc, p, k)
  BY SameWords DEF Report!RenamesOf
<1>4. QED
  BY <1>1, <1>2, <1>3

\* An open object is one of the pairs compared.
LEMMA HereCompared ==
  ASSUME doc \in Input, CrawlInv, MergedInv, stack # <<>>
  PROVE  Here \in ComparedPairs /\ Here.b \in Node /\ Here.a \in Node
<1>1. PICK t : t = Top.fp
  OBVIOUS
<1>2. /\ t \in created \cup {RootFootprint} /\ PairOf(t) = Here
      /\ PairOf(t).b \in Node /\ PairOf(t).a \in Node
  BY <1>1, TopFacts
<1>3. PairOf(RootFootprint) = RootPair
  BY DEF PairOf, RootFootprint, RootPair
<1>4. QED
  BY <1>2, <1>3 DEF ComparedPairs

LEMMA InitMaps == ASSUME Init PROVE Report!ReportInit
<1>1. created = {} /\ diffs = {} /\ stack # <<>> /\ doc \in Input
  BY DEF Init
<1>2. QED
  BY <1>1, SameWords DEF Report!ReportInit, ComparedPairs

\* Progress: what is new is one mapping away from a compared pair, or a difference of it.
LEMMA ProgressMaps ==
  ASSUME doc \in Input, CrawlInv, MergedInv, stack # <<>>, stack' # <<>>, doc' = doc,
         created \subseteq created', diffs \subseteq diffs',
         \A f \in created' : f \in created \/ PairOf(f) \in Report!SubPairs(Here),
         \A e \in diffs' :
           e \in diffs \/ e.of \in Report!Differences(Here) \cup Report!RenamesOf(Here)
  PROVE  Report!Progress
<1>1. Here \in ComparedPairs
  BY HereCompared
<1>2. /\ ComparedPairs \subseteq ComparedPairs'
      /\ \A c \in ComparedPairs' : c \in ComparedPairs \cup Report!SubPairs(Here)
  BY DEF ComparedPairs, PairOf
<1>3. /\ {x.of : x \in diffs} \subseteq {x.of : x \in diffs}'
      /\ \A d \in {x.of : x \in diffs}' :
            \/ d \in {x.of : x \in diffs}
            \/ d \in Report!Differences(Here) \cup Report!RenamesOf(Here)
  OBVIOUS
<1>4. \A c \in ComparedPairs' :
         c \in ComparedPairs \cup UNION {Report!SubPairs(p) : p \in ComparedPairs}
  BY <1>1, <1>2
<1>5. \A d \in {x.of : x \in diffs}' :
         d \in {x.of : x \in diffs}
               \cup UNION {Report!Differences(p) \cup Report!RenamesOf(p) : p \in ComparedPairs}
  BY <1>1, <1>3
<1>6. QED
  BY <1>2, <1>3, <1>4, <1>5 DEF Report!Progress

\* Nothing is left to compare or to report when the comparison returns.
LEMMA ReturnMaps ==
  ASSUME doc \in Input, CrawlInv, MergedInv, ReportInv, Return
  PROVE  Report!Finish
<1>1. /\ stack # <<>> /\ stack' = <<>> /\ UNCHANGED <<doc, created, diffs>>
      /\ \A f \in created : f \in Left
  <2>1. Len(stack) = 1 /\ stack' = <<>> /\ UNCHANGED <<doc, created, diffs>>
    BY DEF Return
  <2>2. stack # <<>>
    BY <2>1
  <2>3. \A f \in created : f \in Left
    BY <2>1 DEF Left, IsOpen, MergedInv, RootOutermost
  <2>4. QED
    BY <2>1, <2>2, <2>3
<1>2. \A g, l : Seen(g, l)
  BY ReturnReports
<1>3. ASSUME NEW f \in created \cup {RootFootprint}, NEW p, p = PairOf(f)
      PROVE  Report!SubPairs(p) \subseteq ComparedPairs
             /\ Report!Differences(p) \subseteq {x.of : x \in diffs}
  <2>1. /\ p.b = f.b /\ p.a = f.a /\ p.b \in Node /\ p.a \in Node
    <3>1. CASE f = RootFootprint
      BY <1>3, <3>1, JsoAssumption DEF PairOf, RootFootprint
    <3>2. CASE f \in created
      BY <1>3, <3>2 DEF PairOf, MergedInv, CacheRight, SameContainer
    <3>3. QED
      BY <3>1, <3>2
  <2>2. DOMAIN KeyMap(doc, p) \subseteq KeysOf(f)
    BY <2>1, InputTyping, PairKeys DEF KeysOf
  <2>3. \A k \in DOMAIN KeyMap(doc, p) : LinkedRight(f, k)
    BY <1>2, <1>3, <2>2 DEF MergedInv, ObjectsFilled, Filled
  <2>4. ASSUME NEW k \in Compared(doc, p), NEW c, c = ChildPair(doc, p, k),
               SameContainer(doc, c.b, c.a)
        PROVE  c \in ComparedPairs
    <3>1. k \in DOMAIN KeyMap(doc, p)
      BY DEF Compared
    <3>2. \E g \in created : PairOf(g) = c
      BY <1>3, <2>3, <2>4, <3>1 DEF LinkedRight
    <3>3. QED
      BY <3>2 DEF ComparedPairs
  <2>5. Report!SubPairs(p) \subseteq ComparedPairs
    BY <2>4, PairAsks
  <2>6. \A k \in ReplacedKeys(doc, p) : DiffReplaced(doc, p, k) \in {x.of : x \in diffs}
    BY <1>2, <1>3 DEF ReportInv, ReplacedReported, Reported
  <2>7. /\ \A k \in ReportedRemovals(doc, p) : DiffRemoved(doc, p, k) \in {x.of : x \in diffs}
        /\ \A k \in ReportedAdditions(doc, p) : DiffAdded(doc, p, k) \in {x.of : x \in diffs}
    <3>1. CASE f \in created
      <4>1. ExitFilled(f) /\ \A x \in DOMAIN meta[f] : meta[f][x] \in diffs
        BY <1>1, <3>1 DEF MergedInv, LeftFilled, ObjectsFilled
      <4>2. \A e : getOrCreateChildDiff(e).of = e
        BY DEF getOrCreateChildDiff
      <4>3. ASSUME NEW k \in ReportedRemovals(doc, p)
            PROVE  \E x \in diffs : x.of = DiffRemoved(doc, p, k)
        BY <1>3, <4>1, <4>2 DEF ExitFilled
      <4>4. ASSUME NEW k \in ReportedAdditions(doc, p)
            PROVE  \E x \in diffs : x.of = DiffAdded(doc, p, k)
        <5>1. \E y \in DOMAIN meta[f] : meta[f][y] = getOrCreateChildDiff(DiffAdded(doc, p, k))
          BY <1>3, <4>1 DEF ExitFilled
        <5>2. QED
          BY <4>1, <4>2, <5>1
      <4>5. QED
        BY <4>3, <4>4
    <3>2. CASE f = RootFootprint
      <4>1. p.b = BeforeRoot /\ p.a = AfterRoot
        BY <2>1, <3>2 DEF RootFootprint
      <4>2. /\ DOMAIN doc.at[p.b] = {RootKey} /\ DOMAIN doc.at[p.a] = {RootKey}
            /\ KeyMap(doc, p) = [k \in {RootKey} |-> RootKey]
        BY <4>1, InputTyping DEF IsDocumentPair, KeyMap
      <4>3. Removed(doc, p) = {} /\ Added(doc, p) = {}
        BY <4>2 DEF Removed, Added
      <4>4. QED
        BY <4>3 DEF ReportedRemovals, ReportedAdditions, KeysToRemove, KeysToAdd
    <3>3. QED
      BY <3>1, <3>2
  <2>8. QED
    BY <2>5, <2>6, <2>7, PairAsks
<1>4. \A p \in ComparedPairs : \E f \in created \cup {RootFootprint} : p = PairOf(f)
  <2>1. PairOf(RootFootprint) = RootPair
    BY DEF PairOf, RootFootprint, RootPair
  <2>2. QED
    BY <2>1 DEF ComparedPairs
<1>5. \A p \in ComparedPairs : /\ Report!SubPairs(p) \subseteq ComparedPairs
                               /\ Report!Differences(p) \subseteq {x.of : x \in diffs}
  BY <1>3, <1>4
<1>6. ComparedPairs' = ComparedPairs /\ {x.of : x \in diffs}' = {x.of : x \in diffs}
  BY <1>1 DEF ComparedPairs, PairOf
<1>7. QED
  BY <1>1, <1>5, <1>6 DEF Report!Finish

\* A visit is progress: it opens a child of the open pair or reports what the pair shows.
LEMMA VisitMaps ==
  ASSUME doc \in Input, CrawlInv, MergedInv, NEW k, Visit(k)
  PROVE  Report!Progress
<1>1. stack # <<>> /\ doc' = doc
  BY DEF Visit, KeepRemoved, AdoptIgnored, Reuse, CompareLeaf, Descend, CanVisit
<1>2. /\ Consume(k) \in Seq(Frame) /\ Len(Consume(k)) = Len(stack) /\ Len(stack) \in Nat
      /\ Consume(k) # <<>>
  <2>1. Consume(k) \in Seq(Frame) /\ Len(Consume(k)) = Len(stack)
    BY <1>1, ConsumeKeeps DEF CrawlInv
  <2>2. Len(stack) \in Nat /\ Len(stack) # 0
    BY <1>1 DEF CrawlInv, TypeOK
  <2>3. QED
    BY <2>1, <2>2
<1>3. CASE KeepRemoved(k) \/ AdoptIgnored(k) \/ Reuse(k)
  <2>1. stack' = Consume(k) /\ created' = created /\ diffs' = diffs
    BY <1>3 DEF KeepRemoved, AdoptIgnored, Reuse
  <2>2. QED
    BY <1>1, <1>2, <2>1, ProgressMaps
<1>4. PICK f : f = ChildFootprint(k)
  OBVIOUS
<1>5. ASSUME k \in Compared(doc, Here), NEW e \in Renames(k, f)
      PROVE  e.of \in Report!Differences(Here) \cup Report!RenamesOf(Here)
  <2>1. k \in RenamedKeys(doc, Here) /\ e.of = DiffRenamed(doc, Here, k)
    BY <1>5 DEF Renames
  <2>2. QED
    BY <2>1, PairAsks
<1>6. CASE CompareLeaf(k)
  <2> DEFINE replaced == IF f.b # f.a THEN {[of |-> DiffReplaced(doc, Here, k), by |-> f]} ELSE {}
  <2>1. /\ k \in Compared(doc, Here) /\ ~SameContainer(doc, f.b, f.a)
        /\ diffs' = diffs \cup (Renames(k, f) \cup replaced)
        /\ stack' = Consume(k) /\ created' = created
    BY <1>4, <1>6 DEF CompareLeaf
  <2>2. /\ f.b = ChildPair(doc, Here, k).b /\ f.a = ChildPair(doc, Here, k).a
    BY <1>1, <1>4, <2>1, ChildFacts
  <2>3. ASSUME NEW e \in replaced
        PROVE  e.of \in Report!Differences(Here) \cup Report!RenamesOf(Here)
    <3>1. k \in ReplacedKeys(doc, Here) /\ e.of = DiffReplaced(doc, Here, k)
      BY <2>1, <2>2 DEF ReplacedKeys
    <3>2. QED
      BY <3>1, PairAsks
  <2> HIDE DEF replaced
  <2>4. \A e \in Renames(k, f) \cup replaced :
           e.of \in Report!Differences(Here) \cup Report!RenamesOf(Here)
    BY <1>5, <2>1, <2>3
  <2>5. QED
    BY <1>1, <1>2, <2>1, <2>4, ProgressMaps
<1>7. CASE Descend(k)
  <2>1. /\ k \in Compared(doc, Here) /\ SameContainer(doc, f.b, f.a)
        /\ diffs' = diffs \cup Renames(k, f) /\ created' = created \cup {f}
        /\ \E fr : stack' = Append(Consume(k), fr)
    BY <1>4, <1>7 DEF Descend
  <2>2. stack' # <<>>
    BY <1>2, <2>1
  <2>3. /\ PairOf(f) = ChildPair(doc, Here, k)
        /\ f.b = ChildPair(doc, Here, k).b /\ f.a = ChildPair(doc, Here, k).a
    BY <1>1, <1>4, <2>1, ChildFacts
  <2>4. PairOf(f) \in Report!SubPairs(Here)
    BY <2>1, <2>3, PairAsks
  <2>5. QED
    BY <1>1, <1>5, <2>1, <2>2, <2>4, ProgressMaps
<1>8. QED
  BY <1>3, <1>6, <1>7 DEF Visit

\* Leaving a node is progress: it reports the removals and additions of the open pair.
LEMMA ExitMaps ==
  ASSUME doc \in Input, CrawlInv, MergedInv, ExitHook
  PROVE  Report!Progress
<1>1. PICK p : p = Here
  OBVIOUS
<1> DEFINE additions == AddedEntries(p, merged[Top.fp], Additions(p))
           entries == Overlay(Removals(p), additions)
           D == {entries[x] : x \in DOMAIN entries}
<1>2. /\ Len(stack) > 1 /\ stack' = SubSeq(stack, 1, Len(stack) - 1) /\ doc' = doc
      /\ created' = created /\ diffs' = diffs \cup D
  BY <1>1 DEF ExitHook
<1>3. stack # <<>> /\ stack' # <<>>
  <2>1. stack \in Seq(Frame) /\ Len(stack) \in Nat
    BY DEF CrawlInv, TypeOK
  <2>2. stack # <<>>
    BY <1>2, <2>1
  <2>3. PICK n \in Nat : n = Len(stack) - 1 /\ n # 0
    BY <1>2, <2>1
  <2>4. Len(SubSeq(stack, 1, n)) = n
    BY <2>1, <2>3
  <2>5. stack' = SubSeq(stack, 1, n)
    BY <1>2, <2>3
  <2>6. stack' # <<>>
    BY <2>3, <2>4, <2>5
  <2>7. QED
    BY <2>2, <2>6
<1>4. /\ \A x \in DOMAIN Removals(p) :
            x \in ReportedRemovals(doc, p) /\ Removals(p)[x].of = DiffRemoved(doc, p, x)
      /\ \A k \in DOMAIN Additions(p) :
            k \in ReportedAdditions(doc, p) /\ Additions(p)[k].of = DiffAdded(doc, p, k)
  BY DEF Removals, Additions, getOrCreateChildDiff
<1>5. \A x \in DOMAIN additions :
         \E k \in DOMAIN Additions(p) : additions[x] = Additions(p)[k]
  <2> DEFINE A == Additions(p)
             place == [k \in DOMAIN A |-> KeyInMerge(p, merged[Top.fp], k)]
  <2>1. additions = [x \in {place[k] : k \in DOMAIN A} |->
                       A[CHOOSE k \in DOMAIN A : place[k] = x]]
    BY DEF AddedEntries
  <2> HIDE DEF place, A, additions
  <2>2. \A x \in {place[k] : k \in DOMAIN A} :
           (CHOOSE k \in DOMAIN A : place[k] = x) \in DOMAIN A
    OBVIOUS
  <2>3. \A x \in DOMAIN additions : \E k \in DOMAIN A : additions[x] = A[k]
    BY <2>1, <2>2
  <2>4. QED
    BY <2>3 DEF A
<1> HIDE DEF additions
<1>6. ASSUME NEW x \in DOMAIN entries
      PROVE  entries[x].of \in Report!Differences(Here) \cup Report!RenamesOf(Here)
  <2>1. CASE x \in DOMAIN additions
    <3>1. entries[x] = additions[x]
      BY <2>1 DEF Overlay
    <3>2. \E k \in ReportedAdditions(doc, p) : entries[x].of = DiffAdded(doc, p, k)
      BY <1>4, <1>5, <2>1, <3>1
    <3>3. QED
      BY <1>1, <3>2, PairAsks
  <2>2. CASE x \notin DOMAIN additions
    <3>1. x \in DOMAIN Removals(p) /\ entries[x] = Removals(p)[x]
      BY <2>2 DEF Overlay
    <3>2. x \in ReportedRemovals(doc, p) /\ entries[x].of = DiffRemoved(doc, p, x)
      BY <1>4, <3>1
    <3>3. QED
      BY <1>1, <3>2, PairAsks
  <2>3. QED
    BY <2>1, <2>2
<1> HIDE DEF entries
<1>7. \A e \in D : e.of \in Report!Differences(Here) \cup Report!RenamesOf(Here)
  BY <1>6
<1> HIDE DEF D
<1>8. QED
  BY <1>2, <1>3, <1>7, ProgressMaps

\* One case per action of the crawl.
LEMMA StepMaps ==
  ASSUME doc \in Input, CrawlInv, MergedInv, ReportInv, [Next]_vars
  PROVE  Report!Progress \/ Report!Finish \/ UNCHANGED Report!reportVars
<1>1. CASE \E k \in Key : Visit(k)
  BY <1>1, VisitMaps
<1>2. CASE ExitHook
  BY <1>2, ExitMaps
<1>3. CASE Return
  BY <1>3, ReturnMaps
<1>4. CASE UNCHANGED vars
  BY <1>4 DEF vars, Report!reportVars, ComparedPairs, PairOf
<1>5. QED
  BY <1>1, <1>2, <1>3, <1>4 DEF Next

\* ReportInv is an invariant where nodes are declared once.
LEMMA ReportInvariant ==
  ASSUME \A d \in Input : DeclaredOnce(d)
  PROVE  Spec => []ReportInv
<1>1. Init => ReportInv
  <2>1. ASSUME Init PROVE ReportInv
    <3>1. /\ DOMAIN cache = {} /\ created = {} /\ Len(stack) = 1
          /\ stack[1].fp = RootFootprint /\ stack[1].todo = {RootKey}
      BY <2>1 DEF Init, Empty
    <3>2. ReplacedKeys(doc, PairOf(RootFootprint)) \subseteq {RootKey}
      BY <2>1, InputTyping DEF Init, IsDocumentPair, ReplacedKeys, Compared, KeyMap, PairOf,
                               RootFootprint
    <3>3. ~Seen(RootFootprint, RootKey)
      BY <3>1 DEF Seen
    <3>4. QED
      BY <3>1, <3>2, <3>3 DEF ReportInv, PullTold, ReplacedReported
  <2>2. QED
    BY <2>1
<1>2. doc \in Input /\ CrawlInv /\ MergedInv /\ ReportInv /\ [Next]_vars => ReportInv'
  BY MergedStep, ReportStep
<1>3. QED
  BY <1>1, <1>2, DocConstant, CrawlInvariant, MergedInvariant, PTL DEF Spec

(***************************************************************************)
(* The crawl implements the report, for every document pair whose nodes    *)
(* are declared once: it compares the pairs the mappings lead to and no    *)
(* others, reports the differences of compared pairs and no others, and    *)
(* does not return while a reachable pair is left or a difference untold,  *)
(* whatever the reuse cache has spared it.                                 *)
(***************************************************************************)
THEOREM CrawlImplementsReport ==
  ASSUME \A d \in Input : DeclaredOnce(d)
  PROVE  Spec => ReportSpec
<1>1. Init => Report!ReportInit
  BY InitMaps
<1>2. doc \in Input /\ CrawlInv /\ MergedInv /\ ReportInv /\ [Next]_vars
        => [Report!Progress \/ Report!Finish]_(Report!reportVars)
  BY StepMaps
<1>3. QED
  BY <1>1, <1>2, DocConstant, CrawlInvariant, MergedInvariant, ReportInvariant, PTL
     DEF Spec, ReportSpec, Report!ReportSpec

-----------------------------------------------------------------------------
(***************************************************************************)
(* No difference is told twice.                                            *)
(***************************************************************************)

\* The two documents, where every value is told by its path.
Documents(B, A) ==
  /\ B \subseteq Node /\ A \subseteq Node /\ BeforeRoot \in B /\ AfterRoot \in A
  /\ PathsLeadIn(doc, B) /\ PathsLeadIn(doc, A)

\* The footprint of a child has the paths the two values are declared at.
LEMMA ChildPlaced ==
  ASSUME doc \in Input, DeclaredOnce(doc), CrawlInv, NEW B, NEW A, Documents(B, A),
         OpenPlaced(B, A), stack # <<>>, NEW k \in Compared(doc, Here),
         NEW f, f = ChildFootprint(k)
  PROVE  /\ Here.b \in B /\ Here.a \in A
         /\ f.pb = doc.decl[Here.b][k] /\ f.pa = doc.decl[Here.a][KeyMap(doc, Here)[k]]
         /\ Placed(f.b, f.pb, B) /\ Placed(f.a, f.pa, A)
         /\ f.b \in Node => f.b \in B
         /\ f.a \in Node => f.a \in A
<1>1. /\ f.b = doc.at[Here.b][k] /\ f.a = doc.at[Here.a][KeyMap(doc, Here)[k]]
      /\ k \in DOMAIN doc.at[Here.b] /\ KeyMap(doc, Here)[k] \in DOMAIN doc.at[Here.a]
      /\ Here.b \in Node /\ Here.a \in Node
  BY LeafPaths
<1>2. Here.b \in B /\ Here.a \in A
  <2>1. Here.b = Top.fp.b /\ Here.a = Top.fp.a /\ Len(stack) \in 1 .. Len(stack)
    BY HereTyping DEF CrawlInv, Typed
  <2>2. QED
    BY <2>1 DEF OpenPlaced, Top
<1>3. /\ doc.decl[Here.b][k] \in Path /\ doc.decl[Here.a][KeyMap(doc, Here)[k]] \in Path
      /\ f.pb = cleanUpBefore(f.b, doc.decl[Here.b][k])
      /\ f.pa = cleanUpAfter(f.a, doc.decl[Here.a][KeyMap(doc, Here)[k]])
  BY <1>1, InputTyping DEF IsDocumentPair, ChildFootprint, ChildPair
<1>4. f.pb = doc.decl[Here.b][k]
  <2>1. CASE OpenBefore(f.b) = {}
    BY <1>3, <2>1 DEF cleanUpBefore
  <2>2. CASE OpenBefore(f.b) # {}
    <3>1. PICK i \in OpenBefore(f.b) : f.pb = stack[i].db
      BY <1>3, <2>2, CleanUpTyping DEF CrawlInv, Typed
    <3>2. i \in 2 .. Len(stack) /\ stack[i].fp.b = f.b
      BY DEF OpenBefore
    <3>3. PICK o \in B : \E l \in DOMAIN doc.at[o] : doc.at[o][l] = f.b /\ doc.decl[o][l] = f.pb
      BY <3>1, <3>2 DEF OpenPlaced, Placed
    <3>4. o \in Node /\ f.b \in Node
      <4>1. Len(stack) \in Nat
        BY DEF CrawlInv, TypeOK
      <4>2. QED
        BY <3>2, <3>3, <4>1 DEF Documents, CrawlInv, OpenNodes
    <3>5. QED
      BY <1>1, <3>3, <3>4 DEF DeclaredOnce
  <2>3. QED
    BY <2>1, <2>2
<1>5. f.pa = doc.decl[Here.a][KeyMap(doc, Here)[k]]
  <2>1. CASE OpenAfter(f.a) = {}
    BY <1>3, <2>1 DEF cleanUpAfter
  <2>2. CASE OpenAfter(f.a) # {}
    <3>1. PICK i \in OpenAfter(f.a) : f.pa = stack[i].da
      BY <1>3, <2>2, CleanUpTyping DEF CrawlInv, Typed
    <3>2. i \in 2 .. Len(stack) /\ stack[i].fp.a = f.a
      BY DEF OpenAfter
    <3>3. PICK o \in A : \E l \in DOMAIN doc.at[o] : doc.at[o][l] = f.a /\ doc.decl[o][l] = f.pa
      BY <3>1, <3>2 DEF OpenPlaced, Placed
    <3>4. o \in Node /\ f.a \in Node
      <4>1. Len(stack) \in Nat
        BY DEF CrawlInv, TypeOK
      <4>2. QED
        BY <3>2, <3>3, <4>1 DEF Documents, CrawlInv, OpenNodes
    <3>5. QED
      BY <1>1, <3>3, <3>4 DEF DeclaredOnce
  <2>3. QED
    BY <2>1, <2>2
<1>6. /\ f.b \in Node => f.b \in B
      /\ f.a \in Node => f.a \in A
  BY <1>1, <1>2, JsoAssumption DEF Documents, PathsLeadIn
<1>7. Placed(f.b, f.pb, B) /\ Placed(f.a, f.pa, A)
  BY <1>1, <1>2, <1>4, <1>5 DEF Placed
<1>8. QED
  BY <1>2, <1>4, <1>5, <1>6, <1>7

\* Open nodes that were open before are placed as they were.
LEMMA ShrinkingPlaced ==
  ASSUME TypeOK, NEW B, NEW A, OpenPlaced(B, A), Shrinks, doc' = doc
  PROVE  OpenPlaced(B, A)'
<1>1. Len(stack) \in Nat /\ Len(stack') \in Nat /\ Len(stack') <= Len(stack)
  BY DEF TypeOK, Shrinks
<1>2. /\ \A i \in 1 .. Len(stack') : i \in 1 .. Len(stack)
      /\ \A i \in 2 .. Len(stack') : i \in 2 .. Len(stack) /\ i \in 1 .. Len(stack')
  BY <1>1
<1>3. \A i \in 1 .. Len(stack') : /\ stack'[i].fp = stack[i].fp
                                  /\ stack'[i].db = stack[i].db /\ stack'[i].da = stack[i].da
  BY DEF Shrinks
<1>4. QED
  BY <1>2, <1>3 DEF OpenPlaced, Placed

\* What a reported diff is stays true as the cache grows.
LEMMA OldDiffsStay ==
  ASSUME doc' = doc, DOMAIN cache \subseteq DOMAIN cache', NEW B, NEW A, DiffsPlaced(B, A),
         NEW x \in diffs
  PROVE  /\ Removal(x, B)' \/ Addition(x, A)' \/ Evaluation(x)'
         /\ PerEvaluation(x) => x.by \in DOMAIN cache
<1>1. Removal(x, B) \/ Addition(x, A) \/ Evaluation(x)
  BY DEF DiffsPlaced
<1>2. /\ Removal(x, B) => Removal(x, B)'
      /\ Addition(x, A) => Addition(x, A)'
      /\ Evaluation(x) => Evaluation(x)'
  BY DEF Removal, Addition, Evaluation, PerEvaluation
<1>3. PerEvaluation(x) => x.by \in DOMAIN cache
  BY <1>1 DEF Removal, Addition, Evaluation, PerEvaluation
<1>4. QED
  BY <1>1, <1>2, <1>3

\* A visit that evaluates a new footprint f tells of it at most one rename and one replacement.
LEMMA EvaluationUnique ==
  ASSUME doc \in Input, DeclaredOnce(doc), CrawlInv, NEW B, NEW A, Documents(B, A),
         UniqueInv(B, A), stack # <<>>, NEW k \in Compared(doc, Here),
         NEW f, f = ChildFootprint(k), f \notin DOMAIN cache, NEW entry,
         cache' = Put(cache, f, entry), doc' = doc,
         \A x \in diffs' : \/ x \in diffs
                           \/ x = [of |-> DiffRenamed(doc, Here, k), by |-> f]
                           \/ x = [of |-> DiffReplaced(doc, Here, k), by |-> f]
  PROVE  CachePlaced(B, A)' /\ DiffsPlaced(B, A)' /\ OncePerEvaluation'
<1>1. DOMAIN cache' = DOMAIN cache \cup {f}
  BY DEF Put
<1>2. /\ f.pb = doc.decl[Here.b][k] /\ f.pa = doc.decl[Here.a][KeyMap(doc, Here)[k]]
      /\ Placed(f.b, f.pb, B) /\ Placed(f.a, f.pa, A)
  BY ChildPlaced DEF UniqueInv
<1>3. CachePlaced(B, A)'
  BY <1>1, <1>2 DEF UniqueInv, CachePlaced, Placed
<1>4. PICK rename, replace : /\ rename = [of |-> DiffRenamed(doc, Here, k), by |-> f]
                             /\ replace = [of |-> DiffReplaced(doc, Here, k), by |-> f]
  OBVIOUS
<1>5. /\ rename.by = f /\ replace.by = f
      /\ rename.of.action = "rename" /\ replace.of.action = "replace"
      /\ Evaluation(rename)' /\ Evaluation(replace)'
  <2>1. /\ f.scope = ChildPair(doc, Here, k).scope /\ f.custom = ChildPair(doc, Here, k).custom
    BY ChildFacts
  <2>2. QED
    BY <1>1, <1>2, <1>4, <2>1 DEF Evaluation, PerEvaluation, DiffRenamed, DiffReplaced
<1>6. \A x \in diffs : /\ Removal(x, B)' \/ Addition(x, A)' \/ Evaluation(x)'
                       /\ PerEvaluation(x) => x.by # f
  BY <1>1, OldDiffsStay DEF UniqueInv
<1>7. \A x \in diffs' : x \in diffs \/ x = rename \/ x = replace
  BY <1>4
<1>8. DiffsPlaced(B, A)'
  BY <1>5, <1>6, <1>7 DEF DiffsPlaced
<1>9. OncePerEvaluation'
  <2>1. ASSUME NEW x \in diffs', NEW y \in diffs',
               PerEvaluation(x), x.by = y.by, x.of.action = y.of.action
        PROVE  x = y
    <3>1. PerEvaluation(y)
      BY <2>1 DEF PerEvaluation
    <3>2. CASE x \in diffs /\ y \in diffs
      BY <2>1, <3>2 DEF UniqueInv, OncePerEvaluation
    <3>3. CASE x \notin diffs /\ y \notin diffs
      BY <1>5, <1>7, <2>1, <3>3
    <3>4. CASE x \in diffs /\ y \notin diffs
      BY <1>5, <1>6, <1>7, <2>1, <3>4
    <3>5. CASE x \notin diffs /\ y \in diffs
      BY <1>5, <1>6, <1>7, <2>1, <3>1, <3>5
    <3>6. QED
      BY <3>2, <3>3, <3>4, <3>5
  <2>2. QED
    BY <2>1 DEF OncePerEvaluation, PerEvaluation
<1>10. QED
  BY <1>3, <1>8, <1>9

LEMMA QuietUnique ==
  ASSUME CrawlInv, NEW B, NEW A, UniqueInv(B, A), Shrinks, UNCHANGED <<doc, cache, diffs>>
  PROVE  UniqueInv(B, A)'
<1>1. OpenPlaced(B, A)'
  BY ShrinkingPlaced DEF UniqueInv, CrawlInv
<1>2. CachePlaced(B, A)' /\ OncePerEvaluation'
  BY DEF UniqueInv, CachePlaced, Placed, OncePerEvaluation, PerEvaluation
<1>3. DiffsPlaced(B, A)'
  BY OldDiffsStay DEF UniqueInv, DiffsPlaced
<1>4. QED
  BY <1>1, <1>2, <1>3 DEF UniqueInv

LEMMA VisitUnique ==
  ASSUME doc \in Input, DeclaredOnce(doc), CrawlInv, NEW B, NEW A, Documents(B, A),
         UniqueInv(B, A), NEW k, Visit(k)
  PROVE  UniqueInv(B, A)'
<1>1. /\ stack # <<>> /\ TypeOK /\ Len(stack) \in Nat /\ doc' = doc
      /\ stack' = Consume(k) => Shrinks
  <2>1. stack # <<>> /\ TypeOK /\ doc' = doc
    BY DEF Visit, KeepRemoved, AdoptIgnored, Reuse, CompareLeaf, Descend, CanVisit, CrawlInv
  <2>2. QED
    BY <2>1, ConsumeShrinks DEF TypeOK
<1>2. CASE KeepRemoved(k) \/ AdoptIgnored(k) \/ Reuse(k)
  <2>1. stack' = Consume(k) /\ UNCHANGED <<doc, cache, diffs>>
    BY <1>2 DEF KeepRemoved, AdoptIgnored, Reuse
  <2>2. QED
    BY <1>1, <2>1, QuietUnique
<1>3. PICK f : f = ChildFootprint(k)
  OBVIOUS
<1>4. ASSUME k \in Compared(doc, Here), NEW x \in Renames(k, f)
      PROVE  x = [of |-> DiffRenamed(doc, Here, k), by |-> f]
  BY <1>4 DEF Renames
<1>5. CASE CompareLeaf(k)
  <2> DEFINE replaced == IF f.b # f.a THEN {[of |-> DiffReplaced(doc, Here, k), by |-> f]} ELSE {}
  <2>1. /\ k \in Compared(doc, Here) /\ f \notin DOMAIN cache
        /\ cache' = Put(cache, f, [value |-> f.a, pull |-> replaced])
        /\ diffs' = diffs \cup Renames(k, f) \cup replaced
        /\ stack' = Consume(k)
    BY <1>3, <1>5 DEF CompareLeaf, IsMiss
  <2>2. \A x \in replaced : x = [of |-> DiffReplaced(doc, Here, k), by |-> f]
    OBVIOUS
  <2> HIDE DEF replaced
  <2>3. \A x \in diffs' : \/ x \in diffs
                          \/ x = [of |-> DiffRenamed(doc, Here, k), by |-> f]
                          \/ x = [of |-> DiffReplaced(doc, Here, k), by |-> f]
    BY <1>4, <2>1, <2>2
  <2>4. PICK entry : entry = [value |-> f.a, pull |-> replaced]
    OBVIOUS
  <2>5. CachePlaced(B, A)' /\ DiffsPlaced(B, A)' /\ OncePerEvaluation'
    BY <1>1, <1>3, <2>1, <2>3, <2>4, EvaluationUnique
  <2>6. OpenPlaced(B, A)'
    BY <1>1, <2>1, ShrinkingPlaced DEF UniqueInv
  <2>7. QED
    BY <2>5, <2>6 DEF UniqueInv
<1>6. CASE Descend(k)
  <2> DEFINE fr == [fp |-> f, db |-> doc.decl[Here.b][k],
                    da |-> doc.decl[Here.a][KeyMap(doc, Here)[k]],
                    todo |-> DOMAIN doc.at[f.b]]
             n == Len(stack)
  <2>1. /\ k \in Compared(doc, Here) /\ f \notin DOMAIN cache /\ SameContainer(doc, f.b, f.a)
        /\ cache' = Put(cache, f, [value |-> f, pull |-> {}])
        /\ diffs' = diffs \cup Renames(k, f)
        /\ stack' = Append(Consume(k), fr)
    BY <1>3, <1>6 DEF Descend, IsMiss
  <2>2. \A x \in diffs' : \/ x \in diffs
                          \/ x = [of |-> DiffRenamed(doc, Here, k), by |-> f]
                          \/ x = [of |-> DiffReplaced(doc, Here, k), by |-> f]
    BY <1>4, <2>1
  <2>3. PICK entry : entry = [value |-> f, pull |-> {}]
    OBVIOUS
  <2>4. CachePlaced(B, A)' /\ DiffsPlaced(B, A)' /\ OncePerEvaluation'
    BY <1>1, <1>3, <2>1, <2>2, <2>3, EvaluationUnique
  <2>5. /\ f.pb = doc.decl[Here.b][k] /\ f.pa = doc.decl[Here.a][KeyMap(doc, Here)[k]]
        /\ Placed(f.b, f.pb, B) /\ Placed(f.a, f.pa, A)
        /\ f.b \in B /\ f.a \in A
    BY <1>1, <1>3, <2>1, ChildPlaced DEF UniqueInv, SameContainer
  <2>6. fr.fp = f /\ fr.db = f.pb /\ fr.da = f.pa
    BY <2>5
  <2> HIDE DEF fr
  <2>7. /\ Consume(k) \in Seq(Frame) /\ Len(Consume(k)) = n
        /\ \A i \in 1 .. n : /\ Consume(k)[i].fp = stack[i].fp
                             /\ Consume(k)[i].db = stack[i].db /\ Consume(k)[i].da = stack[i].da
    BY <1>1, ConsumeKeeps
  <2>8. Len(stack') = n + 1 /\ stack'[n + 1] = fr /\ \A i \in 1 .. n : stack'[i] = Consume(k)[i]
    BY <1>1, <2>1, <2>7
  <2>9. ASSUME NEW i \in 1 .. Len(stack')
        PROVE  /\ stack'[i].fp.b \in B /\ stack'[i].fp.a \in A
               /\ i >= 2 => Placed(stack'[i].fp.b, stack'[i].db, B)
                            /\ Placed(stack'[i].fp.a, stack'[i].da, A)
    <3>1. CASE i = n + 1
      BY <2>5, <2>6, <2>8, <3>1
    <3>2. CASE i \in 1 .. n
      <4>1. /\ stack'[i].fp = stack[i].fp /\ stack'[i].db = stack[i].db
            /\ stack'[i].da = stack[i].da /\ (i >= 2 => i \in 2 .. n)
        BY <1>1, <2>7, <2>8, <3>2
      <4>2. stack[i].fp.b \in B /\ stack[i].fp.a \in A
        BY <3>2 DEF UniqueInv, OpenPlaced
      <4>3. i >= 2 => Placed(stack[i].fp.b, stack[i].db, B) /\ Placed(stack[i].fp.a, stack[i].da, A)
        BY <4>1 DEF UniqueInv, OpenPlaced
      <4>4. QED
        BY <4>1, <4>2, <4>3
    <3>3. QED
      BY <1>1, <2>8, <3>1, <3>2
  <2>10. OpenPlaced(B, A)'
    <3>1. \A i \in 2 .. Len(stack') : i \in 1 .. Len(stack') /\ i >= 2
      BY <1>1, <2>8
    <3>2. \A v, path, S : Placed(v, path, S)' <=> Placed(v, path, S)
      BY <1>1 DEF Placed
    <3>3. /\ \A i \in 1 .. Len(stack') : stack'[i].fp.b \in B /\ stack'[i].fp.a \in A
          /\ \A i \in 2 .. Len(stack') : /\ Placed(stack'[i].fp.b, stack'[i].db, B)
                                         /\ Placed(stack'[i].fp.a, stack'[i].da, A)
      BY <2>9, <3>1
    <3>4. QED
      BY <1>1, <3>3 DEF OpenPlaced, Placed
  <2>11. QED
    BY <2>4, <2>10 DEF UniqueInv
<1>7. QED
  BY <1>2, <1>5, <1>6 DEF Visit

\* Leaving a node tells removals and additions, of values of the two documents.
LEMMA ExitTells ==
  ASSUME ExitHook, NEW p, p = Here
  PROVE  /\ diffs \subseteq diffs'
         /\ \A x \in diffs' :
              \/ x \in diffs
              \/ \E k \in ReportedRemovals(doc, p) : x = getOrCreateChildDiff(DiffRemoved(doc, p, k))
              \/ \E k \in ReportedAdditions(doc, p) : x = getOrCreateChildDiff(DiffAdded(doc, p, k))
<1> DEFINE R == Removals(p)
           A == Additions(p)
           place == [k \in DOMAIN A |-> KeyInMerge(p, merged[Top.fp], k)]
           added == [x \in {place[k] : k \in DOMAIN A} |->
                       A[CHOOSE k \in DOMAIN A : place[k] = x]]
           entries == Overlay(R, added)
<1>1. diffs' = diffs \cup {entries[x] : x \in DOMAIN entries}
  BY DEF ExitHook, AddedEntries
<1>2. /\ \A x \in DOMAIN R : /\ x \in ReportedRemovals(doc, p)
                             /\ R[x] = getOrCreateChildDiff(DiffRemoved(doc, p, x))
      /\ \A k \in DOMAIN A : /\ k \in ReportedAdditions(doc, p)
                             /\ A[k] = getOrCreateChildDiff(DiffAdded(doc, p, k))
  BY DEF Removals, Additions
<1> HIDE DEF R, A, place
<1>3. \A x \in {place[k] : k \in DOMAIN A} :
         (CHOOSE k \in DOMAIN A : place[k] = x) \in DOMAIN A
  OBVIOUS
<1>4. \A x \in DOMAIN added : \E k \in DOMAIN A : added[x] = A[k]
  BY <1>3
<1> HIDE DEF added
<1>5. \A x \in DOMAIN entries : \/ \E k \in DOMAIN R : entries[x] = R[k]
                                \/ \E k \in DOMAIN A : entries[x] = A[k]
  BY <1>4 DEF Overlay
<1> HIDE DEF entries
<1>6. QED
  BY <1>1, <1>2, <1>5

LEMMA ExitUnique ==
  ASSUME doc \in Input, CrawlInv, NEW B, NEW A, UniqueInv(B, A), ExitHook
  PROVE  UniqueInv(B, A)'
<1>1. /\ stack # <<>> /\ stack' = SubSeq(stack, 1, Len(stack) - 1) /\ TypeOK
      /\ UNCHANGED <<doc, cache>>
  BY DEF ExitHook, CrawlInv, TypeOK
<1>2. PICK p : p = Here
  OBVIOUS
<1>3. p.b \in B /\ p.a \in A
  BY <1>1, <1>2, HereTyping DEF CrawlInv, Typed, UniqueInv, OpenPlaced, Top
<1>4. ASSUME NEW x \in diffs', x \notin diffs
      PROVE  (Removal(x, B) \/ Addition(x, A)) /\ ~PerEvaluation(x)
  <2>1. CASE \E k \in ReportedRemovals(doc, p) : x = getOrCreateChildDiff(DiffRemoved(doc, p, k))
    <3>1. PICK k \in DOMAIN doc.at[p.b] : x = [of |-> DiffRemoved(doc, p, k), by |-> Unset]
      BY <2>1 DEF ReportedRemovals, KeysToRemove, Removed, getOrCreateChildDiff
    <3>2. QED
      BY <1>3, <3>1 DEF Removal, DiffRemoved, PerEvaluation
  <2>2. CASE \E k \in ReportedAdditions(doc, p) : x = getOrCreateChildDiff(DiffAdded(doc, p, k))
    <3>1. PICK k \in DOMAIN doc.at[p.a] : x = [of |-> DiffAdded(doc, p, k), by |-> Unset]
      BY <2>2 DEF ReportedAdditions, KeysToAdd, Added, getOrCreateChildDiff
    <3>2. QED
      BY <1>3, <3>1 DEF Addition, DiffAdded, PerEvaluation
  <2>3. QED
    BY <1>2, <1>4, <2>1, <2>2, ExitTells
<1>5. OpenPlaced(B, A)'
  BY <1>1, PopShrinks, ShrinkingPlaced DEF UniqueInv
<1>6. CachePlaced(B, A)'
  BY <1>1 DEF UniqueInv, CachePlaced, Placed
<1>7. DiffsPlaced(B, A)'
  <2>1. \A x \in diffs' : x \notin diffs => Removal(x, B)' \/ Addition(x, A)'
    BY <1>1, <1>4 DEF Removal, Addition
  <2>2. \A x \in diffs : Removal(x, B)' \/ Addition(x, A)' \/ Evaluation(x)'
    BY <1>1, OldDiffsStay DEF UniqueInv
  <2>3. QED
    BY <2>1, <2>2 DEF DiffsPlaced
<1>8. OncePerEvaluation'
  <2>1. \A x, y \in diffs' : PerEvaluation(x) /\ x.of.action = y.of.action
                               => x \in diffs /\ y \in diffs
    BY <1>4 DEF PerEvaluation
  <2>2. QED
    BY <2>1 DEF UniqueInv, OncePerEvaluation, PerEvaluation
<1>9. QED
  BY <1>5, <1>6, <1>7, <1>8 DEF UniqueInv

LEMMA UniqueStep ==
  ASSUME doc \in Input, DeclaredOnce(doc), CrawlInv, NEW B, NEW A, Documents(B, A),
         UniqueInv(B, A), [Next]_vars
  PROVE  UniqueInv(B, A)' /\ Documents(B, A)'
<1>1. (\E k \in Key : Visit(k)) => UniqueInv(B, A)'
  BY VisitUnique
<1>2. ExitHook => UniqueInv(B, A)'
  BY ExitUnique
<1>3. ASSUME Return PROVE UniqueInv(B, A)'
  <2>1. stack' = <<>> /\ UNCHANGED <<doc, cache, diffs>>
    BY <1>3 DEF Return
  <2>2. Shrinks
    BY <2>1 DEF Shrinks, CrawlInv, TypeOK
  <2>3. QED
    BY <2>1, <2>2, QuietUnique
<1>4. ASSUME UNCHANGED vars PROVE UniqueInv(B, A)'
  <2>1. Shrinks /\ UNCHANGED <<doc, cache, diffs>>
    BY <1>4 DEF vars, Shrinks, CrawlInv, TypeOK
  <2>2. QED
    BY <2>1, QuietUnique
<1>5. doc' = doc
  BY DEF Next, Visit, KeepRemoved, AdoptIgnored, Reuse, CompareLeaf, Descend, ExitHook,
         Return, vars
<1>6. Documents(B, A)'
  BY <1>5 DEF Documents
<1>7. QED
  BY <1>1, <1>2, <1>3, <1>4, <1>6 DEF Next

LEMMA PathTellsValue ==
  ASSUME NEW S, PathsLeadIn(doc, S), NEW o \in S, NEW q \in S,
         NEW k \in DOMAIN doc.at[o], NEW l \in DOMAIN doc.at[q],
         doc.decl[o][k] = doc.decl[q][l]
  PROVE  doc.at[o][k] = doc.at[q][l]
BY DEF PathsLeadIn

\* Two diffs that tell the same of the same places are one object.
LEMMA TellingSameIsSame ==
  ASSUME doc \in Input, CrawlInv, NEW B, NEW A, Documents(B, A), UniqueInv(B, A)
  PROVE  DiffsUnique
<1> SUFFICES ASSUME NEW x \in diffs, NEW y \in diffs,
                    x.of.action = y.of.action,
                    x.of.before = y.of.before, x.of.after = y.of.after,
                    x.of.scope = y.of.scope, x.of.custom = y.of.custom
             PROVE  x = y
  BY DEF DiffsUnique
<1>1. x \in DiffObject /\ y \in DiffObject /\ x.of \in Difference /\ y.of \in Difference
  BY DEF CrawlInv, TypeOK, DiffObject
<1>2. x.by = y.by /\ x.of = y.of => x = y
  BY <1>1 DEF DiffObject
<1>3. x.of.subject = y.of.subject => x.of = y.of
  BY <1>1 DEF Difference
<1>4. /\ Removal(x, B) \/ Addition(x, A) \/ Evaluation(x)
      /\ Removal(y, B) \/ Addition(y, A) \/ Evaluation(y)
  BY DEF UniqueInv, DiffsPlaced
<1>5. CASE Removal(x, B) /\ Removal(y, B)
  <2>1. PICK o \in B : \E k \in DOMAIN doc.at[o] :
           x.of.before = doc.decl[o][k] /\ x.of.subject = <<doc.at[o][k], Unset>>
    BY <1>5 DEF Removal
  <2>2. PICK k \in DOMAIN doc.at[o] :
           x.of.before = doc.decl[o][k] /\ x.of.subject = <<doc.at[o][k], Unset>>
    BY <2>1
  <2>3. PICK q \in B : \E l \in DOMAIN doc.at[q] :
           y.of.before = doc.decl[q][l] /\ y.of.subject = <<doc.at[q][l], Unset>>
    BY <1>5 DEF Removal
  <2>4. PICK l \in DOMAIN doc.at[q] :
           y.of.before = doc.decl[q][l] /\ y.of.subject = <<doc.at[q][l], Unset>>
    BY <2>3
  <2>5. doc.decl[o][k] = doc.decl[q][l] /\ PathsLeadIn(doc, B)
    BY <2>2, <2>4 DEF Documents
  <2>6. doc.at[o][k] = doc.at[q][l]
    BY <2>5, PathTellsValue
  <2>7. QED
    BY <1>2, <1>3, <1>5, <2>2, <2>4, <2>6 DEF Removal
<1>6. CASE Addition(x, A) /\ Addition(y, A)
  <2>1. PICK o \in A : \E k \in DOMAIN doc.at[o] :
           x.of.after = doc.decl[o][k] /\ x.of.subject = <<Unset, doc.at[o][k]>>
    BY <1>6 DEF Addition
  <2>2. PICK k \in DOMAIN doc.at[o] :
           x.of.after = doc.decl[o][k] /\ x.of.subject = <<Unset, doc.at[o][k]>>
    BY <2>1
  <2>3. PICK q \in A : \E l \in DOMAIN doc.at[q] :
           y.of.after = doc.decl[q][l] /\ y.of.subject = <<Unset, doc.at[q][l]>>
    BY <1>6 DEF Addition
  <2>4. PICK l \in DOMAIN doc.at[q] :
           y.of.after = doc.decl[q][l] /\ y.of.subject = <<Unset, doc.at[q][l]>>
    BY <2>3
  <2>5. doc.decl[o][k] = doc.decl[q][l] /\ PathsLeadIn(doc, A)
    BY <2>2, <2>4 DEF Documents
  <2>6. doc.at[o][k] = doc.at[q][l]
    BY <2>5, PathTellsValue
  <2>7. QED
    BY <1>2, <1>3, <1>6, <2>2, <2>4, <2>6 DEF Addition
<1>7. CASE Evaluation(x) /\ Evaluation(y)
  <2>1. PICK f \in DOMAIN cache : f = x.by
    BY <1>7 DEF Evaluation
  <2>2. PICK g \in DOMAIN cache : g = y.by
    BY <1>7 DEF Evaluation
  <2>3. /\ f.pb = g.pb /\ f.pa = g.pa /\ f.scope = g.scope /\ f.custom = g.custom
        /\ f \in Footprint /\ g \in Footprint
    BY <1>7, <2>1, <2>2 DEF Evaluation, CrawlInv, TypeOK
  <2>4. /\ Placed(f.b, f.pb, B) /\ Placed(f.a, f.pa, A)
        /\ Placed(g.b, g.pb, B) /\ Placed(g.a, g.pa, A)
    BY DEF UniqueInv, CachePlaced
  <2>5. f.b = g.b
    BY <2>3, <2>4 DEF Placed, Documents, PathsLeadIn
  <2>6. f.a = g.a
    BY <2>3, <2>4 DEF Placed, Documents, PathsLeadIn
  <2>7. f = g
    BY <2>3, <2>5, <2>6 DEF Footprint
  <2>8. QED
    BY <1>7, <2>1, <2>2, <2>7 DEF UniqueInv, OncePerEvaluation, Evaluation
<1>8. QED
  BY <1>4, <1>5, <1>6, <1>7 DEF Removal, Addition, Evaluation, PerEvaluation

UniqueInDocuments == \E B, A \in SUBSET Node : Documents(B, A) /\ UniqueInv(B, A)

(***************************************************************************)
(* No difference is told twice, where every value is declared in one place *)
(* and the place tells it: two diff objects that agree on the action, the  *)
(* paths and the scopes are one, although a replacement and a rename are   *)
(* made anew by every evaluation (types/compare.ts: diffs are unique by    *)
(* what DiffsUnique compares).                                             *)
(***************************************************************************)
THEOREM NoDiffToldTwice ==
  ASSUME \A d \in Input : DeclaredOnce(d) /\ ToldByPath(d)
  PROVE  Spec => []DiffsUnique
<1>1. Init => UniqueInDocuments
  <2> SUFFICES ASSUME Init PROVE UniqueInDocuments
    OBVIOUS
  <2>1. PICK B, A \in SUBSET Node : Documents(B, A)
    BY DEF Init, ToldByPath, Documents
  <2>2. /\ DOMAIN cache = {} /\ diffs = {} /\ Len(stack) = 1
        /\ stack[1].fp.b = BeforeRoot /\ stack[1].fp.a = AfterRoot
    BY DEF Init, Empty, RootFootprint
  <2>3. UniqueInv(B, A)
    BY <2>1, <2>2 DEF Documents, UniqueInv, OpenPlaced, CachePlaced, DiffsPlaced, OncePerEvaluation
  <2>4. QED
    BY <2>1, <2>3 DEF UniqueInDocuments
<1>2. doc \in Input /\ CrawlInv /\ UniqueInDocuments /\ [Next]_vars => UniqueInDocuments'
  BY UniqueStep DEF UniqueInDocuments
<1>3. doc \in Input /\ CrawlInv /\ UniqueInDocuments => DiffsUnique
  BY TellingSameIsSame DEF UniqueInDocuments
<1>4. QED
  BY <1>1, <1>2, <1>3, DocConstant, CrawlInvariant, PTL DEF Spec

=============================================================================
