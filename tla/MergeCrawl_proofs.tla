---------------------------- MODULE MergeCrawl_proofs ----------------------------
(***************************************************************************)
(* Proofs about MergeCrawl for every document pair, rule table and bound.  *)
(***************************************************************************)
EXTENDS MergeCrawl, WellFoundedInduction, SequenceTheorems, FunctionTheorems,
        FiniteSetTheorems, TLAPS

-----------------------------------------------------------------------------
(***************************************************************************)
(* Lemmas about the operators of the model.                                *)
(***************************************************************************)

\* The least element Outermost chooses exists: cleanUpRecursive always finds its ancestor.
LEMMA OutermostIsLeast ==
  ASSUME NEW S \in SUBSET Nat, S # {}
  PROVE  Outermost(S) \in S /\ \A j \in S : Outermost(S) <= j
<1> DEFINE R == {ss \in Nat \X Nat : ss[1] < ss[2]}
<1>1. IsWellFoundedOn(R, Nat)
  BY NatLessThanWellFounded DEF OpToRel
<1>2. PICK i \in S : \A j \in S : ~ (<<j, i>> \in R)
  BY <1>1, WFMin
<1>3. ASSUME NEW j \in S PROVE i <= j
  <2>1. i \in Nat /\ j \in Nat
    OBVIOUS
  <2>2. j < i => <<j, i>> \in R
    BY <2>1
  <2>3. QED
    BY <1>2, <2>1, <2>2
<1>4. QED
  BY <1>3 DEF Outermost

\* What a child pair is made of, for a pair of containers and a mapped key.
LEMMA ChildTyping ==
  ASSUME NEW d, IsDocumentPair(d), NEW p \in Pair, p.b \in Node, p.a \in Node,
         NEW k \in DOMAIN KeyMap(d, p)
  PROVE  /\ k \in Key /\ k \in DOMAIN d.at[p.b]
         /\ KeyMap(d, p)[k] \in Key /\ KeyMap(d, p)[k] \in DOMAIN d.at[p.a]
         /\ ChildPair(d, p, k) \in Pair
         /\ d.decl[p.b][k] \in Path /\ d.decl[p.a][KeyMap(d, p)[k]] \in Path
<1>1. ResolverContract(d, p.b, p.a)
  BY DEF IsDocumentPair
<1>2. k \in DOMAIN d.at[p.b] /\ KeyMap(d, p)[k] \in DOMAIN d.at[p.a]
  BY <1>1 DEF ResolverContract, KeyMap
<1>3. /\ k \in Key /\ KeyMap(d, p)[k] \in Key
      /\ d.at[p.b][k] \in Value /\ d.at[p.a][KeyMap(d, p)[k]] \in Value
      /\ d.decl[p.b][k] \in Path /\ d.decl[p.a][KeyMap(d, p)[k]] \in Path
  BY <1>2 DEF IsDocumentPair
<1>4. ScopeAt(p.scope, k) \in Scope
  BY <1>3, JsoAssumption DEF ScopeAt, Pair, CompareRule
<1>5. Rule[k].patchAt \in CustomScope
  BY <1>3, JsoAssumption DEF CompareRule
<1>6. MergeOrReuse(p.custom, Rule[k].patchAt) \in CustomScope
  BY <1>5 DEF MergeOrReuse, Pair, CustomScope
<1>7. QED
  BY <1>2, <1>3, <1>4, <1>6 DEF ChildPair, Pair

\* Every difference the factory builds is a Difference of the pair it is built for.
LEMMA DifferenceTyping ==
  ASSUME NEW d, IsDocumentPair(d), NEW p \in Pair, p.b \in Node, p.a \in Node
  PROVE  /\ \A k \in DOMAIN KeyMap(d, p) :
              DiffReplaced(d, p, k) \in Difference /\ DiffRenamed(d, p, k) \in Difference
         /\ \A k \in Removed(d, p) : DiffRemoved(d, p, k) \in Difference
         /\ \A k \in Added(d, p) : DiffAdded(d, p, k) \in Difference
<1>1. ASSUME NEW k \in DOMAIN KeyMap(d, p)
      PROVE  DiffReplaced(d, p, k) \in Difference /\ DiffRenamed(d, p, k) \in Difference
  BY <1>1, ChildTyping DEF DiffReplaced, DiffRenamed, Difference, Pair
<1>2. ASSUME NEW k \in Key
      PROVE  MergeOrReuse(p.custom, Rule[k].patchAt) \in CustomScope
  <2>1. Rule[k].patchAt \in CustomScope
    BY JsoAssumption DEF CompareRule
  <2>2. QED
    BY <2>1 DEF MergeOrReuse, Pair, CustomScope
<1>3. ASSUME NEW k \in Removed(d, p) PROVE DiffRemoved(d, p, k) \in Difference
  <2>1. k \in Key /\ d.at[p.b][k] \in Value /\ d.decl[p.b][k] \in Path
    BY <1>3 DEF Removed, IsDocumentPair
  <2>2. QED
    BY <2>1, <1>2, JsoAssumption DEF DiffRemoved, Difference, Pair
<1>4. ASSUME NEW k \in Added(d, p) PROVE DiffAdded(d, p, k) \in Difference
  <2>1. k \in Key /\ d.at[p.a][k] \in Value /\ d.decl[p.a][k] \in Path
    BY <1>4 DEF Added, IsDocumentPair
  <2>2. QED
    BY <2>1, <1>2, JsoAssumption DEF DiffAdded, Difference, Pair
<1>5. QED
  BY <1>1, <1>3, <1>4

-----------------------------------------------------------------------------
(***************************************************************************)
(* Lemmas about a state of the crawl.                                      *)
(***************************************************************************)
Typed == doc \in Input /\ TypeOK /\ OpenNodes

\* The document under comparison is one of the inputs, so it is a document pair.
LEMMA InputTyping == ASSUME doc \in Input PROVE IsDocumentPair(doc)
BY MergeCrawlAssumption

\* The pair of an open node is a pair of containers, whose children are values of the document.
LEMMA HereTyping ==
  ASSUME Typed, stack # <<>>
  PROVE  /\ Len(stack) \in 1 .. Len(stack)
         /\ Top \in Frame /\ Top.fp \in Footprint
         /\ Here \in Pair /\ Here.b = Top.fp.b /\ Here.a = Top.fp.a
         /\ Here.b \in Node /\ Here.a \in Node
         /\ Top.fp \in DOMAIN merged /\ Top.fp \in DOMAIN meta
<1>1. /\ Len(stack) \in 1 .. Len(stack)
      /\ \A i \in 1 .. Len(stack) : stack[i] \in Frame
  BY DEF Typed, TypeOK
<1>2. Top \in Frame /\ Top.fp \in Footprint
  BY <1>1 DEF Top, Frame
<1>3. Here \in Pair /\ Here.b = Top.fp.b /\ Here.a = Top.fp.a
  BY <1>2 DEF Here, PairOf, Pair, Footprint
<1>4. QED
  BY <1>1, <1>2, <1>3 DEF Typed, OpenNodes, TypeOK, Top

\* The path of a footprint: one of an open node with that value, or the child's own.
LEMMA CleanUpTyping ==
  ASSUME Typed, NEW v, NEW own \in Path
  PROVE  /\ cleanUpBefore(v, own) \in Path /\ cleanUpAfter(v, own) \in Path
         /\ OpenBefore(v) # {} =>
              \E i \in OpenBefore(v) : /\ cleanUpBefore(v, own) = stack[i].db
                                       /\ \A j \in OpenBefore(v) : i <= j
         /\ OpenAfter(v) # {} =>
              \E i \in OpenAfter(v) : /\ cleanUpAfter(v, own) = stack[i].da
                                      /\ \A j \in OpenAfter(v) : i <= j
<1>1. Len(stack) \in Nat /\ \A i \in 1 .. Len(stack) : stack[i] \in Frame
  BY DEF Typed, TypeOK
<1>2. OpenBefore(v) \in SUBSET Nat /\ OpenAfter(v) \in SUBSET Nat
  BY <1>1 DEF OpenBefore, OpenAfter
<1>3. \A i \in OpenBefore(v) \cup OpenAfter(v) : stack[i].db \in Path /\ stack[i].da \in Path
  BY <1>1 DEF OpenBefore, OpenAfter, Frame
<1>4. QED
  BY <1>2, <1>3, OutermostIsLeast DEF cleanUpBefore, cleanUpAfter

\* The footprint of a child is a Footprint, and keeps the values and scopes of its pair.
LEMMA FootprintTyping ==
  ASSUME Typed, stack # <<>>, NEW k \in Compared(doc, Here)
  PROVE  /\ k \in DOMAIN KeyMap(doc, Here)
         /\ ChildFootprint(k) \in Footprint
         /\ PairOf(ChildFootprint(k)) = ChildPair(doc, Here, k)
<1>1. k \in DOMAIN KeyMap(doc, Here)
  BY DEF Compared
<1>2. IsDocumentPair(doc)
  BY InputTyping DEF Typed
<1>3. /\ ChildPair(doc, Here, k) \in Pair
      /\ doc.decl[Here.b][k] \in Path
      /\ doc.decl[Here.a][KeyMap(doc, Here)[k]] \in Path
  BY <1>1, <1>2, HereTyping, ChildTyping
<1>4. QED
  BY <1>1, <1>3, CleanUpTyping DEF ChildFootprint, Footprint, Pair, PairOf

-----------------------------------------------------------------------------
(***************************************************************************)
(* The document pair never changes.                                        *)
(***************************************************************************)
LEMMA DocConstant == Spec => [](doc \in Input)
<1>1. Init => doc \in Input
  BY DEF Init
<1>2. doc \in Input /\ [Next]_vars => (doc \in Input)'
  BY DEF Next, Visit, KeepRemoved, AdoptIgnored, Reuse, CompareLeaf, Descend, ExitHook,
         Return, vars
<1>3. QED
  BY <1>1, <1>2, PTL DEF Spec

(***************************************************************************)
(* Steps that open no node.  They keep what is said of the open nodes, as  *)
(* long as those left are the outermost ones and keep their footprints.    *)
(***************************************************************************)
Shrinks ==
  /\ stack' \in Seq(Frame) /\ Len(stack') <= Len(stack)
  /\ \A i \in 1 .. Len(stack') :
        /\ stack'[i].fp = stack[i].fp
        /\ stack'[i].db = stack[i].db /\ stack'[i].da = stack[i].da
        /\ stack'[i].todo \subseteq stack[i].todo

\* Taking a key off the innermost node leaves every open node where it was.
LEMMA ConsumeKeeps ==
  ASSUME TypeOK, stack # <<>>, NEW k
  PROVE  /\ Consume(k) \in Seq(Frame) /\ Len(Consume(k)) = Len(stack)
         /\ \A i \in 1 .. Len(stack) :
               /\ Consume(k)[i].fp = stack[i].fp
               /\ Consume(k)[i].db = stack[i].db /\ Consume(k)[i].da = stack[i].da
               /\ Consume(k)[i].todo \subseteq stack[i].todo
<1>1. Len(stack) \in 1 .. Len(stack) /\ stack[Len(stack)] \in Frame
  BY DEF TypeOK
<1>2. [stack[Len(stack)] EXCEPT !.todo = @ \ {k}] \in Frame
  BY <1>1 DEF Frame
<1>3. Consume(k) = [stack EXCEPT ![Len(stack)] = [stack[Len(stack)] EXCEPT !.todo = @ \ {k}]]
  BY DEF Consume
<1>4. Consume(k) \in Seq(Frame) /\ Len(Consume(k)) = Len(stack)
  BY <1>1, <1>2, <1>3 DEF TypeOK
<1>5. ASSUME NEW i \in 1 .. Len(stack)
      PROVE  /\ Consume(k)[i].fp = stack[i].fp
             /\ Consume(k)[i].db = stack[i].db /\ Consume(k)[i].da = stack[i].da
             /\ Consume(k)[i].todo \subseteq stack[i].todo
  <2>1. CASE i = Len(stack)
    BY <2>1, <1>1, <1>3 DEF Frame, TypeOK
  <2>2. CASE i # Len(stack)
    BY <2>2, <1>3, <1>1 DEF TypeOK
  <2>3. QED
    BY <2>1, <2>2
<1>6. QED
  BY <1>4, <1>5

\* Taking a key off shrinks what is left to visit in the innermost node.
LEMMA ConsumeShrinks ==
  ASSUME TypeOK, stack # <<>>, NEW k, stack' = Consume(k)
  PROVE  Shrinks
<1>1. Len(stack) \in Nat
  BY DEF TypeOK
<1>2. QED
  BY <1>1, ConsumeKeeps DEF Shrinks

\* Closing the innermost node leaves the ones around it as they were.
LEMMA PopShrinks ==
  ASSUME TypeOK, stack # <<>>, stack' = SubSeq(stack, 1, Len(stack) - 1)
  PROVE  Shrinks
<1>1. /\ stack \in Seq(Frame) /\ Len(stack) \in Nat /\ Len(stack) >= 1
      /\ \A i \in 1 .. Len(stack) : stack[i] \in Frame
  BY DEF TypeOK
<1> DEFINE n == Len(stack) - 1
<1>2. n \in Nat /\ \A i \in 1 .. n : stack[i] \in Frame
  BY <1>1
<1>3. /\ SubSeq(stack, 1, n) \in Seq(Frame)
      /\ Len(SubSeq(stack, 1, n)) = IF 1 <= n THEN n - 1 + 1 ELSE 0
      /\ \A i \in 1 .. n - 1 + 1 : SubSeq(stack, 1, n)[i] = stack[1 + i - 1]
  <2> HIDE DEF n
  <2>1. n \in Int /\ 1 \in Int
    BY <1>2
  <2>2. QED
    BY <1>2, <2>1, SubSeqProperties
<1>4. stack' = SubSeq(stack, 1, n)
  OBVIOUS
<1>5. Len(stack') = n /\ \A i \in 1 .. n : stack'[i] = stack[i]
  <2> HIDE DEF n
  <2>1. QED
    BY <1>2, <1>3, <1>4
<1>6. QED
  BY <1>1, <1>3, <1>4, <1>5 DEF Shrinks

\* A step that opens nothing and makes no merged object keeps the invariant.
LEMMA ShrinkingStep ==
  ASSUME TypeOK, OpenNodes, CleanPaths, NoReentry, Shrinks, doc' = doc,
         created \subseteq created', DOMAIN cache \subseteq DOMAIN cache'
  PROVE  OpenNodes' /\ CleanPaths' /\ NoReentry'
<1>1. Len(stack) \in Nat /\ Len(stack') \in Nat /\ Len(stack') <= Len(stack)
  BY DEF TypeOK, Shrinks
<1>2. /\ \A i \in 1 .. Len(stack') : i \in 1 .. Len(stack)
      /\ \A i \in 2 .. Len(stack') : i \in 2 .. Len(stack) /\ i \in 1 .. Len(stack')
      /\ \A i \in 2 .. Len(stack') : \A j \in 2 .. i - 1 : j \in 2 .. Len(stack')
  BY <1>1
<1>3. OpenNodes'
  BY <1>2 DEF OpenNodes, Shrinks
<1>4. CleanPaths'
  <2>1. \A i \in 2 .. Len(stack') :
           stack'[i].fp = stack[i].fp /\ stack'[i].db = stack[i].db /\ stack'[i].da = stack[i].da
    BY <1>2 DEF Shrinks
  <2>2. \A i, j \in 2 .. Len(stack') :
           /\ stack'[i].fp.b = stack'[j].fp.b => stack'[i].fp.pb = stack'[j].fp.pb
           /\ stack'[i].fp.a = stack'[j].fp.a => stack'[i].fp.pa = stack'[j].fp.pa
    BY <1>2, <2>1 DEF CleanPaths
  <2>3. ASSUME NEW i \in 2 .. Len(stack'),
               \A j \in 2 .. i - 1 : stack'[j].fp.b # stack'[i].fp.b
        PROVE  stack'[i].fp.pb = stack'[i].db
    BY <1>2, <2>1, <2>3 DEF CleanPaths
  <2>4. ASSUME NEW i \in 2 .. Len(stack'),
               \A j \in 2 .. i - 1 : stack'[j].fp.a # stack'[i].fp.a
        PROVE  stack'[i].fp.pa = stack'[i].da
    BY <1>2, <2>1, <2>4 DEF CleanPaths
  <2>5. QED
    BY <2>2, <2>3, <2>4 DEF CleanPaths
<1>5. NoReentry'
  <2>1. \A i \in 2 .. Len(stack') : stack'[i].fp = stack[i].fp
    BY <1>2 DEF Shrinks
  <2>2. ASSUME NEW i \in 2 .. Len(stack'), NEW j \in 2 .. Len(stack'),
               PairOf(stack'[i].fp) = PairOf(stack'[j].fp)
        PROVE  i = j
    BY <1>2, <2>1, <2>2 DEF NoReentry
  <2>3. QED
    BY <2>2 DEF NoReentry, PairOf
<1>6. QED
  BY <1>3, <1>4, <1>5

-----------------------------------------------------------------------------
(***************************************************************************)
(* CrawlInv is an invariant: the initial state, then one step per action.  *)
(***************************************************************************)
LEMMA CrawlInit == ASSUME Init PROVE CrawlInv
<1>1. RootFootprint \in Footprint
  <2>1. EMPTY_CUSTOM_SCOPE \in CustomScope
    BY DEF EMPTY_CUSTOM_SCOPE, CustomScope
  <2>2. QED
    BY <2>1, JsoAssumption DEF RootFootprint, Footprint, Value
<1>2. [fp |-> RootFootprint, db |-> NoPath, da |-> NoPath, todo |-> {RootKey}] \in Frame
  BY <1>1, JsoAssumption DEF Frame
<1>3. stack \in Seq(Frame) /\ Len(stack) = 1 /\ stack[1].fp = RootFootprint
      /\ stack[1].todo = {RootKey}
  BY <1>2 DEF Init
<1>4. TypeOK
  BY <1>3 DEF Init, TypeOK, Empty
<1>5. OpenNodes
  <2>1. DOMAIN doc.at[BeforeRoot] = {RootKey}
    BY InputTyping DEF Init, IsDocumentPair
  <2>2. RootFootprint.b = BeforeRoot /\ RootFootprint.a = AfterRoot
    BY DEF RootFootprint
  <2>3. QED
    BY <1>3, <2>1, <2>2, JsoAssumption DEF OpenNodes
<1>6. CleanPaths /\ NoReentry
  BY <1>3 DEF CleanPaths, NoReentry
<1>7. QED
  BY <1>4, <1>5, <1>6 DEF CrawlInv

\* A key without a counterpart, an ignored key or a reused result: nothing is opened.
LEMMA QuietStep ==
  ASSUME CrawlInv, NEW k, KeepRemoved(k) \/ AdoptIgnored(k) \/ Reuse(k)
  PROVE  CrawlInv'
<1>1. /\ stack # <<>> /\ stack' = Consume(k) /\ UNCHANGED <<doc, cache, created, diffs>>
      /\ DOMAIN merged' = DOMAIN merged /\ DOMAIN meta' = DOMAIN meta
  BY DEF KeepRemoved, AdoptIgnored, Reuse, CanVisit, SetChild
<1>2. Shrinks
  BY <1>1, ConsumeShrinks DEF CrawlInv
<1>3. TypeOK'
  BY <1>1, <1>2 DEF CrawlInv, TypeOK, Shrinks
<1>4. QED
  BY <1>1, <1>2, <1>3, ShrinkingStep DEF CrawlInv

\* The rename diff of a child is a diff object.
LEMMA RenamesTyping ==
  ASSUME Typed, stack # <<>>, NEW k \in Compared(doc, Here), NEW f \in Footprint
  PROVE  Renames(k, f) \subseteq DiffObject
<1>1. DiffRenamed(doc, Here, k) \in Difference
  BY HereTyping, FootprintTyping, InputTyping, DifferenceTyping DEF Typed
<1>2. QED
  BY <1>1 DEF Renames, DiffObject

\* Comparing two leaves keeps the invariant: only a leaf enters the cache.
LEMMA LeafStep ==
  ASSUME doc \in Input, CrawlInv, NEW k, CompareLeaf(k)
  PROVE  CrawlInv'
<1> DEFINE f == ChildFootprint(k)
           replaced == IF f.b # f.a
                       THEN {[of |-> DiffReplaced(doc, Here, k), by |-> f]} ELSE {}
<1>1. stack # <<>> /\ k \in Compared(doc, Here) /\ Typed
  BY DEF CompareLeaf, CanVisit, CrawlInv, Typed
<1>2. f \in Footprint /\ Renames(k, f) \subseteq DiffObject
  BY <1>1, FootprintTyping, RenamesTyping
<1>3. replaced \subseteq DiffObject
  <2>1. DiffReplaced(doc, Here, k) \in Difference
    BY <1>1, HereTyping, FootprintTyping, InputTyping, DifferenceTyping DEF Typed
  <2>2. QED
    BY <2>1, <1>2 DEF DiffObject
<1>4. /\ cache' = Put(cache, f, [value |-> f.a, pull |-> replaced])
      /\ DOMAIN merged' = DOMAIN merged /\ DOMAIN meta' = DOMAIN meta
      /\ diffs' = diffs \cup Renames(k, f) \cup replaced
      /\ stack' = Consume(k) /\ UNCHANGED <<doc, created>>
  BY DEF CompareLeaf, SetChild
<1>5. f.a \in Value
  BY <1>2 DEF Footprint
<1> HIDE DEF f, replaced
<1>6. Shrinks
  BY <1>1, <1>4, ConsumeShrinks DEF CrawlInv
<1>7. /\ DOMAIN cache' = DOMAIN cache \cup {f}
      /\ \A g \in DOMAIN cache' :
            cache'[g] = IF g = f THEN [value |-> f.a, pull |-> replaced] ELSE cache[g]
  BY <1>4 DEF Put
<1>8. TypeOK'
  <2>1. \A g \in DOMAIN cache' :
           cache'[g] \in [value : Value \cup Footprint, pull : SUBSET DiffObject]
    BY <1>3, <1>5, <1>7 DEF CrawlInv, TypeOK
  <2>2. QED
    BY <1>2, <1>3, <1>4, <1>6, <1>7, <2>1 DEF CrawlInv, TypeOK, Shrinks
<1>9. QED
  BY <1>4, <1>6, <1>7, <1>8, ShrinkingStep DEF CrawlInv

(***************************************************************************)
(* A value met inside itself gets the path its open nodes already have;    *)
(* a value met for the first time keeps its own.                           *)
(***************************************************************************)
LEMMA CleanUpAgrees ==
  ASSUME Typed, CleanPaths, NEW v, NEW own \in Path
  PROVE  /\ \A j \in OpenBefore(v) : cleanUpBefore(v, own) = stack[j].fp.pb
         /\ \A j \in OpenAfter(v) : cleanUpAfter(v, own) = stack[j].fp.pa
         /\ OpenBefore(v) = {} => cleanUpBefore(v, own) = own
         /\ OpenAfter(v) = {} => cleanUpAfter(v, own) = own
<1>1. Len(stack) \in Nat
  BY DEF Typed, TypeOK
<1>2. ASSUME NEW j \in OpenBefore(v) PROVE cleanUpBefore(v, own) = stack[j].fp.pb
  <2>1. PICK i \in OpenBefore(v) : /\ cleanUpBefore(v, own) = stack[i].db
                                   /\ \A l \in OpenBefore(v) : i <= l
    BY <1>2, CleanUpTyping
  <2>2. /\ i \in 2 .. Len(stack) /\ j \in 2 .. Len(stack)
        /\ stack[i].fp.b = v /\ stack[j].fp.b = v
    BY <1>2 DEF OpenBefore
  <2>3. ASSUME NEW l \in 2 .. i - 1 PROVE stack[l].fp.b # stack[i].fp.b
    BY <1>1, <2>1, <2>2, <2>3 DEF OpenBefore
  <2>4. stack[i].fp.pb = stack[i].db /\ stack[i].fp.pb = stack[j].fp.pb
    BY <2>2, <2>3 DEF CleanPaths
  <2>5. QED
    BY <2>1, <2>4
<1>3. ASSUME NEW j \in OpenAfter(v) PROVE cleanUpAfter(v, own) = stack[j].fp.pa
  <2>1. PICK i \in OpenAfter(v) : /\ cleanUpAfter(v, own) = stack[i].da
                                  /\ \A l \in OpenAfter(v) : i <= l
    BY <1>3, CleanUpTyping
  <2>2. /\ i \in 2 .. Len(stack) /\ j \in 2 .. Len(stack)
        /\ stack[i].fp.a = v /\ stack[j].fp.a = v
    BY <1>3 DEF OpenAfter
  <2>3. ASSUME NEW l \in 2 .. i - 1 PROVE stack[l].fp.a # stack[i].fp.a
    BY <1>1, <2>1, <2>2, <2>3 DEF OpenAfter
  <2>4. stack[i].fp.pa = stack[i].da /\ stack[i].fp.pa = stack[j].fp.pa
    BY <2>2, <2>3 DEF CleanPaths
  <2>5. QED
    BY <2>1, <2>4
<1>4. QED
  BY <1>2, <1>3 DEF cleanUpBefore, cleanUpAfter

\* Opening a pair: the step the whole argument is about.
LEMMA DescendStep ==
  ASSUME doc \in Input, CrawlInv, NEW k, Descend(k)
  PROVE  CrawlInv'
<1> DEFINE f == ChildFootprint(k)
           n == Len(stack)
           fr == [fp |-> f, db |-> doc.decl[Here.b][k],
                  da |-> doc.decl[Here.a][KeyMap(doc, Here)[k]],
                  todo |-> DOMAIN doc.at[f.b]]
<1>1. stack # <<>> /\ k \in Compared(doc, Here) /\ Typed /\ CleanPaths /\ NoReentry
  BY DEF Descend, CanVisit, CrawlInv, Typed
<1>2. f \in Footprint /\ Renames(k, f) \subseteq DiffObject
  BY <1>1, FootprintTyping, RenamesTyping
<1>3. /\ f \notin DOMAIN cache /\ f.b \in Node /\ f.a \in Node
      /\ cache' = Put(cache, f, [value |-> f, pull |-> {}])
      /\ created' = created \cup {f}
      /\ DOMAIN merged' = DOMAIN merged \cup {f} /\ DOMAIN meta' = DOMAIN meta \cup {f}
      /\ diffs' = diffs \cup Renames(k, f)
      /\ stack' = Append(Consume(k), fr) /\ UNCHANGED doc
  BY DEF Descend, IsMiss, SameContainer, Put
<1>4. fr.db \in Path /\ fr.da \in Path /\ fr \in Frame
  <2>1. fr.db \in Path /\ fr.da \in Path
    BY <1>1, HereTyping, InputTyping, FootprintTyping, ChildTyping DEF Typed
  <2>2. DOMAIN doc.at[f.b] \subseteq Key
    BY <1>3, InputTyping DEF IsDocumentPair
  <2>3. QED
    BY <1>2, <2>1, <2>2 DEF Frame
<1>5. /\ f.pb = cleanUpBefore(f.b, fr.db) /\ f.pa = cleanUpAfter(f.a, fr.da)
  BY DEF ChildFootprint
<1>6. /\ fr.fp = f /\ fr.todo = DOMAIN doc.at[f.b]
  OBVIOUS
<1> HIDE DEF f, fr
<1>7. /\ n \in Nat /\ stack' \in Seq(Frame) /\ Len(stack') = n + 1 /\ stack'[n + 1] = fr
      /\ \A i \in 1 .. n : /\ stack'[i].fp = stack[i].fp
                           /\ stack'[i].db = stack[i].db /\ stack'[i].da = stack[i].da
                           /\ stack'[i].todo \subseteq stack[i].todo
  BY <1>1, <1>3, <1>4, ConsumeKeeps DEF CrawlInv, TypeOK
<1>8. /\ \A i \in 1 .. Len(stack') : i = n + 1 \/ i \in 1 .. n
      /\ \A i \in 2 .. Len(stack') : i = n + 1 \/ (i \in 2 .. n /\ i \in 1 .. n)
  BY <1>7
<1>9. TypeOK'
  <2>1. /\ DOMAIN cache' = DOMAIN cache \cup {f}
        /\ \A g \in DOMAIN cache' :
              cache'[g] = IF g = f THEN [value |-> f, pull |-> {}] ELSE cache[g]
    BY <1>3 DEF Put
  <2>2. \A g \in DOMAIN cache' :
           cache'[g] \in [value : Value \cup Footprint, pull : SUBSET DiffObject]
    BY <1>2, <2>1 DEF CrawlInv, TypeOK
  <2>3. QED
    BY <1>2, <1>3, <1>7, <2>1, <2>2 DEF CrawlInv, TypeOK
<1>10. OpenNodes'
  <2>1. DOMAIN cache' = DOMAIN cache \cup {f}
    BY <1>3 DEF Put
  <2>2. \A i \in 1 .. Len(stack') :
           /\ stack'[i].fp.b \in Node /\ stack'[i].fp.a \in Node
           /\ stack'[i].todo \subseteq DOMAIN doc'.at[stack'[i].fp.b]
           /\ stack'[i].fp \in created' \cup {RootFootprint}
    BY <1>3, <1>6, <1>7, <1>8 DEF CrawlInv, OpenNodes
  <2>3. \A i \in 2 .. Len(stack') : stack'[i].fp \in DOMAIN cache'
    BY <1>6, <1>7, <1>8, <2>1 DEF CrawlInv, OpenNodes
  <2>4. QED
    BY <2>2, <2>3 DEF OpenNodes
<1>11. /\ \A j \in 2 .. n : stack[j].fp.b = f.b => stack[j].fp.pb = f.pb
       /\ \A j \in 2 .. n : stack[j].fp.a = f.a => stack[j].fp.pa = f.pa
       /\ (\A j \in 2 .. n : stack[j].fp.b # f.b) => f.pb = fr.db
       /\ (\A j \in 2 .. n : stack[j].fp.a # f.a) => f.pa = fr.da
  BY <1>1, <1>4, <1>5, CleanUpAgrees DEF OpenBefore, OpenAfter
<1>12. CleanPaths'
  <2>1. \A i, j \in 2 .. Len(stack') :
           /\ stack'[i].fp.b = stack'[j].fp.b => stack'[i].fp.pb = stack'[j].fp.pb
           /\ stack'[i].fp.a = stack'[j].fp.a => stack'[i].fp.pa = stack'[j].fp.pa
    BY <1>1, <1>6, <1>7, <1>8, <1>11 DEF CleanPaths
  <2>2. ASSUME NEW i \in 2 .. Len(stack'),
               \A j \in 2 .. i - 1 : stack'[j].fp.b # stack'[i].fp.b
        PROVE  stack'[i].fp.pb = stack'[i].db
    <3>1. CASE i = n + 1
      BY <1>6, <1>7, <1>11, <2>2, <3>1
    <3>2. CASE i \in 2 .. n
      BY <1>1, <1>7, <2>2, <3>2 DEF CleanPaths
    <3>3. QED
      BY <1>8, <3>1, <3>2
  <2>3. ASSUME NEW i \in 2 .. Len(stack'),
               \A j \in 2 .. i - 1 : stack'[j].fp.a # stack'[i].fp.a
        PROVE  stack'[i].fp.pa = stack'[i].da
    <3>1. CASE i = n + 1
      BY <1>6, <1>7, <1>11, <2>3, <3>1
    <3>2. CASE i \in 2 .. n
      BY <1>1, <1>7, <2>3, <3>2 DEF CleanPaths
    <3>3. QED
      BY <1>8, <3>1, <3>2
  <2>4. QED
    BY <2>1, <2>2, <2>3 DEF CleanPaths
<1>13. NoReentry'
  <2>1. ASSUME NEW j \in 2 .. n, PairOf(stack[j].fp) = PairOf(f) PROVE FALSE
    <3>1. stack[j].fp \in Footprint /\ stack[j].fp \in DOMAIN cache
      BY DEF CrawlInv, TypeOK, OpenNodes, Frame
    <3>2. /\ stack[j].fp.b = f.b /\ stack[j].fp.a = f.a
          /\ stack[j].fp.scope = f.scope /\ stack[j].fp.custom = f.custom
      BY <2>1 DEF PairOf
    <3>3. stack[j].fp = f
      BY <1>2, <1>11, <3>1, <3>2 DEF Footprint
    <3>4. QED
      BY <1>3, <3>1, <3>3
  <2>2. ASSUME NEW i \in 2 .. Len(stack'), NEW j \in 2 .. Len(stack'),
               PairOf(stack'[i].fp) = PairOf(stack'[j].fp)
        PROVE  i = j
    BY <1>1, <1>6, <1>7, <1>8, <2>1, <2>2 DEF NoReentry
  <2>3. QED
    BY <2>2 DEF NoReentry, PairOf
<1>14. QED
  BY <1>9, <1>10, <1>12, <1>13 DEF CrawlInv

\* What the exit hook reports is made of the removals and additions of the node.
LEMMA ExitReports ==
  ASSUME Typed, ExitHook
  PROVE  diffs' \subseteq DiffObject
<1> DEFINE A == Additions(Here)
           place == [k \in DOMAIN A |-> KeyInMerge(Here, merged[Top.fp], k)]
           added == [x \in {place[k] : k \in DOMAIN A} |->
                       A[CHOOSE k \in DOMAIN A : place[k] = x]]
           entries == Overlay(Removals(Here), added)
<1>1. diffs' = diffs \cup {entries[x] : x \in DOMAIN entries}
  BY DEF ExitHook, AddedEntries
<1>2. stack # <<>>
  BY DEF ExitHook, Typed, TypeOK
<1>3. /\ \A k \in DOMAIN Removals(Here) : Removals(Here)[k] \in DiffObject
      /\ \A k \in DOMAIN A : A[k] \in DiffObject
  <2>1. /\ \A k \in Removed(doc, Here) : DiffRemoved(doc, Here, k) \in Difference
        /\ \A k \in Added(doc, Here) : DiffAdded(doc, Here, k) \in Difference
    BY <1>2, HereTyping, InputTyping, DifferenceTyping DEF Typed
  <2>2. /\ ReportedRemovals(doc, Here) \subseteq Removed(doc, Here)
        /\ ReportedAdditions(doc, Here) \subseteq Added(doc, Here)
    BY DEF ReportedRemovals, ReportedAdditions, KeysToRemove, KeysToAdd
  <2>3. QED
    BY <2>1, <2>2 DEF Removals, Additions, getOrCreateChildDiff, DiffObject
<1> HIDE DEF A
<1>4. \A x \in DOMAIN added : added[x] \in DiffObject
  <2>1. \A x \in {place[k] : k \in DOMAIN A} :
           (CHOOSE k \in DOMAIN A : place[k] = x) \in DOMAIN A
    <3> HIDE DEF place
    <3>1. QED
      OBVIOUS
  <2>2. QED
    BY <1>3, <2>1
<1> HIDE DEF added
<1>5. \A x \in DOMAIN entries : entries[x] \in DiffObject
  BY <1>3, <1>4 DEF Overlay
<1>6. QED
  BY <1>1, <1>5 DEF Typed, TypeOK

\* Leaving a node keeps the invariant: it is closed, and its own merged object changes.
LEMMA ExitStep ==
  ASSUME doc \in Input, CrawlInv, ExitHook
  PROVE  CrawlInv'
<1>1. /\ stack' = SubSeq(stack, 1, Len(stack) - 1) /\ UNCHANGED <<doc, cache, created>>
      /\ DOMAIN merged' = DOMAIN merged /\ DOMAIN meta' = DOMAIN meta
  BY DEF ExitHook
<1>2. stack # <<>>
  BY DEF ExitHook, CrawlInv, TypeOK
<1>3. Shrinks
  BY <1>1, <1>2, PopShrinks DEF CrawlInv
<1>4. diffs' \subseteq DiffObject
  BY ExitReports DEF Typed, CrawlInv
<1>5. TypeOK'
  BY <1>1, <1>3, <1>4 DEF CrawlInv, TypeOK, Shrinks
<1>6. QED
  BY <1>1, <1>3, <1>5, ShrinkingStep DEF CrawlInv

\* Returning from the comparison keeps the invariant: nothing is open.
LEMMA ReturnStep ==
  ASSUME CrawlInv, Return
  PROVE  CrawlInv'
<1>1. stack' = <<>> /\ UNCHANGED <<doc, cache, created, merged, meta, diffs>>
  BY DEF Return
<1>2. Shrinks
  BY <1>1 DEF Shrinks, CrawlInv, TypeOK
<1>3. TypeOK'
  BY <1>1 DEF CrawlInv, TypeOK
<1>4. QED
  BY <1>1, <1>2, <1>3, ShrinkingStep DEF CrawlInv

\* One case per action of the crawl.
LEMMA CrawlStep ==
  ASSUME doc \in Input, CrawlInv, [Next]_vars
  PROVE  CrawlInv'
<1>1. ASSUME NEW k \in Key, Visit(k) PROVE CrawlInv'
  <2>1. CASE KeepRemoved(k) \/ AdoptIgnored(k) \/ Reuse(k)
    BY <2>1, QuietStep
  <2>2. CASE CompareLeaf(k)
    BY <2>2, LeafStep
  <2>3. CASE Descend(k)
    BY <2>3, DescendStep
  <2>4. QED
    BY <1>1, <2>1, <2>2, <2>3 DEF Visit
<1>2. CASE ExitHook
  BY <1>2, ExitStep
<1>3. CASE Return
  BY <1>3, ReturnStep
<1>4. CASE UNCHANGED vars
  BY <1>4 DEF vars, CrawlInv, TypeOK, OpenNodes, CleanPaths, NoReentry, PairOf
<1>5. QED
  BY <1>1, <1>2, <1>3, <1>4 DEF Next

-----------------------------------------------------------------------------
(***************************************************************************)
(* For every pair of documents, every rule table and every depth: the open *)
(* nodes of the crawl are cached and have clean paths (cleanUpRecursive).  *)
(***************************************************************************)
THEOREM CrawlInvariant == Spec => []CrawlInv
<1>1. Init => CrawlInv
  BY CrawlInit
<1>2. doc \in Input /\ CrawlInv /\ [Next]_vars => CrawlInv'
  BY CrawlStep
<1>3. QED
  BY <1>1, <1>2, DocConstant, PTL DEF Spec

(***************************************************************************)
(* No pair of values is ever opened inside itself, whatever cycles the     *)
(* documents have: the recursion of the crawl is bounded by the number of  *)
(* pairs of values and scopes there are.                                   *)
(***************************************************************************)
THEOREM NeverReentered == Spec => []NoReentry
<1>1. CrawlInv => NoReentry
  BY DEF CrawlInv
<1>2. QED
  BY <1>1, CrawlInvariant, PTL

(***************************************************************************)
(* The recursion is never deeper than there are pairs of values and scopes *)
(* in the two documents, plus the root: on finite documents the crawl      *)
(* cannot be unrolled for ever, and a MaxDepth beyond that bounds nothing. *)
(***************************************************************************)
THEOREM DepthBounded ==
  ASSUME IsFiniteSet(Pair)
  PROVE  Spec => [](Len(stack) <= 1 + Cardinality(Pair))
<1>1. CrawlInv => Len(stack) <= 1 + Cardinality(Pair)
  <2> SUFFICES ASSUME CrawlInv PROVE Len(stack) <= 1 + Cardinality(Pair)
    OBVIOUS
  <2> DEFINE n == Len(stack)
             open == [i \in 2 .. n |-> PairOf(stack[i].fp)]
  <2>1. n \in Nat /\ \A i \in 1 .. n : stack[i] \in Frame
    BY DEF CrawlInv, TypeOK
  <2>2. \A i \in 2 .. n : PairOf(stack[i].fp) \in Pair
    BY <2>1 DEF PairOf, Pair, Frame, Footprint
  <2>3. \A i, j \in 2 .. n : open[i] = open[j] => i = j
    BY DEF CrawlInv, NoReentry
  <2>4. open \in [2 .. n -> Pair]
    BY <2>2
  <2>5. open \in Injection(2 .. n, Pair)
    <3> HIDE DEF open
    <3>1. QED
      BY <2>3, <2>4, Fun_IsInj
  <2>6. Cardinality(2 .. n) <= Cardinality(Pair)
    <3> HIDE DEF open
    <3>1. QED
      BY <2>5, FS_Injection
  <2>7. Cardinality(2 .. n) = IF 2 > n THEN 0 ELSE n - 2 + 1
    BY <2>1, FS_Interval
  <2>8. Cardinality(Pair) \in Nat
    BY FS_CardinalityType
  <2>9. QED
    BY <2>1, <2>6, <2>7, <2>8
<1>2. QED
  BY <1>1, CrawlInvariant, PTL

-----------------------------------------------------------------------------
(***************************************************************************)
(* The merged document is whole and its diff records tell what the list of *)
(* differences tells, for every document pair, also a cyclic one, every    *)
(* rule table and every bound.                                             *)
(***************************************************************************)

(***************************************************************************)
(* The inductive invariant.                                                *)
(***************************************************************************)

\* The key of the merged object under which key k of p.b is merged.
Place(p, k) == IF k \in DOMAIN KeyMap(doc, p) THEN MergeKey(doc, p, k) ELSE k

KeysOf(f) == DOMAIN doc.at[f.b]

\* Key k of f.b has been visited, or f is not open.
Seen(f, k) == \A i \in 1 .. Len(stack) : stack[i].fp = f => k \notin stack[i].todo

\* Only the outermost node is the pseudo root, and no merged object is made for it.
RootOutermost ==
  /\ \A i \in 1 .. Len(stack) : stack[i].fp = RootFootprint <=> i = 1
  /\ RootFootprint \notin created

\* A leaf that differs is cached with its replace diff, which has been reported.
PullRight(g) ==
  IF g.b = g.a THEN cache[g].pull = {}
  ELSE \E e \in diffs :
         /\ cache[g].pull = {e} /\ e.of.action = "replace" /\ e.of.subject = <<g.b, g.a>>
         /\ e.of.scope = g.scope /\ e.of.custom = g.custom

\* The cache knows every merged object by its own footprint, and leaves by their after value.
CacheRight ==
  /\ \A g \in created : g \in DOMAIN cache /\ SameContainer(doc, g.b, g.a)
  /\ \A g \in DOMAIN cache :
        IF SameContainer(doc, g.b, g.a)
        THEN g \in created /\ cache[g] = [value |-> g, pull |-> {}]
        ELSE cache[g].value = g.a /\ PullRight(g)

\* What a merged object holds and records for a key that has been visited.
Filled(f, k) ==
  LET p == PairOf(f)
  IN  /\ Place(p, k) \in DOMAIN merged[f]
      /\ IF k \in DOMAIN KeyMap(doc, p) THEN LinkedRight(f, k)
         ELSE merged[f][k] = doc.at[f.b][k]
      /\ k \in ReplacedKeys(doc, p) => RecordedAt(f, MergeKey(doc, p, k), DiffReplaced(doc, p, k))

ObjectsFilled ==
  \A f \in created \cup {RootFootprint} :
    /\ \A k \in KeysOf(f) : Seen(f, k) => Filled(f, k)
    /\ \A x \in DOMAIN meta[f] : x \in DOMAIN merged[f] /\ meta[f][x] \in diffs

\* An open object holds what has been visited and nothing else: additions come last.
OpenFilled ==
  \A f \in created \cup {RootFootprint} : IsOpen(f) =>
    DOMAIN merged[f] = {Place(PairOf(f), k) : k \in {l \in KeysOf(f) : Seen(f, l)}}

\* What the exit hook adds.
ExitFilled(f) ==
  LET p == PairOf(f)
  IN  /\ Cardinality(DOMAIN merged[f]) =
           Cardinality(DOMAIN doc.at[f.b]) + Cardinality(KeysToAdd(doc, p))
      /\ \A k \in KeysToAdd(doc, p) : \E x \in DOMAIN merged[f] : merged[f][x] = doc.at[f.a][k]
      /\ \A k \in ReportedRemovals(doc, p) :
            k \in DOMAIN meta[f] /\ meta[f][k] = getOrCreateChildDiff(DiffRemoved(doc, p, k))
      /\ \A k \in ReportedAdditions(doc, p) :
            \E x \in DOMAIN meta[f] :
               /\ meta[f][x] = getOrCreateChildDiff(DiffAdded(doc, p, k))
               /\ merged[f][x] = doc.at[f.a][k]

LeftFilled == \A f \in Left : ExitFilled(f)

MergedInv == RootOutermost /\ CacheRight /\ ObjectsFilled /\ OpenFilled /\ LeftFilled

-----------------------------------------------------------------------------
(***************************************************************************)
(* Lemmas about the keys of a merged object.                               *)
(***************************************************************************)

\* A set of numbers that is finite and not empty has the maximum Length asks for.
LEMMA MaxIsGreatest ==
  ASSUME NEW S \in SUBSET Nat, IsFiniteSet(S), S # {}
  PROVE  Max(S) \in S /\ \A y \in S : y <= Max(S)
<1> DEFINE Above(x) == {y \in S : x < y}
           B == {Above(x) : x \in S}
           R == StrictSubsetOrdering(S)
<1>1. IsWellFoundedOn(R, FiniteSubsetsOf(S))
  BY FS_StrictSubsetOrderingWellFounded
<1>2. FiniteSubsetsOf(S) = SUBSET S
  BY FS_FiniteSubsetsOfFinite
<1>3. B \subseteq SUBSET S /\ B # {}
  OBVIOUS
<1>4. PICK T \in B : \A U \in B : ~ (<<U, T>> \in R)
  <2> HIDE DEF B, R
  <2>1. IsWellFoundedOn(R, SUBSET S)
    BY <1>1, <1>2
  <2>2. QED
    BY <1>3, <2>1, WFMin
<1>5. PICK x \in S : T = Above(x)
  OBVIOUS
<1>6. ASSUME NEW y \in S PROVE y <= x
  <2>1. SUFFICES ASSUME x < y PROVE FALSE
    OBVIOUS
  <2>2. Above(y) \subseteq Above(x) /\ y \in Above(x) /\ y \notin Above(y)
    <3>1. x \in Nat /\ y \in Nat /\ \A z \in S : z \in Nat
      OBVIOUS
    <3>2. Above(y) \subseteq Above(x)
      <4>1. ASSUME NEW z \in S, y < z PROVE x < z
        BY <2>1, <3>1, <4>1
      <4>2. QED
        BY <4>1
    <3>3. QED
      BY <2>1, <3>1, <3>2
  <2>3. Above(y) \in B /\ Above(y) \in SUBSET S /\ T \in SUBSET S
    BY <1>3, <1>5
  <2>4. <<Above(y), T>> \in R
    BY <1>5, <2>2, <2>3 DEF StrictSubsetOrdering
  <2>5. QED
    BY <1>4, <2>3, <2>4
<1>7. \E z \in S : \A y \in S : z >= y
  BY <1>6
<1>8. Max(S) \in S /\ \A y \in S : Max(S) >= y
  BY <1>7 DEF Max
<1>9. QED
  BY <1>8

\* What is mapped, removed and added of a pair of containers.
LEMMA PairKeys ==
  ASSUME NEW d, IsDocumentPair(d), NEW p, p.b \in Node, p.a \in Node
  PROVE  /\ IsFiniteSet(DOMAIN d.at[p.b]) /\ IsFiniteSet(KeysToAdd(d, p))
         /\ DOMAIN KeyMap(d, p) \subseteq DOMAIN d.at[p.b]
         /\ \A k \in DOMAIN KeyMap(d, p) : KeyMap(d, p)[k] \in DOMAIN d.at[p.a]
         /\ \A k, l \in DOMAIN KeyMap(d, p) : KeyMap(d, p)[k] = KeyMap(d, p)[l] => k = l
         /\ p.b \notin d.array =>
              DOMAIN d.at[p.b] \cap DOMAIN d.at[p.a] \subseteq DOMAIN KeyMap(d, p)
         /\ p.b \in d.array => DOMAIN d.at[p.b] \subseteq Nat
         /\ p.a \in d.array => KeysToAdd(d, p) \subseteq Nat
<1>1. ResolverContract(d, p.b, p.a)
  BY DEF IsDocumentPair
<1>2. /\ IsFiniteSet(DOMAIN d.at[p.b]) /\ IsFiniteSet(DOMAIN d.at[p.a])
      /\ p.b \in d.array => DOMAIN d.at[p.b] \subseteq Nat
      /\ p.a \in d.array => DOMAIN d.at[p.a] \subseteq Nat
  BY DEF IsDocumentPair
<1>3. KeysToAdd(d, p) \subseteq DOMAIN d.at[p.a]
  BY DEF KeysToAdd, Added
<1>4. IsFiniteSet(KeysToAdd(d, p))
  BY <1>2, <1>3, FS_Subset
<1>5. QED
  BY <1>1, <1>2, <1>3, <1>4 DEF ResolverContract, KeyMap

\* Two keys of the before object never meet in the merged object.
LEMMA PlaceInjective ==
  ASSUME doc \in Input, NEW p, p.b \in Node, p.a \in Node,
         NEW k \in DOMAIN doc.at[p.b], NEW l \in DOMAIN doc.at[p.b], Place(p, k) = Place(p, l)
  PROVE  k = l
BY InputTyping, PairKeys DEF Place, MergeKey

\* The places a base object has filled.
Places(p) == {Place(p, k) : k \in DOMAIN doc.at[p.b]}

\* An added key gets a place of its own, behind or beside the places of the before keys.
LEMMA AddedPlaces ==
  ASSUME doc \in Input, NEW p, p.b \in Node, p.a \in Node, SameContainer(doc, p.b, p.a),
         NEW base, DOMAIN base = Places(p)
  PROVE  /\ \A k \in KeysToAdd(doc, p) : KeyInMerge(p, base, k) \notin Places(p)
         /\ \A k, l \in KeysToAdd(doc, p) :
               KeyInMerge(p, base, k) = KeyInMerge(p, base, l) => k = l
<1> DEFINE Toadd == KeysToAdd(doc, p)
<1>1. IsDocumentPair(doc)
  BY InputTyping
<1>2. CASE p.b \notin doc.array
  <2>1. \A k \in Toadd : KeyInMerge(p, base, k) = k
    BY <1>2 DEF KeyInMerge
  <2>2. ASSUME NEW k \in Toadd, NEW l \in DOMAIN doc.at[p.b], k = Place(p, l) PROVE FALSE
    <3>1. k \in DOMAIN doc.at[p.a] /\ k \notin {KeyMap(doc, p)[j] : j \in DOMAIN KeyMap(doc, p)}
      BY DEF KeysToAdd, Added
    <3>2. CASE l \in DOMAIN KeyMap(doc, p)
      BY <1>2, <2>2, <3>1, <3>2 DEF Place, MergeKey
    <3>3. CASE l \notin DOMAIN KeyMap(doc, p)
      BY <1>1, <1>2, <2>2, <3>1, <3>3, PairKeys DEF Place
    <3>4. QED
      BY <3>2, <3>3
  <2>3. QED
    BY <2>1, <2>2 DEF Places
<1>3. CASE p.b \in doc.array
  <2>1. /\ Toadd \subseteq Nat /\ IsFiniteSet(Toadd)
        /\ DOMAIN doc.at[p.b] \subseteq Nat /\ IsFiniteSet(DOMAIN doc.at[p.b])
    BY <1>1, <1>3, PairKeys DEF SameContainer
  <2>2. Places(p) = DOMAIN doc.at[p.b]
    BY <1>3 DEF Places, Place, MergeKey
  <2>3. Length(base) \in Nat /\ \A x \in Places(p) : x < Length(base)
    <3>1. CASE Places(p) = {}
      BY <3>1 DEF Length
    <3>2. CASE Places(p) # {}
      <4>1. Max(Places(p)) \in Places(p) /\ \A x \in Places(p) : x <= Max(Places(p))
        BY <2>1, <2>2, <3>2, MaxIsGreatest
      <4>2. Places(p) \subseteq Nat
        BY <2>1, <2>2
      <4>3. Length(base) = 1 + Max(Places(p))
        BY <3>2 DEF Length
      <4> HIDE DEF Places
      <4>4. QED
        BY <4>1, <4>2, <4>3
    <3>3. QED
      BY <3>1, <3>2
  <2> DEFINE Below(k) == {x \in Toadd : x < k}
  <2>4. ASSUME NEW k \in Toadd
        PROVE  /\ IsFiniteSet(Below(k)) /\ Cardinality(Below(k)) \in Nat
               /\ KeyInMerge(p, base, k) = Length(base) + Cardinality(Below(k))
    <3>1. IsFiniteSet(Below(k))
      <4>1. Below(k) \in SUBSET Toadd
        OBVIOUS
      <4> HIDE DEF Below, Toadd
      <4>2. QED
        BY <2>1, <4>1, FS_Subset
    <3>2. QED
      BY <1>3, <3>1, FS_CardinalityType DEF KeyInMerge
  <2>5. ASSUME NEW k \in Toadd, NEW l \in Toadd, k < l
        PROVE  Cardinality(Below(k)) # Cardinality(Below(l))
    <3>1. Below(k) \in SUBSET Below(l) /\ k \in Below(l) /\ k \notin Below(k)
      BY <2>1, <2>5
    <3>2. IsFiniteSet(Below(l))
      BY <2>4
    <3> HIDE DEF Below
    <3>3. QED
      BY <3>1, <3>2, FS_Subset
  <2> HIDE DEF Below, Toadd
  <2>6. \A k \in Toadd : KeyInMerge(p, base, k) \notin Places(p)
    <3>1. Places(p) \subseteq Nat
      BY <2>1, <2>2
    <3>2. QED
      BY <2>3, <2>4, <3>1
  <2>7. ASSUME NEW k \in Toadd, NEW l \in Toadd,
               KeyInMerge(p, base, k) = KeyInMerge(p, base, l)
        PROVE  k = l
    <3>1. Cardinality(Below(k)) = Cardinality(Below(l))
      BY <2>3, <2>4, <2>7
    <3>2. k \in Nat /\ l \in Nat
      BY <2>1
    <3>3. ~(k < l) /\ ~(l < k)
      BY <2>5, <3>1
    <3>4. QED
      BY <3>2, <3>3
  <2>8. QED
    BY <2>6, <2>7 DEF Toadd
<1>4. QED
  BY <1>2, <1>3

\* AddedEntries puts what is added under the places the keys get.
LEMMA AddedEntriesAt ==
  ASSUME NEW p, NEW base, NEW entry,
         \A k, l \in DOMAIN entry : KeyInMerge(p, base, k) = KeyInMerge(p, base, l) => k = l,
         NEW e, e = AddedEntries(p, base, entry)
  PROVE  /\ \A x : x \in DOMAIN e <=> \E k \in DOMAIN entry : x = KeyInMerge(p, base, k)
         /\ \A k \in DOMAIN entry : e[KeyInMerge(p, base, k)] = entry[k]
<1> DEFINE place == [k \in DOMAIN entry |-> KeyInMerge(p, base, k)]
<1>1. e = [x \in {place[k] : k \in DOMAIN entry} |->
             entry[CHOOSE k \in DOMAIN entry : place[k] = x]]
  BY DEF AddedEntries
<1>2. \A k \in DOMAIN entry : place[k] = KeyInMerge(p, base, k)
  OBVIOUS
<1> HIDE DEF place
<1>3. \A x : x \in {place[k] : k \in DOMAIN entry}
               <=> \E k \in DOMAIN entry : x = KeyInMerge(p, base, k)
  BY <1>2
<1>4. ASSUME NEW k \in DOMAIN entry
      PROVE  e[KeyInMerge(p, base, k)] = entry[k]
  <2>1. place[k] \in {place[l] : l \in DOMAIN entry}
    OBVIOUS
  <2>2. (CHOOSE l \in DOMAIN entry : place[l] = place[k]) = k
    BY <1>2
  <2>3. QED
    BY <1>1, <1>2, <2>1, <2>2
<1>5. QED
  BY <1>1, <1>3, <1>4

-----------------------------------------------------------------------------
(***************************************************************************)
(* Lemmas about the open nodes.                                            *)
(***************************************************************************)

\* No merged object is filled by two open nodes.
LEMMA OpenOnce ==
  ASSUME CrawlInv, RootOutermost,
         NEW i \in 1 .. Len(stack), NEW j \in 1 .. Len(stack), stack[i].fp = stack[j].fp
  PROVE  i = j
<1>1. Len(stack) \in Nat
  BY DEF CrawlInv, TypeOK
<1>2. CASE i = 1 \/ j = 1
  BY <1>2 DEF RootOutermost
<1>3. CASE i \in 2 .. Len(stack) /\ j \in 2 .. Len(stack)
  BY <1>3 DEF CrawlInv, NoReentry
<1>4. QED
  BY <1>1, <1>2, <1>3

\* The innermost open object t: what is known of it before any step.
LEMMA TopFacts ==
  ASSUME doc \in Input, CrawlInv, MergedInv, stack # <<>>, NEW t, t = Top.fp
  PROVE  /\ t \in created \cup {RootFootprint} /\ t \in Footprint
         /\ t.b \in Node /\ t.a \in Node /\ SameContainer(doc, t.b, t.a)
         /\ PairOf(t) = Here /\ PairOf(t).b = t.b /\ PairOf(t).a = t.a
         /\ Top.todo \subseteq KeysOf(t)
         /\ Len(stack) \in 1 .. Len(stack) /\ stack[Len(stack)].fp = t
         /\ \A i \in 1 .. Len(stack) : stack[i].fp = t => i = Len(stack)
         /\ \A k : Seen(t, k) <=> k \notin Top.todo
<1>1. /\ Len(stack) \in 1 .. Len(stack) /\ stack[Len(stack)].fp = t /\ t \in Footprint
      /\ Here.b \in Node /\ Here.a \in Node /\ Here.b = t.b /\ Here.a = t.a
  BY HereTyping DEF CrawlInv, Typed, Top
<1>2. \A i \in 1 .. Len(stack) : stack[i].fp = t => i = Len(stack)
  BY <1>1, OpenOnce DEF MergedInv
<1>3. t \in created \cup {RootFootprint} /\ Top.todo \subseteq KeysOf(t)
  BY <1>1 DEF CrawlInv, OpenNodes, KeysOf, Top
<1>4. SameContainer(doc, t.b, t.a)
  <2>1. CASE t = RootFootprint
    <3>1. {BeforeRoot, AfterRoot} \cap doc.array = {}
      BY InputTyping DEF IsDocumentPair
    <3>2. QED
      BY <1>1, <2>1, <3>1 DEF SameContainer, RootFootprint
  <2>2. CASE t \in created
    BY <2>2 DEF MergedInv, CacheRight
  <2>3. QED
    BY <1>3, <2>1, <2>2
<1>5. \A k : Seen(t, k) <=> k \notin Top.todo
  BY <1>1, <1>2 DEF Seen, Top
<1>6. PairOf(t) = Here /\ PairOf(t).b = t.b /\ PairOf(t).a = t.a
  BY DEF Here, PairOf
<1>7. QED
  BY <1>1, <1>2, <1>3, <1>4, <1>5, <1>6

-----------------------------------------------------------------------------
(***************************************************************************)
(* What every visit of a key does to the merged object t of the innermost  *)
(* open node: it fills the place of k, and may open a new object.          *)
(***************************************************************************)
Fills(t, k) ==
  /\ stack # <<>> /\ t = Top.fp /\ k \in Top.todo
  /\ doc' = doc /\ created \subseteq created' /\ diffs \subseteq diffs'
  /\ DOMAIN merged'[t] = DOMAIN merged[t] \cup {Place(PairOf(t), k)}
  /\ \A x \in DOMAIN merged[t] : x # Place(PairOf(t), k) => merged'[t][x] = merged[t][x]
  /\ \A x : x # Place(PairOf(t), k) =>
        /\ x \in DOMAIN meta'[t] <=> x \in DOMAIN meta[t]
        /\ x \in DOMAIN meta[t] => meta'[t][x] = meta[t][x]
  /\ Place(PairOf(t), k) \in DOMAIN meta'[t] => meta'[t][Place(PairOf(t), k)] \in diffs'
  /\ \A g \in created \cup {RootFootprint} : g # t =>
        merged'[g] = merged[g] /\ meta'[g] = meta[g]

\* Objects opened by the step are empty, and none of their keys has been visited.
OpensEmpty ==
  \A g \in created' \ (created \cup {RootFootprint}) :
    /\ IsOpen(g)' /\ DOMAIN merged'[g] = {} /\ DOMAIN meta'[g] = {}
    /\ \A k \in KeysOf(g)' : ~Seen(g, k)'

\* How the visit of key k moves the objects that were there.
Visits(t, k) ==
  \A g \in created \cup {RootFootprint} :
    /\ IsOpen(g)' <=> IsOpen(g)
    /\ \A l : Seen(g, l)' <=> (Seen(g, l) \/ (g = t /\ l = k))

\* What was filled stays filled when another place of the object is filled.
LEMMA FilledStays ==
  ASSUME doc' = doc, created \subseteq created', NEW f, NEW k, Filled(f, k),
         Place(PairOf(f), k) \in DOMAIN merged'[f],
         merged'[f][Place(PairOf(f), k)] = merged[f][Place(PairOf(f), k)],
         Place(PairOf(f), k) \in DOMAIN meta[f] =>
           /\ Place(PairOf(f), k) \in DOMAIN meta'[f]
           /\ meta'[f][Place(PairOf(f), k)] = meta[f][Place(PairOf(f), k)]
  PROVE  Filled(f, k)'
<1> DEFINE p == PairOf(f)
<1>1. /\ p' = p /\ Place(p, k)' = Place(p, k)
  BY DEF PairOf, Place
<1>2. k \in DOMAIN KeyMap(doc, p) => Place(p, k) = MergeKey(doc, p, k)
  BY DEF Place
<1>3. k \in DOMAIN KeyMap(doc, p) => LinkedRight(f, k)'
  BY <1>2 DEF Filled, LinkedRight, PairOf
<1>4. k \notin DOMAIN KeyMap(doc, p) => merged'[f][k] = doc.at[f.b][k]
  BY DEF Filled, Place
<1>5. k \in ReplacedKeys(doc, p) =>
        RecordedAt(f, MergeKey(doc, p, k), DiffReplaced(doc, p, k))'
  <2>1. ReplacedKeys(doc, p) \subseteq DOMAIN KeyMap(doc, p)
    BY DEF ReplacedKeys, Compared
  <2>2. QED
    BY <1>2, <2>1 DEF Filled, RecordedAt, PairOf
<1>6. QED
  BY <1>1, <1>3, <1>4, <1>5 DEF Filled, PairOf

\* Filling a place keeps what is said of the merged objects.
LEMMA FillKeeps ==
  ASSUME doc \in Input, CrawlInv, MergedInv, NEW t, NEW k,
         Fills(t, k), OpensEmpty, Visits(t, k), Filled(t, k)', RootOutermost'
  PROVE  ObjectsFilled' /\ OpenFilled' /\ LeftFilled'
<1> DEFINE p == PairOf(t)
           Old == created \cup {RootFootprint}
<1>1. /\ t \in Old /\ p.b = t.b /\ p.b \in Node /\ p.a \in Node
      /\ k \in KeysOf(t) /\ KeysOf(t) = DOMAIN doc.at[p.b] /\ IsOpen(t)
  <2>1. /\ t \in Old /\ t.b \in Node /\ t.a \in Node /\ p.b = t.b /\ p.a = t.a
        /\ Top.todo \subseteq KeysOf(t)
        /\ Len(stack) \in 1 .. Len(stack) /\ stack[Len(stack)].fp = t
    BY TopFacts DEF Fills
  <2>2. QED
    BY <2>1 DEF Fills, KeysOf, IsOpen
<1>2. doc' = doc /\ created \subseteq created' /\ diffs \subseteq diffs'
  BY DEF Fills
<1>3. \A g : KeysOf(g)' = KeysOf(g)
  BY <1>2 DEF KeysOf
<1>4. \A q, l : Place(q, l)' = Place(q, l)
  BY <1>2 DEF Place
<1>5. \A g : g \in (created \cup {RootFootprint})' => g \in Old \/ g \in created' \ Old
  OBVIOUS
<1>6. ASSUME NEW g \in Old, NEW l \in KeysOf(g), Seen(g, l)' PROVE Filled(g, l)'
  <2>1. CASE g = t /\ l = k
    BY <2>1
  <2>2. CASE g = t /\ l # k
    <3>1. Filled(t, l) /\ l \in KeysOf(t)
      BY <1>1, <1>6, <2>2 DEF Visits, MergedInv, ObjectsFilled
    <3>2. Place(p, l) # Place(p, k) /\ Place(p, l) \in DOMAIN merged[t]
      BY <1>1, <2>2, <3>1, PlaceInjective DEF Filled
    <3>3. Filled(t, l)'
      BY <1>2, <3>1, <3>2, FilledStays DEF Fills
    <3>4. QED
      BY <2>2, <3>3
  <2>3. CASE g # t
    <3>1. Filled(g, l) /\ merged'[g] = merged[g] /\ meta'[g] = meta[g]
      BY <1>6, <2>3 DEF Visits, Fills, MergedInv, ObjectsFilled
    <3>2. Place(PairOf(g), l) \in DOMAIN merged[g]
      BY <3>1 DEF Filled
    <3>3. QED
      BY <1>2, <3>1, <3>2, FilledStays
  <2>4. QED
    BY <2>1, <2>2, <2>3
<1>7. ASSUME NEW g \in Old, NEW x \in DOMAIN meta'[g]
      PROVE  x \in DOMAIN merged'[g] /\ meta'[g][x] \in diffs'
  BY <1>2, <1>7 DEF Fills, MergedInv, ObjectsFilled
<1>8. ObjectsFilled'
  <2>1. ASSUME NEW g \in (created \cup {RootFootprint})', NEW l \in KeysOf(g)', Seen(g, l)'
        PROVE  Filled(g, l)'
    BY <1>3, <1>5, <1>6, <2>1 DEF OpensEmpty
  <2>2. ASSUME NEW g \in (created \cup {RootFootprint})', NEW x \in DOMAIN meta'[g]
        PROVE  x \in DOMAIN merged'[g] /\ meta'[g][x] \in diffs'
    BY <1>5, <1>7, <2>2 DEF OpensEmpty
  <2>3. QED
    BY <2>1, <2>2 DEF ObjectsFilled
<1>9. OpenFilled'
  <2>1. ASSUME NEW g \in (created \cup {RootFootprint})', IsOpen(g)'
        PROVE  DOMAIN merged'[g] = {Place(PairOf(g), l) : l \in {m \in KeysOf(g) : Seen(g, m)'}}
    <3>1. CASE g \in Old /\ g # t
      BY <2>1, <3>1 DEF Visits, Fills, MergedInv, OpenFilled
    <3>2. CASE g = t
      <4>1. DOMAIN merged[t] = {Place(p, l) : l \in {m \in KeysOf(t) : Seen(t, m)}}
        BY <1>1 DEF MergedInv, OpenFilled
      <4>2. {m \in KeysOf(t) : Seen(t, m)'} = {m \in KeysOf(t) : Seen(t, m)} \cup {k}
        BY <1>1 DEF Visits
      <4>3. DOMAIN merged'[t] = DOMAIN merged[t] \cup {Place(p, k)}
        BY DEF Fills
      <4>4. QED
        BY <3>2, <4>1, <4>2, <4>3
    <3>3. CASE g \in created' \ Old
      BY <1>3, <3>3 DEF OpensEmpty
    <3>4. QED
      BY <1>5, <3>1, <3>2, <3>3
  <2>2. QED
    BY <1>3, <1>4, <2>1 DEF OpenFilled, PairOf
<1>10. LeftFilled'
  <2>1. ASSUME NEW g \in Left' PROVE ExitFilled(g)'
    <3>1. g \in created /\ ~IsOpen(g) /\ g # t
      <4>1. g \in created' /\ ~IsOpen(g)' /\ g # RootFootprint
        BY <2>1 DEF Left, RootOutermost
      <4>2. g \in created
        BY <1>5, <4>1 DEF OpensEmpty
      <4>3. QED
        BY <1>1, <4>1, <4>2 DEF Visits
    <3>2. ExitFilled(g) /\ merged'[g] = merged[g] /\ meta'[g] = meta[g]
      BY <3>1 DEF Fills, MergedInv, LeftFilled, Left
    <3>3. QED
      BY <1>2, <3>2 DEF ExitFilled, PairOf, getOrCreateChildDiff
  <2>2. QED
    BY <2>1 DEF LeftFilled
<1>11. QED
  BY <1>8, <1>9, <1>10


(***************************************************************************)
(* The visits.  Those that open nothing take a key off the innermost node. *)
(***************************************************************************)

\* Taking a key off visits it, and moves no other object.
LEMMA ConsumeVisits ==
  ASSUME doc \in Input, CrawlInv, MergedInv, NEW t, NEW k, stack # <<>>, t = Top.fp,
         stack' = Consume(k), created' = created
  PROVE  Visits(t, k) /\ OpensEmpty /\ RootOutermost'
<1>1. /\ Len(stack) \in Nat /\ Len(stack) \in 1 .. Len(stack)
      /\ stack[Len(stack)].fp = t /\ \A i \in 1 .. Len(stack) : stack[i].fp = t => i = Len(stack)
  BY TopFacts DEF CrawlInv, TypeOK
<1>2. Len(stack') = Len(stack) /\ \A i \in 1 .. Len(stack) : stack'[i].fp = stack[i].fp
  BY ConsumeKeeps DEF CrawlInv
<1>3. \A i \in 1 .. Len(stack) :
         stack'[i].todo = IF i = Len(stack) THEN stack[i].todo \ {k} ELSE stack[i].todo
  <2>1. stack \in Seq(Frame) /\ \A i \in 1 .. Len(stack) : stack[i] \in Frame
    BY DEF CrawlInv, TypeOK
  <2>2. stack' = [stack EXCEPT ![Len(stack)] = [stack[Len(stack)] EXCEPT !.todo = @ \ {k}]]
    BY DEF Consume
  <2>3. ASSUME NEW i \in 1 .. Len(stack)
        PROVE  stack'[i].todo = IF i = Len(stack) THEN stack[i].todo \ {k} ELSE stack[i].todo
    <3>1. CASE i = Len(stack)
      BY <1>1, <2>1, <2>2, <3>1 DEF Frame
    <3>2. CASE i # Len(stack)
      BY <1>1, <2>1, <2>2, <3>2
    <3>3. QED
      BY <3>1, <3>2
  <2>4. QED
    BY <2>3
<1>4. \A g : IsOpen(g)' <=> IsOpen(g)
  BY <1>2 DEF IsOpen
<1>5. ASSUME NEW g, NEW l PROVE Seen(g, l)' <=> (Seen(g, l) \/ (g = t /\ l = k))
  <2>1. Seen(g, l)' <=> \A i \in 1 .. Len(stack) : stack[i].fp = g => l \notin stack'[i].todo
    BY <1>2 DEF Seen
  <2>2. CASE g = t
    BY <1>1, <1>3, <2>1, <2>2 DEF Seen
  <2>3. CASE g # t
    BY <1>1, <1>3, <2>1, <2>3 DEF Seen
  <2>4. QED
    BY <2>2, <2>3
<1>6. RootOutermost'
  BY <1>2 DEF MergedInv, RootOutermost
<1>7. QED
  BY <1>4, <1>5, <1>6 DEF Visits, OpensEmpty

\* Putting a value into the innermost object leaves its other places and the others alone.
LEMMA SetChildAt ==
  ASSUME NEW t \in DOMAIN merged, t = Top.fp, NEW k, NEW v, SetChild(k, v)
  PROVE  /\ DOMAIN merged'[t] = DOMAIN merged[t] \cup {k} /\ merged'[t][k] = v
         /\ \A x \in DOMAIN merged[t] : x # k => merged'[t][x] = merged[t][x]
         /\ \A g \in DOMAIN merged : g # t => merged'[g] = merged[g]
<1>1. merged'[t] = Put(merged[t], k, v) /\ \A g \in DOMAIN merged : g # t => merged'[g] = merged[g]
  BY DEF SetChild
<1>2. /\ DOMAIN merged'[t] = DOMAIN merged[t] \cup {k} /\ merged'[t][k] = v
      /\ \A x \in DOMAIN merged[t] : x # k => merged'[t][x] = merged[t][x]
  BY <1>1 DEF Put
<1>3. QED
  BY <1>1, <1>2

\* What is recorded under a key: one of the entries, if there are any.
LEMMA RecordAt ==
  ASSUME NEW f, NEW k, NEW E
  PROVE  /\ \A x : x # k =>
              /\ x \in DOMAIN addDiffObjectToContainer(f, k, E) <=> x \in DOMAIN f
              /\ x \in DOMAIN f => addDiffObjectToContainer(f, k, E)[x] = f[x]
         /\ IF E = {} THEN addDiffObjectToContainer(f, k, E) = f
            ELSE /\ k \in DOMAIN addDiffObjectToContainer(f, k, E)
                 /\ addDiffObjectToContainer(f, k, E)[k] \in E
<1>1. CASE E = {}
  BY <1>1 DEF addDiffObjectToContainer
<1>2. CASE E # {}
  <2>1. PICK e \in E : addDiffObjectToContainer(f, k, E) = Put(f, k, e)
    BY <1>2 DEF addDiffObjectToContainer
  <2> DEFINE r == addDiffObjectToContainer(f, k, E)
  <2>2. /\ DOMAIN r = DOMAIN f \cup {k} /\ r[k] = e
        /\ \A x \in DOMAIN f : x # k => r[x] = f[x]
    BY <2>1 DEF Put
  <2> HIDE DEF r
  <2>3. /\ \A x : x # k => (x \in DOMAIN r <=> x \in DOMAIN f) /\ (x \in DOMAIN f => r[x] = f[x])
        /\ k \in DOMAIN r /\ r[k] \in E
    BY <2>2
  <2>4. QED
    BY <1>2, <2>3 DEF r
<1>3. QED
  BY <1>1, <1>2

\* A removed key keeps its value, an ignored one adopts the value of after.
LEMMA KeepStep ==
  ASSUME doc \in Input, CrawlInv, MergedInv, NEW k, KeepRemoved(k) \/ AdoptIgnored(k)
  PROVE  MergedInv'
<1> DEFINE x == Place(Here, k)
<1>1. PICK t : t = Top.fp
  OBVIOUS
<1>2. /\ stack # <<>> /\ k \in Top.todo /\ stack' = Consume(k)
      /\ UNCHANGED <<doc, cache, created, meta, diffs>>
  BY DEF KeepRemoved, AdoptIgnored, CanVisit
<1>3. /\ t \in created \cup {RootFootprint} /\ Here = PairOf(t) /\ Here.a = t.a /\ Here.b = t.b
      /\ k \in KeysOf(t) /\ ~Seen(t, k) /\ t \in DOMAIN merged
  BY <1>1, <1>2, TopFacts DEF CrawlInv, TypeOK
<1>4. PICK v : /\ SetChild(x, v)
               /\ IF k \in DOMAIN KeyMap(doc, Here)
                  THEN Rule[k].ignoreDifference /\ v = doc.at[Here.a][KeyMap(doc, Here)[k]]
                  ELSE v = doc.at[Here.b][k]
  BY DEF KeepRemoved, AdoptIgnored, Place
<1>5. /\ DOMAIN merged'[t] = DOMAIN merged[t] \cup {x} /\ merged'[t][x] = v
      /\ \A y \in DOMAIN merged[t] : y # x => merged'[t][y] = merged[t][y]
      /\ \A g \in created \cup {RootFootprint} : g # t => merged'[g] = merged[g]
  <2> HIDE DEF x
  <2>1. DOMAIN merged = created \cup {RootFootprint}
    BY DEF CrawlInv, TypeOK
  <2>2. QED
    BY <1>1, <1>3, <1>4, <2>1, SetChildAt
<1>6. Fills(t, k)
  <2>1. x \in DOMAIN meta[t] => meta[t][x] \in diffs
    BY <1>3 DEF MergedInv, ObjectsFilled
  <2>2. QED
    BY <1>1, <1>2, <1>3, <1>5, <2>1 DEF Fills
<1>7. Filled(t, k)'
  <2>1. k \notin Compared(doc, Here)
    BY <1>4 DEF Compared
  <2>2. /\ x \in DOMAIN merged'[t]
        /\ IF k \in DOMAIN KeyMap(doc, Here)
           THEN merged'[t][x] = doc.at[Here.a][KeyMap(doc, Here)[k]] /\ x = MergeKey(doc, Here, k)
           ELSE merged'[t][x] = doc.at[t.b][k] /\ x = k
    BY <1>3, <1>4, <1>5 DEF Place
  <2>3. k \in DOMAIN KeyMap(doc, Here) => LinkedRight(t, k)'
    BY <1>2, <1>3, <2>1, <2>2 DEF LinkedRight, ChildPair, PairOf
  <2>4. k \notin ReplacedKeys(doc, Here)
    BY <2>1 DEF ReplacedKeys
  <2>5. QED
    BY <1>2, <1>3, <2>2, <2>3, <2>4 DEF Filled, PairOf, Place
<1>8. Visits(t, k) /\ OpensEmpty /\ RootOutermost'
  BY <1>1, <1>2, ConsumeVisits
<1>9. ObjectsFilled' /\ OpenFilled' /\ LeftFilled'
  BY <1>6, <1>7, <1>8, FillKeeps
<1>10. CacheRight'
  BY <1>2 DEF MergedInv, CacheRight, PullRight
<1>11. QED
  BY <1>8, <1>9, <1>10 DEF MergedInv

\* The child a compared key leads to, as the footprint it is looked up by.
LEMMA ChildFacts ==
  ASSUME doc \in Input, CrawlInv, stack # <<>>, NEW k \in Compared(doc, Here),
         NEW f, f = ChildFootprint(k)
  PROVE  /\ f \in Footprint /\ PairOf(f) = ChildPair(doc, Here, k)
         /\ f.b = ChildPair(doc, Here, k).b /\ f.a = ChildPair(doc, Here, k).a
         /\ f.scope = ChildPair(doc, Here, k).scope /\ f.custom = ChildPair(doc, Here, k).custom
         /\ k \in DOMAIN KeyMap(doc, Here) /\ Place(Here, k) = MergeKey(doc, Here, k)
<1>1. /\ f \in Footprint /\ PairOf(f) = ChildPair(doc, Here, k)
      /\ k \in DOMAIN KeyMap(doc, Here)
  BY FootprintTyping DEF CrawlInv, Typed
<1>2. /\ PairOf(f).b = f.b /\ PairOf(f).a = f.a
      /\ PairOf(f).scope = f.scope /\ PairOf(f).custom = f.custom
  BY DEF PairOf
<1>3. QED
  BY <1>1, <1>2 DEF Place

(***************************************************************************)
(* What linking a child asks for: the merged object of the child pair or   *)
(* the after value, and the replace diff of a leaf.                        *)
(***************************************************************************)
LEMMA LinkFills ==
  ASSUME doc' = doc, NEW t, NEW p, p = PairOf(t), NEW k \in Compared(doc, p),
         NEW c, c = ChildPair(doc, p, k), NEW x, x = MergeKey(doc, p, k),
         x \in DOMAIN merged'[t],
         IF SameContainer(doc, c.b, c.a)
         THEN merged'[t][x] \in created' /\ PairOf(merged'[t][x]) = c
         ELSE /\ merged'[t][x] = c.a
              /\ c.b # c.a =>
                   /\ x \in DOMAIN meta'[t] /\ meta'[t][x].of.action = "replace"
                   /\ meta'[t][x].of.subject = <<c.b, c.a>>
                   /\ meta'[t][x].of.scope = c.scope /\ meta'[t][x].of.custom = c.custom
  PROVE  Filled(t, k)'
<1>1. k \in DOMAIN KeyMap(doc, p) /\ Place(p, k) = x
  BY DEF Compared, Place
<1>2. LinkedRight(t, k)'
  BY DEF LinkedRight, PairOf
<1>3. k \in ReplacedKeys(doc, p) => RecordedAt(t, x, DiffReplaced(doc, p, k))'
  <2>1. /\ DiffReplaced(doc, p, k).action = "replace"
        /\ DiffReplaced(doc, p, k).subject = <<c.b, c.a>>
        /\ DiffReplaced(doc, p, k).scope = c.scope /\ DiffReplaced(doc, p, k).custom = c.custom
    BY DEF DiffReplaced
  <2>2. k \in ReplacedKeys(doc, p) => c.b # c.a /\ ~SameContainer(doc, c.b, c.a)
    BY DEF ReplacedKeys
  <2>3. QED
    BY <2>1, <2>2 DEF RecordedAt
<1>4. QED
  BY <1>1, <1>2, <1>3 DEF Filled, PairOf, Place

\* Linking a cached result: the cache has the value and the diff that belong here.
LEMMA ReuseFills ==
  ASSUME doc \in Input, CrawlInv, MergedInv, NEW k, Reuse(k)
  PROVE  MergedInv'
<1>1. PICK t : t = Top.fp
  OBVIOUS
<1>2. PICK f : f = ChildFootprint(k)
  OBVIOUS
<1> DEFINE c == ChildPair(doc, Here, k)
           x == MergeKey(doc, Here, k)
<1>3. /\ stack # <<>> /\ k \in Top.todo /\ k \in Compared(doc, Here) /\ f \in DOMAIN cache
      /\ SetChild(x, cache[f].value)
      /\ meta' = [meta EXCEPT ![t] = addDiffObjectToContainer(@, x, cache[f].pull)]
      /\ stack' = Consume(k) /\ UNCHANGED <<doc, cache, created, diffs>>
  BY <1>1, <1>2 DEF Reuse, CanVisit, IsMiss
<1>4. /\ t \in created \cup {RootFootprint} /\ Here = PairOf(t)
      /\ t \in DOMAIN merged /\ t \in DOMAIN meta
      /\ DOMAIN merged = created \cup {RootFootprint}
      /\ DOMAIN meta = created \cup {RootFootprint}
  BY <1>1, <1>3, TopFacts DEF CrawlInv, TypeOK
<1>5. /\ PairOf(f) = c /\ f.b = c.b /\ f.a = c.a /\ f.scope = c.scope /\ f.custom = c.custom
      /\ Place(Here, k) = x
  BY <1>2, <1>3, ChildFacts
<1>6. IF SameContainer(doc, f.b, f.a)
      THEN f \in created /\ cache[f] = [value |-> f, pull |-> {}]
      ELSE cache[f].value = f.a /\ PullRight(f)
  BY <1>3 DEF MergedInv, CacheRight
<1> HIDE DEF c, x
<1>7. /\ DOMAIN merged'[t] = DOMAIN merged[t] \cup {x} /\ merged'[t][x] = cache[f].value
      /\ \A y \in DOMAIN merged[t] : y # x => merged'[t][y] = merged[t][y]
      /\ \A g \in created \cup {RootFootprint} : g # t => merged'[g] = merged[g]
  BY <1>1, <1>3, <1>4, SetChildAt
<1>8. /\ meta'[t] = addDiffObjectToContainer(meta[t], x, cache[f].pull)
      /\ \A g \in created \cup {RootFootprint} : g # t => meta'[g] = meta[g]
  BY <1>3, <1>4
<1>9. /\ \A y : y # x => /\ y \in DOMAIN meta'[t] <=> y \in DOMAIN meta[t]
                         /\ y \in DOMAIN meta[t] => meta'[t][y] = meta[t][y]
      /\ IF cache[f].pull = {} THEN meta'[t] = meta[t]
         ELSE x \in DOMAIN meta'[t] /\ meta'[t][x] \in cache[f].pull
  BY <1>8, RecordAt
<1>10. cache[f].pull \subseteq diffs
  BY <1>6 DEF PullRight
<1>11. x \in DOMAIN meta'[t] => meta'[t][x] \in diffs'
  <2>1. x \in DOMAIN meta[t] => meta[t][x] \in diffs
    BY <1>4 DEF MergedInv, ObjectsFilled
  <2>2. QED
    BY <1>3, <1>9, <1>10, <2>1
<1>12. Fills(t, k)
  BY <1>1, <1>3, <1>4, <1>5, <1>7, <1>8, <1>9, <1>11 DEF Fills
<1>13. Filled(t, k)'
  <2>1. CASE SameContainer(doc, c.b, c.a)
    BY <1>3, <1>4, <1>5, <1>6, <1>7, <2>1, LinkFills DEF c, x
  <2>2. CASE ~SameContainer(doc, c.b, c.a)
    <3>1. merged'[t][x] = c.a
      BY <1>5, <1>6, <1>7, <2>2
    <3>2. c.b # c.a => /\ x \in DOMAIN meta'[t] /\ meta'[t][x].of.action = "replace"
                       /\ meta'[t][x].of.subject = <<c.b, c.a>>
                       /\ meta'[t][x].of.scope = c.scope /\ meta'[t][x].of.custom = c.custom
      BY <1>5, <1>6, <1>9, <2>2 DEF PullRight
    <3>3. QED
      BY <1>3, <1>4, <1>7, <2>2, <3>1, <3>2, LinkFills DEF c, x
  <2>3. QED
    BY <2>1, <2>2
<1>14. Visits(t, k) /\ OpensEmpty /\ RootOutermost'
  BY <1>1, <1>3, ConsumeVisits
<1>15. ObjectsFilled' /\ OpenFilled' /\ LeftFilled'
  BY <1>12, <1>13, <1>14, FillKeeps
<1>16. CacheRight'
  BY <1>3 DEF MergedInv, CacheRight, PullRight
<1>17. QED
  BY <1>14, <1>15, <1>16 DEF MergedInv

\* A new cache entry that is right, beside entries that were: the cache is right.
LEMMA CacheGrows ==
  ASSUME CacheRight, doc' = doc, diffs \subseteq diffs', NEW f, f \notin DOMAIN cache, NEW entry,
         cache' = Put(cache, f, entry),
         IF SameContainer(doc, f.b, f.a)
         THEN created' = created \cup {f} /\ entry = [value |-> f, pull |-> {}]
         ELSE created' = created /\ entry.value = f.a /\ PullRight(f)'
  PROVE  CacheRight'
<1>1. /\ DOMAIN cache' = DOMAIN cache \cup {f} /\ cache'[f] = entry
      /\ \A g \in DOMAIN cache : cache'[g] = cache[g]
  BY DEF Put
<1>2. \A g \in DOMAIN cache : PullRight(g) => PullRight(g)'
  BY <1>1 DEF PullRight
<1>3. \A g \in created' : g \in DOMAIN cache' /\ SameContainer(doc', g.b, g.a)
  BY <1>1 DEF CacheRight
<1>4. ASSUME NEW g \in DOMAIN cache'
      PROVE  IF SameContainer(doc', g.b, g.a)
             THEN g \in created' /\ cache'[g] = [value |-> g, pull |-> {}]
             ELSE cache'[g].value = g.a /\ PullRight(g)'
  <2>1. CASE g = f
    BY <1>1, <2>1
  <2>2. CASE g \in DOMAIN cache /\ g # f
    BY <1>1, <1>2, <2>2 DEF CacheRight
  <2>3. QED
    BY <1>1, <2>1, <2>2
<1>5. QED
  BY <1>3, <1>4 DEF CacheRight

\* Comparing two leaves: the after value is linked, and a replacement is recorded and cached.
LEMMA LeafFills ==
  ASSUME doc \in Input, CrawlInv, MergedInv, NEW k, CompareLeaf(k)
  PROVE  MergedInv'
<1>1. PICK t : t = Top.fp
  OBVIOUS
<1>2. PICK f : f = ChildFootprint(k)
  OBVIOUS
<1> DEFINE c == ChildPair(doc, Here, k)
           x == MergeKey(doc, Here, k)
           e == [of |-> DiffReplaced(doc, Here, k), by |-> f]
           renames == Renames(k, f)
           replaced == IF f.b # f.a THEN {e} ELSE {}
           renamed == addDiffObjectToContainer(meta[t], x, renames)
<1>3. /\ stack # <<>> /\ k \in Top.todo /\ k \in Compared(doc, Here) /\ f \notin DOMAIN cache
      /\ ~SameContainer(doc, f.b, f.a)
      /\ cache' = Put(cache, f, [value |-> f.a, pull |-> replaced])
      /\ SetChild(x, f.a)
      /\ meta' = [meta EXCEPT ![t] = addDiffObjectToContainer(
                                       addDiffObjectToContainer(@, x, renames), x, replaced)]
      /\ diffs' = diffs \cup renames \cup replaced
      /\ stack' = Consume(k) /\ UNCHANGED <<doc, created>>
  BY <1>1, <1>2 DEF CompareLeaf, CanVisit, IsMiss
<1>4. /\ t \in created \cup {RootFootprint} /\ Here = PairOf(t)
      /\ t \in DOMAIN merged /\ t \in DOMAIN meta
      /\ DOMAIN merged = created \cup {RootFootprint}
      /\ DOMAIN meta = created \cup {RootFootprint}
  BY <1>1, <1>3, TopFacts DEF CrawlInv, TypeOK
<1>5. /\ PairOf(f) = c /\ f.b = c.b /\ f.a = c.a /\ f.scope = c.scope /\ f.custom = c.custom
      /\ Place(Here, k) = x
  BY <1>2, <1>3, ChildFacts
<1>6. /\ e.of.action = "replace" /\ e.of.subject = <<c.b, c.a>>
      /\ e.of.scope = c.scope /\ e.of.custom = c.custom
  BY DEF DiffReplaced
<1>7. /\ meta'[t] = addDiffObjectToContainer(renamed, x, replaced)
      /\ \A g \in created \cup {RootFootprint} : g # t => meta'[g] = meta[g]
  BY <1>3, <1>4
<1>8. f.b # f.a => replaced = {e}
  OBVIOUS
<1>9. f.b = f.a => replaced = {}
  OBVIOUS
<1>10. replaced = {} \/ replaced = {e}
  OBVIOUS
<1> HIDE DEF c, x, e, renames, replaced, renamed
<1>11. /\ DOMAIN merged'[t] = DOMAIN merged[t] \cup {x} /\ merged'[t][x] = f.a
       /\ \A y \in DOMAIN merged[t] : y # x => merged'[t][y] = merged[t][y]
       /\ \A g \in created \cup {RootFootprint} : g # t => merged'[g] = merged[g]
  BY <1>1, <1>3, <1>4, SetChildAt
<1>12. /\ \A y : y # x => /\ y \in DOMAIN renamed <=> y \in DOMAIN meta[t]
                          /\ y \in DOMAIN meta[t] => renamed[y] = meta[t][y]
       /\ IF renames = {} THEN renamed = meta[t]
          ELSE x \in DOMAIN renamed /\ renamed[x] \in renames
  BY RecordAt DEF renamed
<1>13. /\ \A y : y # x => /\ y \in DOMAIN meta'[t] <=> y \in DOMAIN renamed
                          /\ y \in DOMAIN renamed => meta'[t][y] = renamed[y]
       /\ IF replaced = {} THEN meta'[t] = renamed
          ELSE x \in DOMAIN meta'[t] /\ meta'[t][x] \in replaced
  BY <1>7, RecordAt
<1>14. x \in DOMAIN meta'[t] => meta'[t][x] \in diffs'
  <2>1. x \in DOMAIN meta[t] => meta[t][x] \in diffs
    BY <1>4 DEF MergedInv, ObjectsFilled
  <2>2. x \in DOMAIN renamed => renamed[x] \in diffs'
    BY <1>3, <1>12, <2>1
  <2>3. QED
    BY <1>3, <1>13, <2>2
<1>15. \A y : y # x => /\ y \in DOMAIN meta'[t] <=> y \in DOMAIN meta[t]
                       /\ y \in DOMAIN meta[t] => meta'[t][y] = meta[t][y]
  BY <1>12, <1>13
<1>16. Fills(t, k)
  BY <1>1, <1>3, <1>4, <1>5, <1>7, <1>11, <1>14, <1>15 DEF Fills
<1>17. Filled(t, k)'
  <2>1. c.b # c.a => /\ x \in DOMAIN meta'[t] /\ meta'[t][x].of.action = "replace"
                     /\ meta'[t][x].of.subject = <<c.b, c.a>>
                     /\ meta'[t][x].of.scope = c.scope /\ meta'[t][x].of.custom = c.custom
    BY <1>5, <1>6, <1>8, <1>13
  <2>2. ~SameContainer(doc, c.b, c.a) /\ merged'[t][x] = c.a /\ x \in DOMAIN merged'[t]
    BY <1>3, <1>5, <1>11
  <2>3. QED
    BY <1>3, <1>4, <2>1, <2>2, LinkFills DEF c, x
<1>18. Visits(t, k) /\ OpensEmpty /\ RootOutermost'
  BY <1>1, <1>3, ConsumeVisits
<1>19. ObjectsFilled' /\ OpenFilled' /\ LeftFilled'
  BY <1>16, <1>17, <1>18, FillKeeps
<1>20. CacheRight'
  <2>1. cache'[f].pull = replaced
    BY <1>3 DEF Put
  <2>2. PullRight(f)'
    <3>1. CASE f.b = f.a
      BY <1>9, <2>1, <3>1 DEF PullRight
    <3>2. CASE f.b # f.a
      <4>1. cache'[f].pull = {e} /\ e \in diffs'
        BY <1>3, <1>8, <2>1, <3>2
      <4>2. QED
        BY <1>5, <1>6, <3>2, <4>1 DEF PullRight
    <3>3. QED
      BY <3>1, <3>2
  <2>3. CacheRight /\ diffs \subseteq diffs' /\ doc' = doc /\ created' = created
    BY <1>3 DEF MergedInv
  <2>4. QED
    BY <1>3, <2>2, <2>3, CacheGrows
<1>21. QED
  BY <1>18, <1>19, <1>20 DEF MergedInv

\* Opening a pair visits its key, and opens an object none of whose keys has been visited.
LEMMA DescendVisits ==
  ASSUME doc \in Input, CrawlInv, MergedInv, NEW k, Descend(k),
         NEW t, t = Top.fp, NEW f, f = ChildFootprint(k)
  PROVE  /\ f \notin created \cup {RootFootprint} /\ f # t
         /\ Visits(t, k) /\ RootOutermost'
         /\ IsOpen(f)' /\ \A l \in KeysOf(f) : ~Seen(f, l)'
<1> DEFINE n == Len(stack)
           fr == [fp |-> f, db |-> doc.decl[Here.b][k],
                  da |-> doc.decl[Here.a][KeyMap(doc, Here)[k]],
                  todo |-> DOMAIN doc.at[f.b]]
<1>1. /\ stack # <<>> /\ k \in Compared(doc, Here) /\ f \notin DOMAIN cache
      /\ created' = created \cup {f} /\ stack' = Append(Consume(k), fr) /\ doc' = doc
  BY DEF Descend, CanVisit, IsMiss
<1>2. fr.fp = f /\ fr.todo = KeysOf(f)
  BY DEF KeysOf
<1>3. /\ n \in Nat /\ n \in 1 .. n /\ t \in created \cup {RootFootprint} /\ stack[n].fp = t
      /\ \A i \in 1 .. n : stack[i].fp = t => i = n
      /\ \A i \in 1 .. n : stack[i].fp \in created \cup {RootFootprint}
  BY <1>1, TopFacts DEF CrawlInv, TypeOK, OpenNodes
<1>4. f \notin created \cup {RootFootprint}
  <2>1. f \notin created
    BY <1>1 DEF MergedInv, CacheRight
  <2>2. f.b = doc.at[Here.b][k] /\ k \in DOMAIN KeyMap(doc, Here)
    BY <1>1 DEF ChildFootprint, ChildPair, Compared
  <2>3. Here.b \in Node /\ Here.a \in Node
    BY <1>1, HereTyping DEF CrawlInv, Typed
  <2>4. IsDocumentPair(doc)
    BY InputTyping
  <2>5. DOMAIN KeyMap(doc, Here) \subseteq DOMAIN doc.at[Here.b]
    BY <2>3, <2>4, PairKeys
  <2>6. doc.at[Here.b][k] # BeforeRoot
    BY <2>2, <2>3, <2>4, <2>5 DEF IsDocumentPair
  <2>7. QED
    BY <2>1, <2>2, <2>6 DEF RootFootprint
<1> HIDE DEF fr
<1>5. /\ Consume(k) \in Seq(Frame) /\ Len(Consume(k)) = n
      /\ \A i \in 1 .. n : Consume(k)[i].fp = stack[i].fp
  BY <1>1, ConsumeKeeps DEF CrawlInv
<1>6. \A i \in 1 .. n :
         Consume(k)[i].todo = IF i = n THEN stack[i].todo \ {k} ELSE stack[i].todo
  <2>1. stack \in Seq(Frame) /\ \A i \in 1 .. Len(stack) : stack[i] \in Frame
    BY DEF CrawlInv, TypeOK
  <2>2. Consume(k) = [stack EXCEPT ![Len(stack)] = [stack[Len(stack)] EXCEPT !.todo = @ \ {k}]]
    BY DEF Consume
  <2>3. ASSUME NEW i \in 1 .. Len(stack)
        PROVE  Consume(k)[i].todo = IF i = Len(stack) THEN stack[i].todo \ {k} ELSE stack[i].todo
    <3>1. CASE i = Len(stack)
      BY <1>3, <2>1, <2>2, <3>1 DEF Frame
    <3>2. CASE i # Len(stack)
      BY <1>3, <2>1, <2>2, <3>2
    <3>3. QED
      BY <3>1, <3>2
  <2>4. QED
    BY <2>3
<1>7. /\ Len(stack') = n + 1 /\ stack'[n + 1] = fr
      /\ \A i \in 1 .. n : stack'[i] = Consume(k)[i]
  BY <1>1, <1>3, <1>5
<1>8. /\ \A i \in 1 .. Len(stack') : i \in 1 .. n \/ i = n + 1
      /\ \A i \in 1 .. n : i \in 1 .. Len(stack')
      /\ n + 1 \in 1 .. Len(stack') /\ 1 \in 1 .. n /\ n + 1 # 1
  BY <1>3, <1>7
<1> HIDE DEF n
<1>9. \A i \in 1 .. n : /\ stack'[i].fp = stack[i].fp
                        /\ stack'[i].todo = IF i = n THEN stack[i].todo \ {k} ELSE stack[i].todo
  BY <1>5, <1>6, <1>7
<1>10. stack'[n + 1].fp = f /\ stack'[n + 1].todo = KeysOf(f)
  BY <1>2, <1>7
<1>11. IsOpen(f)' /\ \A l \in KeysOf(f) : ~Seen(f, l)'
  BY <1>8, <1>10 DEF IsOpen, Seen
<1>12. ASSUME NEW g \in created \cup {RootFootprint}
       PROVE  /\ IsOpen(g)' <=> IsOpen(g)
              /\ \A l : Seen(g, l)' <=> (Seen(g, l) \/ (g = t /\ l = k))
  <2>1. g # f
    BY <1>4
  <2>2. IsOpen(g)' <=> IsOpen(g)
    BY <1>8, <1>9, <1>10, <2>1 DEF IsOpen, n
  <2>3. ASSUME NEW l
        PROVE  Seen(g, l)' <=> \A i \in 1 .. n : stack[i].fp = g => l \notin stack'[i].todo
    BY <1>8, <1>9, <1>10, <2>1 DEF Seen
  <2>4. ASSUME NEW l PROVE Seen(g, l)' <=> (Seen(g, l) \/ (g = t /\ l = k))
    <3>1. Seen(g, l) <=> \A i \in 1 .. n : stack[i].fp = g => l \notin stack[i].todo
      BY DEF Seen, n
    <3>2. CASE g = t
      BY <1>3, <1>9, <2>3, <3>1, <3>2 DEF n
    <3>3. CASE g # t
      BY <1>3, <1>9, <2>3, <3>1, <3>3 DEF n
    <3>4. QED
      BY <3>2, <3>3
  <2>5. QED
    BY <2>2, <2>4
<1>13. RootOutermost'
  <2>1. \A i \in 1 .. n : stack[i].fp = RootFootprint <=> i = 1
    BY DEF MergedInv, RootOutermost, n
  <2>2. f # RootFootprint /\ RootFootprint \notin created
    BY <1>4 DEF MergedInv, RootOutermost
  <2>3. QED
    BY <1>1, <1>8, <1>9, <1>10, <2>1, <2>2 DEF RootOutermost
<1>14. QED
  BY <1>3, <1>4, <1>11, <1>12, <1>13 DEF Visits

\* Opening a pair: its object is linked and starts out empty.
LEMMA DescendFills ==
  ASSUME doc \in Input, CrawlInv, MergedInv, NEW k, Descend(k)
  PROVE  MergedInv'
<1>1. PICK t : t = Top.fp
  OBVIOUS
<1>2. PICK f : f = ChildFootprint(k)
  OBVIOUS
<1> DEFINE c == ChildPair(doc, Here, k)
           x == MergeKey(doc, Here, k)
           renames == Renames(k, f)
           entry == [value |-> f, pull |-> {}]
<1>3. /\ stack # <<>> /\ k \in Top.todo /\ k \in Compared(doc, Here) /\ f \notin DOMAIN cache
      /\ SameContainer(doc, f.b, f.a)
      /\ cache' = Put(cache, f, entry) /\ created' = created \cup {f}
      /\ merged' = Put([merged EXCEPT ![t] = Put(@, x, f)], f, Empty)
      /\ meta' = Put([meta EXCEPT ![t] = addDiffObjectToContainer(@, x, renames)], f, Empty)
      /\ diffs' = diffs \cup renames /\ doc' = doc
  BY <1>1, <1>2 DEF Descend, CanVisit, IsMiss
<1>4. /\ t \in created \cup {RootFootprint} /\ Here = PairOf(t)
      /\ DOMAIN merged = created \cup {RootFootprint}
      /\ DOMAIN meta = created \cup {RootFootprint}
  BY <1>1, <1>3, TopFacts DEF CrawlInv, TypeOK
<1>5. /\ PairOf(f) = c /\ f.b = c.b /\ f.a = c.a /\ Place(Here, k) = x
  BY <1>2, <1>3, ChildFacts
<1>6. /\ f \notin created \cup {RootFootprint} /\ f # t
      /\ Visits(t, k) /\ RootOutermost'
      /\ IsOpen(f)' /\ \A l \in KeysOf(f) : ~Seen(f, l)'
  BY <1>1, <1>2, DescendVisits
<1> HIDE DEF c, x, renames
<1>7. /\ merged'[t] = Put(merged[t], x, f) /\ merged'[f] = Empty
      /\ \A g \in created \cup {RootFootprint} : g # t => merged'[g] = merged[g]
  BY <1>3, <1>4, <1>6 DEF Put
<1>8. /\ meta'[t] = addDiffObjectToContainer(meta[t], x, renames) /\ meta'[f] = Empty
      /\ \A g \in created \cup {RootFootprint} : g # t => meta'[g] = meta[g]
  BY <1>3, <1>4, <1>6 DEF Put
<1>9. /\ DOMAIN merged'[t] = DOMAIN merged[t] \cup {x} /\ merged'[t][x] = f
      /\ \A y \in DOMAIN merged[t] : y # x => merged'[t][y] = merged[t][y]
  BY <1>7 DEF Put
<1>10. /\ \A y : y # x => /\ y \in DOMAIN meta'[t] <=> y \in DOMAIN meta[t]
                          /\ y \in DOMAIN meta[t] => meta'[t][y] = meta[t][y]
       /\ IF renames = {} THEN meta'[t] = meta[t]
          ELSE x \in DOMAIN meta'[t] /\ meta'[t][x] \in renames
  BY <1>8, RecordAt
<1>11. x \in DOMAIN meta'[t] => meta'[t][x] \in diffs'
  <2>1. x \in DOMAIN meta[t] => meta[t][x] \in diffs
    BY <1>4 DEF MergedInv, ObjectsFilled
  <2>2. QED
    BY <1>3, <1>10, <2>1
<1>12. Fills(t, k)
  BY <1>1, <1>3, <1>4, <1>5, <1>7, <1>8, <1>9, <1>10, <1>11 DEF Fills
<1>13. Filled(t, k)'
  <2>1. merged'[t][x] \in created' /\ PairOf(merged'[t][x]) = c /\ SameContainer(doc, c.b, c.a)
    BY <1>3, <1>5, <1>9
  <2>2. QED
    BY <1>3, <1>4, <1>9, <2>1, LinkFills DEF c, x
<1>14. OpensEmpty
  <2>1. created' \ (created \cup {RootFootprint}) = {f}
    BY <1>3, <1>6
  <2>2. KeysOf(f)' = KeysOf(f) /\ DOMAIN Empty = {}
    BY <1>3 DEF KeysOf, Empty
  <2>3. QED
    BY <1>6, <1>7, <1>8, <2>1, <2>2 DEF OpensEmpty
<1>15. ObjectsFilled' /\ OpenFilled' /\ LeftFilled'
  BY <1>6, <1>12, <1>13, <1>14, FillKeeps
<1>16. CacheRight'
  <2>1. CacheRight /\ diffs \subseteq diffs'
    BY <1>3 DEF MergedInv
  <2>2. QED
    BY <1>3, <2>1, CacheGrows
<1>17. QED
  BY <1>6, <1>15, <1>16 DEF MergedInv

-----------------------------------------------------------------------------
(***************************************************************************)
(* Leaving a node.                                                         *)
(***************************************************************************)

\* Closing the innermost node t closes its object and moves no other.
LEMMA PopCloses ==
  ASSUME doc \in Input, CrawlInv, MergedInv, stack # <<>>, NEW t, t = Top.fp,
         stack' = SubSeq(stack, 1, Len(stack) - 1)
  PROVE  /\ \A g : IsOpen(g)' <=> (IsOpen(g) /\ g # t)
         /\ \A g, l : g # t => (Seen(g, l)' <=> Seen(g, l))
         /\ \A i \in 1 .. Len(stack') : stack'[i].fp = RootFootprint <=> i = 1
<1> DEFINE n == Len(stack)
<1>1. /\ n \in Nat /\ n \in 1 .. n /\ stack[n].fp = t
      /\ \A i \in 1 .. n : stack[i].fp = t => i = n
      /\ \A i \in 1 .. n : stack[i].fp = RootFootprint <=> i = 1
  BY TopFacts DEF CrawlInv, TypeOK, MergedInv, RootOutermost
<1>2. Len(stack') = n - 1 /\ \A i \in 1 .. n - 1 : stack'[i] = stack[i]
  <2>1. stack \in Seq(Frame) /\ n - 1 \in Nat /\ 1 \in Int /\ n - 1 \in Int
    BY <1>1 DEF CrawlInv, TypeOK
  <2>2. \A i \in 1 .. n - 1 : stack[i] \in Frame
    BY <1>1 DEF CrawlInv, TypeOK
  <2> DEFINE m == n - 1
  <2> HIDE DEF n, m
  <2>3. /\ Len(SubSeq(stack, 1, m)) = IF 1 <= m THEN m - 1 + 1 ELSE 0
        /\ \A i \in 1 .. m - 1 + 1 : SubSeq(stack, 1, m)[i] = stack[1 + i - 1]
    BY <2>1, <2>2, SubSeqProperties DEF m
  <2>4. stack' = SubSeq(stack, 1, m)
    BY DEF m, n
  <2>5. Len(stack') = m /\ \A i \in 1 .. m : stack'[i] = stack[i]
    BY <2>1, <2>3, <2>4 DEF m
  <2>6. QED
    BY <2>5 DEF m
<1>3. /\ \A i \in 1 .. n : i \in 1 .. n - 1 \/ i = n
      /\ \A i \in 1 .. n - 1 : i \in 1 .. n /\ i # n
  BY <1>1
<1> HIDE DEF n
<1>4. ASSUME NEW g PROVE IsOpen(g)' <=> (IsOpen(g) /\ g # t)
  <2>1. IsOpen(g)' <=> \E i \in 1 .. n - 1 : stack[i].fp = g
    BY <1>2 DEF IsOpen
  <2>2. IsOpen(g) <=> \E i \in 1 .. n : stack[i].fp = g
    BY DEF IsOpen, n
  <2>3. QED
    BY <1>1, <1>3, <2>1, <2>2
<1>5. ASSUME NEW g, NEW l, g # t PROVE Seen(g, l)' <=> Seen(g, l)
  <2>1. Seen(g, l)' <=> \A i \in 1 .. n - 1 : stack[i].fp = g => l \notin stack[i].todo
    BY <1>2 DEF Seen
  <2>2. Seen(g, l) <=> \A i \in 1 .. n : stack[i].fp = g => l \notin stack[i].todo
    BY DEF Seen, n
  <2>3. QED
    BY <1>1, <1>3, <1>5, <2>1, <2>2
<1>6. \A i \in 1 .. Len(stack') : stack'[i].fp = RootFootprint <=> i = 1
  BY <1>1, <1>2, <1>3
<1>7. QED
  BY <1>4, <1>5, <1>6

\* The number of keys of a merged object that has got its added keys.
LEMMA AddedCount ==
  ASSUME doc \in Input, NEW p, p.b \in Node, p.a \in Node, SameContainer(doc, p.b, p.a),
         NEW base, DOMAIN base = Places(p)
  PROVE  Cardinality(Places(p) \cup {KeyInMerge(p, base, k) : k \in KeysToAdd(doc, p)}) =
           Cardinality(DOMAIN doc.at[p.b]) + Cardinality(KeysToAdd(doc, p))
<1> DEFINE D == DOMAIN doc.at[p.b]
           E == KeysToAdd(doc, p)
           P == {Place(p, k) : k \in D}
           Q == {KeyInMerge(p, base, k) : k \in E}
<1>1. IsFiniteSet(D) /\ IsFiniteSet(E)
  BY InputTyping, PairKeys
<1>2. \A k, l \in D : Place(p, k) = Place(p, l) => k = l
  BY PlaceInjective
<1>3. /\ \A k \in E : KeyInMerge(p, base, k) \notin P
      /\ \A k, l \in E : KeyInMerge(p, base, k) = KeyInMerge(p, base, l) => k = l
  BY AddedPlaces DEF Places
<1> HIDE DEF D, E
<1>4. IsFiniteSet(P) /\ Cardinality(P) = Cardinality(D)
  <2> DEFINE h == [k \in D |-> Place(p, k)]
  <2>1. h \in [D -> P] /\ (\A x \in P : \E k \in D : h[k] = x)
    OBVIOUS
  <2>2. \A k, l \in D : h[k] = h[l] => k = l
    BY <1>2
  <2> HIDE DEF h, P
  <2>3. h \in Bijection(D, P)
    BY <2>1, <2>2 DEF Bijection, Injection, Surjection, IsInjective
  <2>4. QED
    BY <1>1, <2>3, FS_Bijection DEF ExistsBijection
<1>5. IsFiniteSet(Q) /\ Cardinality(Q) = Cardinality(E)
  <2> DEFINE h == [k \in E |-> KeyInMerge(p, base, k)]
  <2>1. h \in [E -> Q] /\ (\A x \in Q : \E k \in E : h[k] = x)
    OBVIOUS
  <2>2. \A k, l \in E : h[k] = h[l] => k = l
    BY <1>3
  <2> HIDE DEF h, Q
  <2>3. h \in Bijection(E, Q)
    BY <2>1, <2>2 DEF Bijection, Injection, Surjection, IsInjective
  <2>4. QED
    BY <1>1, <2>3, FS_Bijection DEF ExistsBijection
<1>6. P \cap Q = {}
  BY <1>3
<1> HIDE DEF P, Q
<1>7. /\ Cardinality(P \cup Q) = Cardinality(P) + Cardinality(Q) - Cardinality(P \cap Q)
      /\ Cardinality(P) \in Nat /\ Cardinality(Q) \in Nat /\ Cardinality(P \cap Q) = 0
  BY <1>4, <1>5, <1>6, FS_Union, FS_EmptySet, FS_CardinalityType
<1>8. Cardinality(P \cup Q) = Cardinality(D) + Cardinality(E)
  BY <1>4, <1>5, <1>7
<1>9. QED
  BY <1>8 DEF P, Q, D, E, Places

\* The exit hook: everything the object still lacks is added, and what was there stays.
LEMMA ExitFills ==
  ASSUME doc \in Input, CrawlInv, MergedInv, ExitHook
  PROVE  MergedInv'
<1>1. PICK t : t = Top.fp
  OBVIOUS
<1>2. PICK p : p = Here
  OBVIOUS
<1> DEFINE base == merged[t]
           A == KeysToAdd(doc, p)
           at(k) == KeyInMerge(p, base, k)
           values == [k \in A |-> doc.at[t.a][k]]
           added == AddedEntries(p, base, values)
           additions == AddedEntries(p, base, Additions(p))
           entries == Overlay(Removals(p), additions)
<1>3. /\ Len(stack) > 1 /\ Top.todo = {}
      /\ merged' = [merged EXCEPT ![t] = Overlay(base, added)]
      /\ meta' = [meta EXCEPT ![t] = Overlay(meta[t], entries)]
      /\ diffs' = diffs \cup {entries[x] : x \in DOMAIN entries}
      /\ stack' = SubSeq(stack, 1, Len(stack) - 1)
      /\ UNCHANGED <<doc, cache, created>>
  BY <1>1, <1>2 DEF ExitHook
<1>4. stack # <<>>
  BY <1>3 DEF CrawlInv, TypeOK
<1>5. /\ t \in created \cup {RootFootprint} /\ p = PairOf(t) /\ p.b = t.b /\ p.a = t.a
      /\ p.b \in Node /\ p.a \in Node /\ SameContainer(doc, p.b, p.a)
      /\ KeysOf(t) = DOMAIN doc.at[p.b] /\ IsOpen(t) /\ \A l : Seen(t, l)
  <2>1. /\ t \in created \cup {RootFootprint} /\ PairOf(t) = Here /\ Here.b = t.b /\ Here.a = t.a
        /\ t.b \in Node /\ t.a \in Node /\ SameContainer(doc, t.b, t.a)
        /\ Len(stack) \in 1 .. Len(stack) /\ stack[Len(stack)].fp = t
        /\ \A l : Seen(t, l) <=> l \notin Top.todo
    BY <1>1, <1>4, TopFacts
  <2>2. QED
    BY <1>2, <1>3, <2>1 DEF KeysOf, IsOpen
<1>6. DOMAIN merged = created \cup {RootFootprint} /\ DOMAIN meta = created \cup {RootFootprint}
  BY DEF CrawlInv, TypeOK
<1>7. DOMAIN base = Places(p)
  BY <1>5 DEF MergedInv, OpenFilled, Places
<1>8. /\ \A k \in A : at(k) \notin Places(p)
      /\ \A k, l \in A : at(k) = at(l) => k = l
  BY <1>5, <1>7, AddedPlaces
<1>9. /\ ReportedAdditions(doc, p) \subseteq A
      /\ ReportedRemovals(doc, p) \subseteq Removed(doc, p)
      /\ Removed(doc, p) \subseteq KeysOf(t)
  BY <1>5 DEF ReportedAdditions, ReportedRemovals, KeysToRemove, Removed
<1>10. /\ DOMAIN Removals(p) = ReportedRemovals(doc, p)
       /\ \A k \in ReportedRemovals(doc, p) :
             Removals(p)[k] = getOrCreateChildDiff(DiffRemoved(doc, p, k))
  BY DEF Removals
<1>11. /\ DOMAIN Additions(p) = ReportedAdditions(doc, p)
       /\ \A k \in ReportedAdditions(doc, p) :
             Additions(p)[k] = getOrCreateChildDiff(DiffAdded(doc, p, k))
  BY DEF Additions
<1>12. DOMAIN values = A /\ \A k \in A : values[k] = doc.at[t.a][k]
  OBVIOUS
<1> HIDE DEF base, A, values
<1>13. /\ DOMAIN added = {at(k) : k \in A} /\ \A k \in A : added[at(k)] = doc.at[t.a][k]
  <2>1. \A k, l \in DOMAIN values : KeyInMerge(p, base, k) = KeyInMerge(p, base, l) => k = l
    BY <1>8, <1>12
  <2> HIDE DEF added
  <2>2. PICK e : e = added
    OBVIOUS
  <2>3. e = AddedEntries(p, base, values)
    BY <2>2 DEF added
  <2>4. /\ \A x : x \in DOMAIN e <=> \E k \in DOMAIN values : x = KeyInMerge(p, base, k)
        /\ \A k \in DOMAIN values : e[KeyInMerge(p, base, k)] = values[k]
    BY <2>1, <2>3, AddedEntriesAt
  <2>5. QED
    BY <1>12, <2>2, <2>4
<1>14. /\ DOMAIN additions = {at(k) : k \in ReportedAdditions(doc, p)}
       /\ \A k \in ReportedAdditions(doc, p) :
             additions[at(k)] = getOrCreateChildDiff(DiffAdded(doc, p, k))
  <2> DEFINE adds == Additions(p)
  <2>1. \A k, l \in DOMAIN adds : KeyInMerge(p, base, k) = KeyInMerge(p, base, l) => k = l
    BY <1>8, <1>9, <1>11
  <2> HIDE DEF additions
  <2>2. PICK e : e = additions
    OBVIOUS
  <2> HIDE DEF adds
  <2>3. e = AddedEntries(p, base, adds)
    BY <2>2 DEF additions, adds
  <2>4. /\ \A x : x \in DOMAIN e <=> \E k \in DOMAIN adds : x = KeyInMerge(p, base, k)
        /\ \A k \in DOMAIN adds : e[KeyInMerge(p, base, k)] = adds[k]
    BY <2>1, <2>3, AddedEntriesAt
  <2>5. QED
    BY <1>11, <2>2, <2>4 DEF adds
<1> HIDE DEF added, additions, at
<1>15. \A k \in Removed(doc, p) : Place(p, k) = k /\ k \in Places(p)
  BY <1>5, <1>9 DEF Removed, Place, Places
<1>16. /\ DOMAIN entries = ReportedRemovals(doc, p) \cup DOMAIN additions
       /\ \A x \in DOMAIN additions : entries[x] = additions[x]
       /\ \A k \in ReportedRemovals(doc, p) :
             entries[k] = getOrCreateChildDiff(DiffRemoved(doc, p, k))
  <2>1. \A k \in ReportedRemovals(doc, p) : k \notin DOMAIN additions
    BY <1>8, <1>9, <1>14, <1>15
  <2>2. QED
    BY <1>10, <2>1 DEF Overlay
<1> HIDE DEF entries
<1>17. /\ merged'[t] = Overlay(base, added) /\ meta'[t] = Overlay(meta[t], entries)
       /\ \A g \in created \cup {RootFootprint} : g # t => merged'[g] = merged[g] /\ meta'[g] = meta[g]
  BY <1>3, <1>5, <1>6
<1>18. /\ DOMAIN merged'[t] = Places(p) \cup {at(k) : k \in A}
       /\ \A k \in A : merged'[t][at(k)] = doc.at[t.a][k]
       /\ \A x \in Places(p) : merged'[t][x] = merged[t][x]
  <2>1. \A x \in Places(p) : x \notin DOMAIN added
    BY <1>8, <1>13
  <2>2. \A x \in Places(p) : merged'[t][x] = base[x]
    BY <1>7, <1>17, <2>1 DEF Overlay
  <2>3. DOMAIN merged'[t] = DOMAIN base \cup DOMAIN added
    BY <1>17 DEF Overlay
  <2>4. \A x \in DOMAIN added : merged'[t][x] = added[x]
    BY <1>17 DEF Overlay
  <2>5. QED
    BY <1>7, <1>13, <2>2, <2>3, <2>4 DEF base
<1>19. /\ DOMAIN meta'[t] = DOMAIN meta[t] \cup DOMAIN entries
       /\ \A x \in DOMAIN entries : meta'[t][x] = entries[x]
       /\ \A x \in DOMAIN meta[t] : x \notin DOMAIN entries => meta'[t][x] = meta[t][x]
  BY <1>17 DEF Overlay
<1>20. /\ \A g : IsOpen(g)' <=> (IsOpen(g) /\ g # t)
       /\ \A g, l : g # t => (Seen(g, l)' <=> Seen(g, l))
       /\ RootOutermost'
  BY <1>1, <1>3, <1>4, PopCloses DEF MergedInv, RootOutermost
<1>21. ASSUME NEW l \in KeysOf(t) PROVE Filled(t, l)'
  <2>1. Filled(t, l) /\ Place(p, l) \in Places(p)
    BY <1>5 DEF MergedInv, ObjectsFilled, Places
  <2>2. CASE l \in Removed(doc, p)
    <3>1. l \notin DOMAIN KeyMap(doc, p) /\ Place(p, l) = l
      BY <1>15, <2>2 DEF Removed
    <3>2. l \notin ReplacedKeys(doc, p)
      BY <3>1 DEF ReplacedKeys, Compared
    <3>3. merged'[t][l] = doc.at[t.b][l] /\ l \in DOMAIN merged'[t]
      BY <1>5, <1>18, <2>1, <3>1 DEF Filled
    <3>4. QED
      BY <1>3, <1>5, <3>1, <3>2, <3>3 DEF Filled, PairOf, Place
  <2>3. CASE l \notin Removed(doc, p)
    <3>1. Place(p, l) \notin DOMAIN entries
      <4>1. Place(p, l) \notin DOMAIN additions
        BY <1>8, <1>9, <1>14, <2>1
      <4>2. ASSUME NEW k \in ReportedRemovals(doc, p) PROVE Place(p, l) # k
        <5>1. k \in KeysOf(t) /\ k \in Removed(doc, p) /\ Place(p, k) = k
          BY <1>9, <1>15
        <5>2. QED
          BY <1>5, <2>3, <5>1, PlaceInjective
      <4>3. QED
        BY <1>16, <4>1, <4>2
    <3>2. /\ Place(p, l) \in DOMAIN merged'[t]
          /\ merged'[t][Place(p, l)] = merged[t][Place(p, l)]
          /\ Place(p, l) \in DOMAIN meta[t] =>
               /\ Place(p, l) \in DOMAIN meta'[t]
               /\ meta'[t][Place(p, l)] = meta[t][Place(p, l)]
      BY <1>18, <1>19, <2>1, <3>1
    <3>3. QED
      BY <1>3, <1>5, <2>1, <3>2, FilledStays
  <2>4. QED
    BY <2>2, <2>3
<1>22. ASSUME NEW g \in created \cup {RootFootprint}, NEW l \in KeysOf(g), Seen(g, l)'
       PROVE  Filled(g, l)'
  <2>1. CASE g = t
    BY <1>21, <2>1
  <2>2. CASE g # t
    <3>1. Filled(g, l) /\ merged'[g] = merged[g] /\ meta'[g] = meta[g]
      BY <1>17, <1>20, <1>22, <2>2 DEF MergedInv, ObjectsFilled
    <3>2. Place(PairOf(g), l) \in DOMAIN merged[g]
      BY <3>1 DEF Filled
    <3>3. QED
      BY <1>3, <3>1, <3>2, FilledStays
  <2>3. QED
    BY <2>1, <2>2
<1>23. ASSUME NEW g \in created \cup {RootFootprint}, NEW x \in DOMAIN meta'[g]
       PROVE  x \in DOMAIN merged'[g] /\ meta'[g][x] \in diffs'
  <2>1. CASE g # t
    BY <1>3, <1>17, <1>23, <2>1 DEF MergedInv, ObjectsFilled
  <2>2. CASE g = t /\ x \in DOMAIN entries
    <3>1. x \in DOMAIN merged'[t]
      BY <1>9, <1>14, <1>15, <1>16, <1>18, <2>2
    <3>2. QED
      BY <1>3, <1>19, <2>2, <3>1
  <2>3. CASE g = t /\ x \notin DOMAIN entries
    <3>1. x \in DOMAIN meta[t] /\ meta'[t][x] = meta[t][x]
      BY <1>19, <1>23, <2>3
    <3>2. x \in DOMAIN merged[t] /\ meta[t][x] \in diffs
      BY <1>5, <3>1 DEF MergedInv, ObjectsFilled
    <3>3. QED
      BY <1>3, <1>7, <1>18, <2>3, <3>1, <3>2 DEF base
  <2>4. QED
    BY <2>1, <2>2, <2>3
<1>24. ObjectsFilled'
  BY <1>3, <1>22, <1>23 DEF ObjectsFilled, KeysOf
<1>25. OpenFilled'
  <2>1. ASSUME NEW g \in created \cup {RootFootprint}, IsOpen(g)'
        PROVE  DOMAIN merged'[g] = {Place(PairOf(g), l) : l \in {m \in KeysOf(g) : Seen(g, m)'}}
    BY <1>17, <1>20, <2>1 DEF MergedInv, OpenFilled
  <2>2. QED
    BY <1>3, <2>1 DEF OpenFilled, PairOf, KeysOf, Place
<1>26. ExitFilled(t)'
  <2>1. Cardinality(DOMAIN merged'[t]) =
          Cardinality(DOMAIN doc.at[t.b]) + Cardinality(KeysToAdd(doc, p))
    BY <1>5, <1>7, <1>18, AddedCount DEF A, at
  <2>2. \A k \in KeysToAdd(doc, p) :
           \E x \in DOMAIN merged'[t] : merged'[t][x] = doc.at[t.a][k]
    BY <1>18 DEF A
  <2>3. \A k \in ReportedRemovals(doc, p) :
           k \in DOMAIN meta'[t] /\ meta'[t][k] = getOrCreateChildDiff(DiffRemoved(doc, p, k))
    BY <1>16, <1>19
  <2>4. \A k \in ReportedAdditions(doc, p) :
           \E x \in DOMAIN meta'[t] :
              /\ meta'[t][x] = getOrCreateChildDiff(DiffAdded(doc, p, k))
              /\ merged'[t][x] = doc.at[t.a][k]
    BY <1>9, <1>14, <1>16, <1>18, <1>19
  <2>5. QED
    BY <1>3, <1>5, <2>1, <2>2, <2>3, <2>4 DEF ExitFilled, PairOf, getOrCreateChildDiff
<1>27. LeftFilled'
  <2>1. ASSUME NEW g \in Left', g # t PROVE ExitFilled(g)'
    <3>1. g \in created /\ ~IsOpen(g)
      BY <1>3, <1>20, <2>1 DEF Left
    <3>2. ExitFilled(g) /\ merged'[g] = merged[g] /\ meta'[g] = meta[g]
      BY <1>17, <2>1, <3>1 DEF MergedInv, LeftFilled, Left
    <3>3. QED
      BY <1>3, <3>2 DEF ExitFilled, PairOf, getOrCreateChildDiff
  <2>2. QED
    BY <1>26, <2>1 DEF LeftFilled
<1>28. CacheRight'
  BY <1>3 DEF MergedInv, CacheRight, PullRight
<1>29. QED
  BY <1>20, <1>24, <1>25, <1>27, <1>28 DEF MergedInv

\* Returning: only the root closes, which is no merged object of a pair.
LEMMA ReturnFills ==
  ASSUME doc \in Input, CrawlInv, MergedInv, Return
  PROVE  MergedInv'
<1>1. PICK t : t = Top.fp
  OBVIOUS
<1>2. /\ Len(stack) = 1 /\ Top.todo = {} /\ stack' = <<>> /\ stack # <<>>
      /\ UNCHANGED <<doc, cache, created, merged, meta, diffs>>
  <2>1. Len(stack) = 1 /\ Top.todo = {} /\ stack' = <<>>
    BY DEF Return
  <2>2. stack # <<>>
    BY <2>1
  <2>3. QED
    BY <2>1, <2>2 DEF Return
<1>3. /\ t = RootFootprint /\ \A l : Seen(t, l)
  BY <1>1, <1>2, TopFacts DEF MergedInv, RootOutermost, Top
<1>4. /\ Len(stack') = 0 /\ \A g : ~IsOpen(g)'
      /\ \A g, l : Seen(g, l)
  <2>1. Len(stack') = 0 /\ \A g : ~IsOpen(g)'
    BY <1>2 DEF IsOpen
  <2>2. \A g, l : Seen(g, l)
    BY <1>1, <1>2, <1>3 DEF Seen, Top
  <2>3. QED
    BY <2>1, <2>2
<1>5. ASSUME NEW g \in created \cup {RootFootprint}, NEW l \in KeysOf(g) PROVE Filled(g, l)'
  <2>1. Filled(g, l)
    BY <1>4 DEF MergedInv, ObjectsFilled
  <2>2. Place(PairOf(g), l) \in DOMAIN merged[g]
    BY <2>1 DEF Filled
  <2>3. QED
    BY <1>2, <2>1, <2>2, FilledStays
<1>6. ObjectsFilled'
  <2>1. ASSUME NEW g \in created \cup {RootFootprint}, NEW x \in DOMAIN meta[g]
        PROVE  x \in DOMAIN merged[g] /\ meta[g][x] \in diffs
    BY DEF MergedInv, ObjectsFilled
  <2>2. QED
    BY <1>2, <1>5, <2>1 DEF ObjectsFilled, KeysOf
<1>7. OpenFilled' /\ RootOutermost'
  BY <1>2, <1>4 DEF MergedInv, OpenFilled, RootOutermost
<1>8. LeftFilled'
  <2>1. ASSUME NEW g \in Left' PROVE ExitFilled(g)'
    <3>1. g \in created /\ g # RootFootprint
      BY <1>2, <2>1 DEF Left, MergedInv, RootOutermost
    <3>2. g \in Left
      BY <1>1, <1>2, <1>3, <3>1 DEF Left, IsOpen, Top
    <3>3. QED
      BY <1>2, <3>2 DEF MergedInv, LeftFilled, ExitFilled, PairOf, getOrCreateChildDiff
  <2>2. QED
    BY <2>1 DEF LeftFilled
<1>9. CacheRight'
  BY <1>2 DEF MergedInv, CacheRight, PullRight
<1>10. QED
  BY <1>6, <1>7, <1>8, <1>9 DEF MergedInv

-----------------------------------------------------------------------------
(***************************************************************************)
(* MergedInv is an invariant.                                              *)
(***************************************************************************)
LEMMA MergedInit == ASSUME Init PROVE MergedInv
<1>1. /\ Len(stack) = 1 /\ stack[1].fp = RootFootprint /\ stack[1].todo = {RootKey}
      /\ DOMAIN cache = {} /\ created = {} /\ diffs = {}
      /\ DOMAIN merged[RootFootprint] = {} /\ DOMAIN meta[RootFootprint] = {}
  BY DEF Init, Empty
<1>2. KeysOf(RootFootprint) = {RootKey}
  BY InputTyping DEF Init, IsDocumentPair, KeysOf, RootFootprint
<1>3. ~Seen(RootFootprint, RootKey)
  BY <1>1 DEF Seen
<1>4. RootOutermost /\ CacheRight
  BY <1>1 DEF RootOutermost, CacheRight
<1>5. ObjectsFilled /\ OpenFilled /\ LeftFilled
  BY <1>1, <1>2, <1>3 DEF ObjectsFilled, OpenFilled, LeftFilled, Left
<1>6. QED
  BY <1>4, <1>5 DEF MergedInv

\* One case per action of the crawl.
LEMMA MergedStep ==
  ASSUME doc \in Input, CrawlInv, MergedInv, [Next]_vars
  PROVE  MergedInv'
<1>1. ASSUME NEW k \in Key, Visit(k) PROVE MergedInv'
  <2>1. CASE KeepRemoved(k) \/ AdoptIgnored(k)
    BY <2>1, KeepStep
  <2>2. CASE Reuse(k)
    BY <2>2, ReuseFills
  <2>3. CASE CompareLeaf(k)
    BY <2>3, LeafFills
  <2>4. CASE Descend(k)
    BY <2>4, DescendFills
  <2>5. QED
    BY <1>1, <2>1, <2>2, <2>3, <2>4 DEF Visit
<1>2. CASE ExitHook
  BY <1>2, ExitFills
<1>3. CASE Return
  BY <1>3, ReturnFills
<1>4. CASE UNCHANGED vars
  <2>1. RootOutermost' /\ CacheRight'
    BY <1>4 DEF vars, MergedInv, RootOutermost, CacheRight, PullRight
  <2>2. /\ \A g : (IsOpen(g)' <=> IsOpen(g)) /\ (ExitFilled(g)' <=> ExitFilled(g))
        /\ \A g, l : (Seen(g, l)' <=> Seen(g, l)) /\ (Filled(g, l)' <=> Filled(g, l))
    BY <1>4 DEF vars, IsOpen, ExitFilled, Seen, Filled, LinkedRight, RecordedAt, Place, PairOf,
                getOrCreateChildDiff
  <2>3. ObjectsFilled' /\ OpenFilled' /\ LeftFilled'
    BY <1>4, <2>2 DEF vars, MergedInv, ObjectsFilled, OpenFilled, LeftFilled, Left, KeysOf,
                      Place, PairOf
  <2>4. QED
    BY <2>1, <2>3 DEF MergedInv
<1>5. QED
  BY <1>1, <1>2, <1>3, <1>4 DEF Next

(***************************************************************************)
(* For every pair of documents: what the crawl has visited of an object is *)
(* merged and recorded, and the reuse cache hands out what belongs.        *)
(***************************************************************************)
THEOREM MergedInvariant == Spec => []MergedInv
<1>1. Init => MergedInv
  BY MergedInit
<1>2. doc \in Input /\ CrawlInv /\ MergedInv /\ [Next]_vars => MergedInv'
  BY MergedStep
<1>3. QED
  BY <1>1, <1>2, DocConstant, CrawlInvariant, PTL DEF Spec

\* A merged object the crawl has left: everything its keys ask for is there.
LEMMA LeftIsFilled ==
  ASSUME MergedInv, NEW f \in Left
  PROVE  ExitFilled(f) /\ \A k \in KeysOf(f) : Filled(f, k)
<1>1. f \in created /\ ~IsOpen(f)
  BY DEF Left
<1>2. \A k : Seen(f, k)
  BY <1>1 DEF Seen, IsOpen
<1>3. QED
  BY <1>1, <1>2 DEF MergedInv, ObjectsFilled, LeftFilled

(***************************************************************************)
(* A merged object the crawl has left is whole, however it was reached: it *)
(* has an entry for every mapped, removed and added key, and under a       *)
(* mapped key the merged object of exactly that child pair.                *)
(***************************************************************************)
THEOREM MergedIsWhole == Spec => []MergedWhole
<1>1. doc \in Input /\ CrawlInv /\ MergedInv => MergedWhole
  <2> SUFFICES ASSUME doc \in Input, CrawlInv, MergedInv, NEW f \in Left,
                      NEW p, p = PairOf(f)
               PROVE  /\ Cardinality(DOMAIN merged[f]) =
                           Cardinality(DOMAIN doc.at[f.b]) + Cardinality(KeysToAdd(doc, p))
                      /\ \A k \in DOMAIN KeyMap(doc, p) :
                            MergeKey(doc, p, k) \in DOMAIN merged[f] /\ LinkedRight(f, k)
                      /\ \A k \in Removed(doc, p) :
                            k \in DOMAIN merged[f] /\ merged[f][k] = doc.at[f.b][k]
                      /\ \A k \in KeysToAdd(doc, p) :
                            \E x \in DOMAIN merged[f] : merged[f][x] = doc.at[f.a][k]
    BY DEF MergedWhole
  <2>1. ExitFilled(f) /\ \A k \in KeysOf(f) : Filled(f, k)
    BY LeftIsFilled
  <2>2. /\ KeysOf(f) = DOMAIN doc.at[p.b] /\ p.b \in Node /\ p.a \in Node
    BY DEF Left, MergedInv, CacheRight, SameContainer, PairOf, KeysOf
  <2>3. DOMAIN KeyMap(doc, p) \subseteq KeysOf(f) /\ Removed(doc, p) \subseteq KeysOf(f)
    BY <2>2, InputTyping, PairKeys DEF Removed
  <2>4. ASSUME NEW k \in DOMAIN KeyMap(doc, p)
        PROVE  MergeKey(doc, p, k) \in DOMAIN merged[f] /\ LinkedRight(f, k)
    BY <2>1, <2>3 DEF Filled, Place
  <2>5. ASSUME NEW k \in Removed(doc, p)
        PROVE  k \in DOMAIN merged[f] /\ merged[f][k] = doc.at[f.b][k]
    BY <2>1, <2>3 DEF Filled, Place, Removed
  <2>6. QED
    BY <2>1, <2>4, <2>5 DEF ExitFilled
<1>2. QED
  BY <1>1, DocConstant, CrawlInvariant, MergedInvariant, PTL

(***************************************************************************)
(* A merged object the crawl has left records every replacement, removal   *)
(* and addition among its own keys, those shared through the reuse cache   *)
(* included, and what it records has been reported.                        *)
(***************************************************************************)
THEOREM MetaTellsDiffs == Spec => []MetaMatchesDiffs
<1>1. doc \in Input /\ CrawlInv /\ MergedInv => MetaMatchesDiffs
  <2> SUFFICES ASSUME doc \in Input, CrawlInv, MergedInv, NEW f \in Left,
                      NEW p, p = PairOf(f)
               PROVE  /\ \A k \in ReplacedKeys(doc, p) :
                            RecordedAt(f, MergeKey(doc, p, k), DiffReplaced(doc, p, k))
                      /\ \A k \in ReportedRemovals(doc, p) : RecordedAt(f, k, DiffRemoved(doc, p, k))
                      /\ \A k \in ReportedAdditions(doc, p) :
                            \E x \in DOMAIN meta[f] :
                               /\ RecordedAt(f, x, DiffAdded(doc, p, k))
                               /\ merged[f][x] = doc.at[f.a][k]
                      /\ \A x \in DOMAIN meta[f] : x \in DOMAIN merged[f] /\ meta[f][x] \in diffs
    BY DEF MetaMatchesDiffs
  <2>1. ExitFilled(f) /\ \A k \in KeysOf(f) : Filled(f, k)
    BY LeftIsFilled
  <2>2. KeysOf(f) = DOMAIN doc.at[p.b] /\ p.b \in Node /\ p.a \in Node
    BY DEF Left, MergedInv, CacheRight, SameContainer, PairOf, KeysOf
  <2>3. ReplacedKeys(doc, p) \subseteq KeysOf(f)
    BY <2>2, InputTyping, PairKeys DEF ReplacedKeys, Compared
  <2>4. \A e : getOrCreateChildDiff(e).of = e
    BY DEF getOrCreateChildDiff
  <2>5. \A k \in ReplacedKeys(doc, p) :
           RecordedAt(f, MergeKey(doc, p, k), DiffReplaced(doc, p, k))
    BY <2>1, <2>3 DEF Filled
  <2>6. ASSUME NEW k \in ReportedRemovals(doc, p) PROVE RecordedAt(f, k, DiffRemoved(doc, p, k))
    BY <2>1, <2>4 DEF ExitFilled, RecordedAt
  <2>7. ASSUME NEW k \in ReportedAdditions(doc, p)
        PROVE  \E x \in DOMAIN meta[f] :
                  RecordedAt(f, x, DiffAdded(doc, p, k)) /\ merged[f][x] = doc.at[f.a][k]
    <3>1. PICK x \in DOMAIN meta[f] :
                  /\ meta[f][x] = getOrCreateChildDiff(DiffAdded(doc, p, k))
                  /\ merged[f][x] = doc.at[f.a][k]
      BY <2>1 DEF ExitFilled
    <3>2. QED
      BY <2>4, <3>1 DEF RecordedAt
  <2>8. \A x \in DOMAIN meta[f] : x \in DOMAIN merged[f] /\ meta[f][x] \in diffs
    BY DEF Left, MergedInv, ObjectsFilled
  <2>9. QED
    BY <2>5, <2>6, <2>7, <2>8
<1>2. QED
  BY <1>1, DocConstant, CrawlInvariant, MergedInvariant, PTL

=============================================================================
