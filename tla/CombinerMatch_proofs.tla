-------------------------- MODULE CombinerMatch_proofs --------------------------
(***************************************************************************)
(* Proofs about CombinerMatch, for combiners of any size: no option is     *)
(* lost or left over, references are matched, and the pairing and the      *)
(* differences returned are what MinDiffsReported says.                    *)
(***************************************************************************)
EXTENDS CombinerMatch, Integers, TLAPS, FiniteSetTheorems, NaturalsInduction, WellFoundedInduction

BeforeIndexes == DOMAIN combiner.before
AfterIndexes  == DOMAIN combiner.after
Pairs == {PairAt(i, j) : i \in BeforeIndexes, j \in AfterIndexes}

-----------------------------------------------------------------------------
(***************************************************************************)
(* The inductive invariant, part by part.                                  *)
(***************************************************************************)
Indexed ==
  /\ combiner \in Input /\ next \in Nat \ {0}
  /\ round \in {"references", "comparisons", "choices", "done"}
  /\ freeBefore \subseteq BeforeIndexes /\ freeAfter \subseteq AfterIndexes
  /\ left \subseteq freeBefore \X freeAfter
  /\ compared \subseteq BeforeIndexes \X AfterIndexes
  /\ round # "comparisons" => left = {}
  /\ round = "references" => \A i \in BeforeIndexes : next <= i => i \in freeBefore

\* The merged array holds the matched pairs, each at its index in after.
Merging ==
  round # "done" =>
    /\ DOMAIN merged = AfterIndexes \ freeAfter
    /\ \A j \in DOMAIN merged :
          merged[j].after = j /\ merged[j].before \in BeforeIndexes \ freeBefore
    /\ \A i \in BeforeIndexes \ freeBefore : \E j \in DOMAIN merged : merged[j].before = i
    /\ \A j, l \in DOMAIN merged : merged[j].before = merged[l].before => j = l

\* No pair of free options escapes the rounds of comparisons and choices.
PairsLeft ==
  /\ round = "comparisons" => freeBefore \X freeAfter \subseteq left \cup compared
  /\ round = "choices" => freeBefore \X freeAfter \subseteq compared
  /\ round = "done" => freeBefore = {} \/ freeAfter = {}

\* The options of one reference, and the matched pairs of them.
OfBefore(r) == {i \in BeforeIndexes : combiner.ref[combiner.before[i]] = r}
OfAfter(r)  == {j \in AfterIndexes : combiner.ref[combiner.after[j]] = r}
OfBoth(r)   == {c \in Matched : c[1] \in OfBefore(r) /\ c[2] \in OfAfter(r)}

\* Either side of a reference is used up before the other options are compared.
RefsUsedUp ==
  \A r \in Ref :
    /\ round = "references" =>
          /\ Cardinality(OfBoth(r)) = Cardinality(OfBefore(r) \ freeBefore)
          /\ Cardinality(OfBoth(r)) = Cardinality(OfAfter(r) \ freeAfter)
          /\ \/ OfAfter(r) \cap freeAfter = {}
             \/ \A i \in OfBefore(r) : i < next => i \notin freeBefore
    /\ round # "references" =>
          /\ OfAfter(r) \cap freeAfter = {} \/ OfBefore(r) \cap freeBefore = {}
          /\ Cardinality(OfBoth(r)) =
               IF Cardinality(OfBefore(r)) < Cardinality(OfAfter(r))
               THEN Cardinality(OfBefore(r)) ELSE Cardinality(OfAfter(r))

\* With parts of their own, pairs report all they show, whenever they are compared.
CacheTells ==
  /\ DOMAIN cache \subseteq Pairs
  /\ linked \subseteq combiner.seen \cup UNION {combiner.parts[p] : p \in DOMAIN cache}
  /\ \A c \in compared : PairAt(c[1], c[2]) \in DOMAIN cache
  /\ PartsApart =>
       \A i \in BeforeIndexes : \A j \in AfterIndexes :
          PairAt(i, j) \in DOMAIN cache => cache[PairAt(i, j)] = Shown(i, j)

DiffsTell == PartsApart => diffs = UNION {Shown(c[1], c[2]) : c \in Matched}

\* Whoever of two options was matched first was not better off with the other one.
Settled(i, j) ==
  \E c \in Matched : (c[1] = i \/ c[2] = j) /\ ~Worse(c, i, j)

Stable ==
  PartsApart =>
    \A i \in BeforeIndexes : \A j \in AfterIndexes :
       (i \in freeBefore /\ j \in freeAfter) \/ Settled(i, j)

MatchInv == Indexed /\ Merging /\ PairsLeft /\ RefsUsedUp /\ CacheTells /\ DiffsTell /\ Stable

-----------------------------------------------------------------------------
(***************************************************************************)
(* The least and the greatest of indexes, and what the indexes are.        *)
(***************************************************************************)
LEMMA LeastIsLeast ==
  ASSUME NEW S \in SUBSET Nat, S # {}
  PROVE  Least(S) \in S /\ \A j \in S : Least(S) <= j
<1> DEFINE R == {ss \in Nat \X Nat : ss[1] < ss[2]}
<1>1. IsWellFoundedOn(R, Nat)
  BY NatLessThanWellFounded DEF OpToRel
<1>2. PICK i \in S : \A j \in S : ~ (<<j, i>> \in R)
  BY <1>1, WFMin
<1>3. ASSUME NEW j \in S PROVE i <= j
  <2>1. i \in Nat /\ j \in Nat
    OBVIOUS
  <2>2. <<j, i>> \notin R
    BY <1>2
  <2>3. ~ (j < i)
    BY <2>1, <2>2
  <2>4. QED
    BY <2>1, <2>3
<1>4. QED
  BY <1>3 DEF Least

LEMMA GreatestIsGreatest ==
  ASSUME NEW S \in SUBSET Nat, NEW g \in S, \A x \in S : x <= g
  PROVE  Greatest(S) = g
<1>1. Greatest(S) \in S /\ \A x \in S : x <= Greatest(S)
  BY DEF Greatest
<1>2. g \in Nat /\ Greatest(S) \in Nat
  BY <1>1
<1>3. QED
  BY <1>1, <1>2

LEMMA Sizes ==
  ASSUME combiner \in Input
  PROVE  /\ combiner \in Combiners
         /\ Len(combiner.before) \in Nat /\ BeforeIndexes = 1 .. Len(combiner.before)
         /\ Len(combiner.after) \in Nat /\ AfterIndexes = 1 .. Len(combiner.after)
         /\ BeforeIndexes \subseteq Nat /\ AfterIndexes \subseteq Nat
         /\ None \notin BeforeIndexes /\ None \notin AfterIndexes
         /\ IsFiniteSet(BeforeIndexes) /\ IsFiniteSet(AfterIndexes)
<1>1. combiner \in Combiners
  BY CombinerAssumption
<1>2. /\ Len(combiner.before) \in Nat /\ BeforeIndexes = 1 .. Len(combiner.before)
      /\ Len(combiner.after) \in Nat /\ AfterIndexes = 1 .. Len(combiner.after)
  BY <1>1 DEF Combiners, BeforeIndexes, AfterIndexes
<1>3. IsFiniteSet(1 .. Len(combiner.before)) /\ IsFiniteSet(1 .. Len(combiner.after))
  BY <1>2, FS_Interval
<1>4. QED
  BY <1>1, <1>2, <1>3, CombinerAssumption

\* While rounds go on, every entry of the merged array is a matched pair.
LEMMA MatchedPairs ==
  ASSUME Indexed, Merging, round # "done"
  PROVE  /\ \A c : c \in Matched <=> \E x \in DOMAIN merged : c = <<merged[x].before, x>>
         /\ Matched \subseteq (BeforeIndexes \ freeBefore) \X (AfterIndexes \ freeAfter)
<1>1. \A x \in DOMAIN merged : /\ merged[x].after = x /\ x \in AfterIndexes \ freeAfter
                               /\ merged[x].before \in BeforeIndexes \ freeBefore
                               /\ merged[x].before # None /\ merged[x].after # None
  BY Sizes DEF Indexed, Merging
<1>2. \A c : c \in Matched <=> \E x \in DOMAIN merged : c = <<merged[x].before, x>>
  BY <1>1 DEF Matched
<1>3. QED
  BY <1>1, <1>2

\* Matching two free options adds them to the merged array, and nothing else changes there.
LEMMA MatchMerges ==
  ASSUME Indexed, Merging, round # "done", NEW i \in freeBefore, NEW j \in freeAfter,
         Match(i, j), combiner' = combiner, round' = round
  PROVE  /\ Merging' /\ freeBefore' = freeBefore \ {i} /\ freeAfter' = freeAfter \ {j}
         /\ Matched' = Matched \cup {<<i, j>>}
<1>1. /\ freeBefore' = freeBefore \ {i} /\ freeAfter' = freeAfter \ {j}
      /\ DOMAIN merged' = DOMAIN merged \cup {j}
      /\ merged'[j] = [before |-> i, after |-> j]
      /\ \A x \in DOMAIN merged : x # j => merged'[x] = merged[x]
  BY DEF Match, Put
<1>2. /\ DOMAIN merged = AfterIndexes \ freeAfter
      /\ \A x \in DOMAIN merged :
            merged[x].after = x /\ merged[x].before \in BeforeIndexes \ freeBefore
      /\ \A k \in BeforeIndexes \ freeBefore : \E x \in DOMAIN merged : merged[x].before = k
      /\ \A x, l \in DOMAIN merged : merged[x].before = merged[l].before => x = l
  BY DEF Merging
<1>3. /\ i \in BeforeIndexes /\ j \in AfterIndexes /\ j \notin DOMAIN merged
      /\ BeforeIndexes' = BeforeIndexes /\ AfterIndexes' = AfterIndexes
  BY <1>2 DEF Indexed, BeforeIndexes, AfterIndexes
<1>4. /\ DOMAIN merged' = AfterIndexes \ freeAfter'
      /\ \A x \in DOMAIN merged' :
            merged'[x].after = x /\ merged'[x].before \in BeforeIndexes \ freeBefore'
  BY <1>1, <1>2, <1>3
<1>5. ASSUME NEW k \in BeforeIndexes \ freeBefore'
      PROVE  \E x \in DOMAIN merged' : merged'[x].before = k
  <2>1. CASE k = i
    BY <1>1, <2>1
  <2>2. CASE k # i
    <3>1. PICK x \in DOMAIN merged : merged[x].before = k
      BY <1>1, <1>2, <2>2
    <3>2. QED
      BY <1>1, <1>3, <3>1
  <2>3. QED
    BY <2>1, <2>2
<1>6. ASSUME NEW x \in DOMAIN merged', NEW l \in DOMAIN merged',
             merged'[x].before = merged'[l].before
      PROVE  x = l
  BY <1>1, <1>2, <1>3, <1>6
<1>7. Merging'
  BY <1>3, <1>4, <1>5, <1>6 DEF Merging
<1>8. \A c : c \in Matched' <=> \E x \in DOMAIN merged' : c = <<merged'[x].before, x>>
  <2>1. None \notin BeforeIndexes /\ None \notin AfterIndexes
    BY Sizes DEF Indexed
  <2>2. \A x \in DOMAIN merged' : /\ merged'[x].after = x
                                  /\ x \in AfterIndexes /\ merged'[x].before \in BeforeIndexes
    BY <1>4
  <2>3. \A x \in DOMAIN merged' : /\ merged'[x].after = x
                                  /\ merged'[x].before # None /\ merged'[x].after # None
    BY <2>1, <2>2
  <2>4. QED
    BY <2>3 DEF Matched
<1>9. Matched' = Matched \cup {<<i, j>>}
  <2>1. \A c : c \in Matched <=> \E x \in DOMAIN merged : c = <<merged[x].before, x>>
    BY MatchedPairs
  <2>2. \A c : c \in Matched' <=> c \in Matched \cup {<<i, j>>}
    <3>1. ASSUME NEW c, c \in Matched' PROVE c \in Matched \cup {<<i, j>>}
      BY <1>1, <1>3, <1>8, <2>1, <3>1
    <3>2. ASSUME NEW c, c \in Matched PROVE c \in Matched'
      BY <1>1, <1>3, <1>8, <2>1, <3>2
    <3>3. <<i, j>> \in Matched'
      BY <1>1, <1>8
    <3>4. QED
      BY <3>1, <3>2, <3>3
  <2>3. QED
    BY <2>2
<1>10. QED
  BY <1>1, <1>7, <1>9

-----------------------------------------------------------------------------
(***************************************************************************)
(* The indexes, the merged array and the pairs left, action by action.     *)
(***************************************************************************)

\* The match of the round of references is of two free options that refer to the same schema.
LEMMA RefMatch ==
  ASSUME Indexed, MatchByRef, NEW j, j = Least(SameRef(next))
  PROVE  /\ next \in freeBefore /\ j \in freeAfter /\ Match(next, j)
         /\ haveSameLastRef(PairAt(next, j))
<1>1. /\ round = "references" /\ next \in BeforeIndexes /\ SameRef(next) # {}
      /\ Match(next, j)
  BY DEF MatchByRef, BeforeIndexes
<1>2. SameRef(next) \in SUBSET Nat
  BY Sizes DEF SameRef, Indexed
<1>3. j \in SameRef(next)
  BY <1>1, <1>2, LeastIsLeast
<1>4. next \in freeBefore
  BY <1>1, Sizes DEF Indexed
<1>5. QED
  BY <1>1, <1>3, <1>4 DEF SameRef

\* The indexes are kept by a step that takes nothing but free options.
LEMMA IndexedStep ==
  ASSUME Indexed, combiner' = combiner, freeBefore' \subseteq freeBefore,
         freeAfter' \subseteq freeAfter, left' \subseteq freeBefore' \X freeAfter',
         next' \in Nat \ {0}, compared' \subseteq compared \cup left,
         round' \in {"references", "comparisons", "choices", "done"},
         round' # "comparisons" => left' = {},
         round' = "references" => \A i \in BeforeIndexes : next' <= i => i \in freeBefore'
  PROVE  Indexed'
<1>1. BeforeIndexes' = BeforeIndexes /\ AfterIndexes' = AfterIndexes
  BY DEF BeforeIndexes, AfterIndexes
<1>2. compared' \subseteq BeforeIndexes \X AfterIndexes
  BY DEF Indexed
<1>3. freeBefore' \subseteq BeforeIndexes /\ freeAfter' \subseteq AfterIndexes
  BY DEF Indexed
<1>4. combiner' \in Input
  BY DEF Indexed
<1>5. QED
  BY <1>1, <1>2, <1>3, <1>4 DEF Indexed

Kept == Indexed /\ Merging /\ PairsLeft

LEMMA ReferencesKeep ==
  ASSUME Kept, MatchByRef \/ NoSuchRef \/ EndReferences
  PROVE  Kept'
<1>1. Indexed /\ Merging /\ PairsLeft
  BY DEF Kept
<1>2. CASE MatchByRef
  <2>1. PICK j : j = Least(SameRef(next))
    OBVIOUS
  <2>2. /\ next \in freeBefore /\ j \in freeAfter /\ Match(next, j)
        /\ round = "references" /\ round' = round /\ combiner' = combiner
        /\ next' = next + 1 /\ left' = left /\ compared' = compared
    BY <1>1, <1>2, <2>1, RefMatch DEF MatchByRef
  <2>3. /\ Merging' /\ freeBefore' = freeBefore \ {next} /\ freeAfter' = freeAfter \ {j}
    BY <1>1, <2>2, MatchMerges
  <2>4. left = {} /\ next \in Nat
    BY <1>1, <2>2 DEF Indexed
  <2>5. \A i \in BeforeIndexes : next + 1 <= i => i \in freeBefore'
    <3>1. BeforeIndexes \subseteq Nat
      BY <1>1, Sizes DEF Indexed
    <3>2. \A i \in BeforeIndexes : next <= i => i \in freeBefore
      BY <1>1, <2>2 DEF Indexed
    <3>3. QED
      BY <2>3, <2>4, <3>1, <3>2
  <2>6. Indexed'
    BY <1>1, <2>2, <2>3, <2>4, <2>5, IndexedStep
  <2>7. PairsLeft'
    BY <2>2 DEF PairsLeft
  <2>8. QED
    BY <2>3, <2>6, <2>7 DEF Kept
<1>3. CASE NoSuchRef
  <2>1. /\ round = "references" /\ next' = next + 1
        /\ UNCHANGED <<combiner, round, left, freeBefore, freeAfter, compared, merged>>
    BY <1>3 DEF NoSuchRef
  <2>2. \A i \in BeforeIndexes : next + 1 <= i => i \in freeBefore
    <3>1. BeforeIndexes \subseteq Nat /\ next \in Nat
      BY <1>1, Sizes DEF Indexed
    <3>2. QED
      BY <1>1, <2>1, <3>1 DEF Indexed
  <2>3. Indexed'
    BY <1>1, <2>1, <2>2 DEF Indexed, BeforeIndexes, AfterIndexes
  <2>4. QED
    BY <1>1, <2>1, <2>3 DEF Kept, Merging, PairsLeft, BeforeIndexes, AfterIndexes
<1>4. CASE EndReferences
  <2>1. /\ round = "references" /\ round' = "comparisons" /\ left' = freeBefore \X freeAfter
        /\ UNCHANGED <<combiner, next, freeBefore, freeAfter, compared, merged>>
    BY <1>4 DEF EndReferences
  <2>2. Indexed'
    BY <1>1, <2>1 DEF Indexed, BeforeIndexes, AfterIndexes
  <2>3. QED
    BY <1>1, <2>1, <2>2 DEF Kept, Merging, PairsLeft, BeforeIndexes, AfterIndexes
<1>5. QED
  BY <1>2, <1>3, <1>4

LEMMA CompareKeeps ==
  ASSUME Kept, NEW c \in left, Compare(c)
  PROVE  Kept'
<1>1. Indexed /\ Merging /\ PairsLeft
  BY DEF Kept
<1>2. PICK i \in freeBefore, j \in freeAfter : c = <<i, j>>
  BY <1>1 DEF Indexed
<1>3. /\ round = "comparisons" /\ UNCHANGED <<combiner, round, next>>
      /\ left \subseteq freeBefore \X freeAfter
      /\ freeBefore \X freeAfter \subseteq left \cup compared
  BY <1>1 DEF Compare, Indexed, PairsLeft
<1>4. CASE Reported(PairAt(c[1], c[2])) = {}
  <2>1. /\ Match(i, j) /\ left' = left \ Involving(c) /\ compared' = compared
    BY <1>2, <1>4 DEF Compare
  <2>2. Merging' /\ freeBefore' = freeBefore \ {i} /\ freeAfter' = freeAfter \ {j}
    BY <1>1, <1>3, <2>1, MatchMerges
  <2>3. \A x \in left : x \in left' <=> x[1] # i /\ x[2] # j
    BY <1>2, <2>1 DEF Involving
  <2>4. left' \subseteq freeBefore' \X freeAfter'
    BY <1>3, <2>1, <2>2, <2>3
  <2>5. freeBefore' \X freeAfter' \subseteq left' \cup compared'
    BY <1>3, <2>1, <2>2, <2>3
  <2>6. Indexed'
    BY <1>1, <1>3, <2>1, <2>2, <2>4, IndexedStep DEF Indexed
  <2>7. QED
    BY <1>3, <2>2, <2>5, <2>6 DEF Kept, PairsLeft
<1>5. CASE Reported(PairAt(c[1], c[2])) # {}
  <2>1. /\ compared' = compared \cup {c} /\ left' = left \ {c}
        /\ UNCHANGED <<freeBefore, freeAfter, merged>>
    BY <1>5 DEF Compare
  <2>2. Indexed'
    BY <1>1, <1>3, <2>1, IndexedStep DEF Indexed
  <2>3. QED
    BY <1>1, <1>3, <2>1, <2>2 DEF Kept, Merging, PairsLeft, BeforeIndexes, AfterIndexes
<1>6. QED
  BY <1>4, <1>5

LEMMA ChoiceKeeps ==
  ASSUME Kept, EndComparisons \/ \E c \in compared : Choose(c)
  PROVE  Kept'
<1>1. Indexed /\ Merging /\ PairsLeft
  BY DEF Kept
<1>2. CASE EndComparisons
  <2>1. /\ round = "comparisons" /\ round' = "choices" /\ left = {} /\ left' = {}
        /\ UNCHANGED <<combiner, next, freeBefore, freeAfter, compared, merged>>
    BY <1>2 DEF EndComparisons
  <2>2. Indexed'
    BY <1>1, <2>1 DEF Indexed, BeforeIndexes, AfterIndexes
  <2>3. QED
    BY <1>1, <2>1, <2>2 DEF Kept, Merging, PairsLeft, BeforeIndexes, AfterIndexes
<1>3. ASSUME NEW c \in compared, Choose(c) PROVE Kept'
  <2>1. PICK i \in BeforeIndexes, j \in AfterIndexes : c = <<i, j>>
    BY <1>1 DEF Indexed
  <2>2. /\ round = "choices" /\ UNCHANGED <<combiner, round, next, left, compared>>
        /\ i \in freeBefore /\ j \in freeAfter /\ Match(i, j)
    BY <1>3, <2>1 DEF Choose, Open
  <2>3. Merging' /\ freeBefore' = freeBefore \ {i} /\ freeAfter' = freeAfter \ {j}
    BY <1>1, <2>2, MatchMerges
  <2>4. left = {} /\ next \in Nat \ {0}
    BY <1>1, <2>2 DEF Indexed
  <2>5. Indexed'
    BY <1>1, <2>2, <2>3, <2>4, IndexedStep
  <2>6. PairsLeft'
    BY <1>1, <2>2, <2>3 DEF PairsLeft
  <2>7. QED
    BY <2>3, <2>5, <2>6 DEF Kept
<1>4. QED
  BY <1>2, <1>3

LEMMA FinishKeeps ==
  ASSUME Kept, Finish
  PROVE  Kept'
<1>1. Indexed /\ Merging /\ PairsLeft
  BY DEF Kept
<1>2. /\ round = "choices" /\ round' = "done" /\ Open = {}
      /\ UNCHANGED <<combiner, next, left, freeBefore, freeAfter, compared>>
  BY DEF Finish
<1>3. freeBefore = {} \/ freeAfter = {}
  <2>1. ASSUME NEW i \in freeBefore, NEW j \in freeAfter PROVE FALSE
    <3>1. <<i, j>> \in compared
      BY <1>1, <1>2 DEF PairsLeft
    <3>2. <<i, j>> \in Open
      BY <3>1 DEF Open
    <3>3. QED
      BY <1>2, <3>2
  <2>2. QED
    BY <2>1
<1>4. Indexed'
  BY <1>1, <1>2 DEF Indexed, BeforeIndexes, AfterIndexes
<1>5. QED
  BY <1>2, <1>3, <1>4 DEF Kept, Merging, PairsLeft

LEMMA KeptStep == Kept /\ [Next]_vars => Kept'
<1>1. ASSUME Kept, UNCHANGED vars PROVE Kept'
  BY <1>1 DEF vars, Kept, Indexed, Merging, PairsLeft, BeforeIndexes, AfterIndexes
<1>2. QED
  BY <1>1, ReferencesKeep, CompareKeeps, ChoiceKeeps, FinishKeeps DEF Next

LEMMA KeptInit == Init => Kept
<1> SUFFICES ASSUME Init PROVE Kept
  OBVIOUS
<1>1. Indexed
  BY Sizes DEF Init, Indexed, BeforeIndexes, AfterIndexes
<1>2. QED
  BY <1>1 DEF Init, Kept, Merging, PairsLeft, BeforeIndexes, AfterIndexes

(***************************************************************************)
(* However the rounds consume the options, the resolver never leaves an    *)
(* option of each side unmatched: no option is told removed while another  *)
(* is told added.                                                          *)
(***************************************************************************)
THEOREM NoneLeftOver == Spec => []NothingLeftOver
<1>1. Kept => NothingLeftOver
  BY DEF Kept, PairsLeft, NothingLeftOver, Done
<1>2. QED
  BY <1>1, KeptInit, KeptStep, PTL DEF Spec

-----------------------------------------------------------------------------
(***************************************************************************)
(* Where the removed options are put.                                      *)
(***************************************************************************)
LEMMA IntervalSize ==
  ASSUME NEW lo \in Int, NEW hi \in Int, lo <= hi + 1
  PROVE  IsFiniteSet(lo .. hi) /\ Cardinality(lo .. hi) = hi - lo + 1
<1>1. IsFiniteSet(lo .. hi) /\ Cardinality(lo .. hi) = IF lo > hi THEN 0 ELSE hi - lo + 1
  BY FS_Interval
<1>2. QED
  BY <1>1

FreeBelow(i) == {k \in freeBefore : k < i}

\* The free indexes are counted from the end of after, a removed option for each.
LEMMA FreePlaces ==
  ASSUME combiner \in Input, freeBefore \subseteq BeforeIndexes, combiner.after # <<>>,
         NEW m, m = Len(combiner.after)
  PROVE  /\ m \in Nat /\ m >= 1
         /\ FreeIndexes(AfterIndexes) = m + 1 .. m + Len(combiner.before)
         /\ \A i \in freeBefore :
              /\ Cardinality(FreeBelow(i)) \in Nat
              /\ PlaceOf(i, FreeIndexes(AfterIndexes)) = m + 1 + Cardinality(FreeBelow(i))
<1> DEFINE b == Len(combiner.before)
           free == FreeIndexes(AfterIndexes)
<1>1. /\ b \in Nat /\ m \in Nat /\ BeforeIndexes = 1 .. b /\ AfterIndexes = 1 .. m
      /\ combiner \in Combiners /\ IsFiniteSet(BeforeIndexes)
  BY Sizes
<1>2. m >= 1
  <2>1. combiner.after \in Seq(Option)
    BY <1>1 DEF Combiners
  <2>2. m # 0
    BY <2>1
  <2>3. QED
    BY <1>1, <2>2
<1> HIDE DEF b
<1>3. free = m + 1 .. m + b
  <2>1. Greatest(1 .. m) = m
    <3>1. 1 .. m \in SUBSET Nat /\ m \in 1 .. m /\ \A x \in 1 .. m : x <= m
      BY <1>1, <1>2
    <3>2. QED
      BY <3>1, GreatestIsGreatest
  <2>2. free = (1 .. m + b) \ (1 .. m)
    <3>1. AfterIndexes # {} /\ Greatest(AfterIndexes) = m
      BY <1>1, <1>2, <2>1
    <3>2. free = (1 .. Greatest(AfterIndexes) + b) \ AfterIndexes
      BY <3>1 DEF FreeIndexes, b
    <3> HIDE DEF free
    <3>3. QED
      BY <1>1, <3>1, <3>2
  <2>3. \A x : x \in (1 .. m + b) \ (1 .. m) <=> x \in m + 1 .. m + b
    BY <1>1
  <2>4. QED
    BY <2>2, <2>3
<1>4. ASSUME NEW i \in freeBefore
      PROVE  /\ Cardinality(FreeBelow(i)) \in Nat
             /\ PlaceOf(i, free) = m + 1 + Cardinality(FreeBelow(i))
  <2>1. i \in 1 .. b /\ i \in Nat
    BY <1>1
  <2>2. /\ IsFiniteSet(FreeBelow(i)) /\ Cardinality(FreeBelow(i)) \in Nat
        /\ Cardinality(FreeBelow(i)) <= i - 1
    <3>1. FreeBelow(i) \subseteq 1 .. i - 1
      BY <1>1, <2>1 DEF FreeBelow
    <3>2. IsFiniteSet(1 .. i - 1) /\ Cardinality(1 .. i - 1) = i - 1
      <4>1. PICK hi \in Int : hi = i - 1 /\ 1 <= hi + 1
        BY <2>1
      <4>2. IsFiniteSet(1 .. hi) /\ Cardinality(1 .. hi) = hi - 1 + 1
        BY <4>1, IntervalSize
      <4>3. QED
        BY <4>1, <4>2
    <3>3. QED
      BY <3>1, <3>2, FS_Subset, FS_CardinalityType
  <2>3. PICK n \in Nat : n = Cardinality(FreeBelow(i)) /\ n <= b - 1
    BY <1>1, <2>1, <2>2
  <2>4. ASSUME NEW x \in free
        PROVE  Cardinality({y \in free : y < x}) = x - m - 1 /\ x \in Int
    <3>1. x \in Int /\ m + 1 <= x /\ x <= m + b
      BY <1>1, <1>3
    <3>2. {y \in free : y < x} = m + 1 .. x - 1
      <4>1. \A y : y \in {z \in free : z < x} <=> y \in m + 1 .. x - 1
        BY <1>1, <1>3, <3>1
      <4>2. QED
        BY <4>1
    <3>3. Cardinality(m + 1 .. x - 1) = x - m - 1
      <4>1. PICK lo, hi \in Int : lo = m + 1 /\ hi = x - 1 /\ lo <= hi + 1
        BY <1>1, <3>1
      <4>2. Cardinality(lo .. hi) = hi - lo + 1
        BY <4>1, IntervalSize
      <4>3. hi - lo + 1 = x - m - 1
        BY <1>1, <3>1, <4>1
      <4>4. QED
        BY <4>1, <4>2, <4>3
    <3>4. QED
      BY <3>1, <3>2, <3>3
  <2>5. {x \in free : Cardinality({y \in free : y < x}) = n} = {m + 1 + n}
    <3>1. m + 1 + n \in free
      BY <1>1, <1>3, <2>3
    <3> HIDE DEF free
    <3>2. ASSUME NEW x \in free
          PROVE  Cardinality({y \in free : y < x}) = n <=> x = m + 1 + n
      <4>1. Cardinality({y \in free : y < x}) = x - m - 1 /\ x \in Int
        BY <2>4
      <4>2. x \in Int /\ m \in Int /\ n \in Int
        BY <1>1, <4>1
      <4>3. (x - m - 1 = n) => (x = m + 1 + n)
        BY <4>2
      <4>4. ASSUME x = m + 1 + n PROVE x - m - 1 = n
        <5>1. \A v, w \in Int : (v + 1 + w) - v - 1 = w
          OBVIOUS
        <5>2. (m + 1 + n) - m - 1 = n
          BY <4>2, <5>1
        <5>3. QED
          BY <4>4, <5>2
      <4>5. QED
        BY <4>1, <4>3, <4>4
    <3>3. QED
      BY <3>1, <3>2
  <2> HIDE DEF free
  <2>6. Least({m + 1 + n}) = m + 1 + n
    <3>1. {m + 1 + n} \in SUBSET Nat /\ {m + 1 + n} # {}
      BY <1>1
    <3>2. Least({m + 1 + n}) \in {m + 1 + n}
      BY <3>1, LeastIsLeast
    <3>3. QED
      BY <3>2
  <2>7. PlaceOf(i, free) = m + 1 + n
    BY <2>3, <2>5, <2>6 DEF PlaceOf, FreeBelow
  <2>8. QED
    BY <2>2, <2>3, <2>7
<1>5. QED
  BY <1>1, <1>2, <1>3, <1>4 DEF b

\* Two removed options have two places.
LEMMA PlacesApart ==
  ASSUME freeBefore \subseteq Nat, IsFiniteSet(freeBefore),
         NEW i \in freeBefore, NEW k \in freeBefore, i < k
  PROVE  Cardinality(FreeBelow(i)) < Cardinality(FreeBelow(k))
<1>1. FreeBelow(i) \cup {i} \subseteq FreeBelow(k) /\ i \notin FreeBelow(i)
  <2>1. i \in Nat /\ k \in Nat /\ ~ (i < i) /\ \A l \in freeBefore : l \in Nat /\ (l < i => l < k)
    OBVIOUS
  <2>2. QED
    BY <2>1 DEF FreeBelow
<1>2. IsFiniteSet(FreeBelow(i)) /\ IsFiniteSet(FreeBelow(k))
  BY FS_Subset DEF FreeBelow
<1>3. Cardinality(FreeBelow(i) \cup {i}) = Cardinality(FreeBelow(i)) + 1
  BY <1>1, <1>2, FS_AddElement
<1>4. Cardinality(FreeBelow(i) \cup {i}) <= Cardinality(FreeBelow(k))
  BY <1>1, <1>2, FS_Subset
<1>5. Cardinality(FreeBelow(i)) \in Nat /\ Cardinality(FreeBelow(k)) \in Nat
  BY <1>2, FS_CardinalityType
<1>6. QED
  BY <1>3, <1>4, <1>5

\* What the merged array holds in the end, when after is not empty.
LEMMA FinalArray ==
  ASSUME Kept, Finish, combiner.after # <<>>
  PROVE  \E place :
           /\ \A i \in freeBefore : place[i] \notin AfterIndexes
           /\ \A i, k \in freeBefore : place[i] = place[k] => i = k
           /\ DOMAIN merged' = AfterIndexes \cup {place[i] : i \in freeBefore}
           /\ \A i \in freeBefore : merged'[place[i]] = [before |-> i, after |-> None]
           /\ \A x \in freeAfter : merged'[x] = [before |-> None, after |-> x]
           /\ \A x \in AfterIndexes \ freeAfter : merged'[x] = merged[x]
<1>1. /\ combiner \in Input /\ freeBefore \subseteq BeforeIndexes /\ freeAfter \subseteq AfterIndexes
      /\ DOMAIN merged = AfterIndexes \ freeAfter
      /\ BeforeIndexes \subseteq Nat /\ AfterIndexes \subseteq Nat /\ IsFiniteSet(BeforeIndexes)
  BY Sizes DEF Kept, Indexed, Merging, Finish
<1>2. PICK used : used = DOMAIN merged \cup freeAfter
  OBVIOUS
<1>3. used = AfterIndexes
  BY <1>1, <1>2
<1>4. PICK place : place = [i \in freeBefore |-> PlaceOf(i, FreeIndexes(used))]
  OBVIOUS
<1>5. PICK m : m = Len(combiner.after)
  OBVIOUS
<1>6. /\ m \in Nat /\ AfterIndexes = 1 .. m
      /\ \A i \in freeBefore : /\ Cardinality(FreeBelow(i)) \in Nat
                               /\ place[i] = m + 1 + Cardinality(FreeBelow(i))
  BY <1>1, <1>3, <1>4, <1>5, FreePlaces, Sizes
<1>7. \A i \in freeBefore : place[i] \in Nat /\ place[i] \notin AfterIndexes
  <2>1. \A n \in Nat : m + 1 + n \in Nat /\ m + 1 + n \notin 1 .. m
    BY <1>6
  <2>2. QED
    BY <1>6, <2>1
<1>8. ASSUME NEW i \in freeBefore, NEW k \in freeBefore, place[i] = place[k]
      PROVE  i = k
  <2>1. i \in Nat /\ k \in Nat /\ freeBefore \subseteq Nat /\ IsFiniteSet(freeBefore)
    BY <1>1, FS_Subset
  <2>2. PICK u, v \in Nat : /\ u = Cardinality(FreeBelow(i)) /\ v = Cardinality(FreeBelow(k))
                            /\ m + 1 + u = m + 1 + v
    BY <1>6, <1>8
  <2>3. u = v
    BY <1>6, <2>2
  <2>4. ~ (i < k)
    <3>1. i < k => u < v
      BY <2>1, <2>2, PlacesApart
    <3>2. QED
      BY <2>3, <3>1
  <2>5. ~ (k < i)
    <3>1. k < i => v < u
      BY <2>1, <2>2, PlacesApart
    <3>2. QED
      BY <2>3, <3>1
  <2>6. QED
    BY <2>1, <2>4, <2>5
<1>9. \A i \in freeBefore : Greatest({k \in freeBefore : place[k] = place[i]}) = i
  <2>1. ASSUME NEW i \in freeBefore
        PROVE  Greatest({k \in freeBefore : place[k] = place[i]}) = i
    <3>1. {k \in freeBefore : place[k] = place[i]} = {i}
      BY <1>8
    <3>2. {i} \in SUBSET Nat /\ i \in {i} /\ \A x \in {i} : x <= i
      BY <1>1
    <3>3. Greatest({i}) = i
      BY <3>2, GreatestIsGreatest
    <3>4. QED
      BY <3>1, <3>3
  <2>2. QED
    BY <2>1
<1>10. merged' = [x \in used \cup {place[i] : i \in freeBefore} |->
                    IF x \in {place[i] : i \in freeBefore}
                    THEN [before |-> Greatest({i \in freeBefore : place[i] = x}), after |-> None]
                    ELSE IF x \in freeAfter THEN [before |-> None, after |-> x] ELSE merged[x]]
  BY <1>2, <1>4 DEF Finish
<1>11. /\ DOMAIN merged' = AfterIndexes \cup {place[i] : i \in freeBefore}
       /\ \A i \in freeBefore :
            merged'[place[i]] =
              [before |-> Greatest({k \in freeBefore : place[k] = place[i]}), after |-> None]
       /\ \A x \in freeAfter : merged'[x] = [before |-> None, after |-> x]
       /\ \A x \in AfterIndexes \ freeAfter : merged'[x] = merged[x]
  BY <1>1, <1>3, <1>7, <1>10
<1>12. \A i \in freeBefore : merged'[place[i]] = [before |-> i, after |-> None]
  BY <1>9, <1>11
<1>13. /\ \A i \in freeBefore : place[i] \notin AfterIndexes
       /\ \A i, k \in freeBefore : place[i] = place[k] => i = k
       /\ DOMAIN merged' = AfterIndexes \cup {place[i] : i \in freeBefore}
       /\ \A i \in freeBefore : merged'[place[i]] = [before |-> i, after |-> None]
       /\ \A x \in freeAfter : merged'[x] = [before |-> None, after |-> x]
       /\ \A x \in AfterIndexes \ freeAfter : merged'[x] = merged[x]
  BY <1>7, <1>8, <1>11, <1>12
<1>14. QED
  BY <1>13

LEMMA FinishKeepsOptions ==
  ASSUME Kept, Finish
  PROVE  OptionsKept'
<1> SUFFICES ASSUME combiner.after # <<>>
             PROVE  /\ \A i \in BeforeIndexes :
                         Cardinality({x \in DOMAIN merged' : merged'[x].before = i}) = 1
                    /\ \A j \in AfterIndexes : j \in DOMAIN merged' /\ merged'[j].after = j
                    /\ \A x \in DOMAIN merged' : merged'[x].after \in {x, None}
  BY DEF OptionsKept, Finish, BeforeIndexes, AfterIndexes
<1>1. PICK place :
           /\ \A i \in freeBefore : place[i] \notin AfterIndexes
           /\ \A i, k \in freeBefore : place[i] = place[k] => i = k
           /\ DOMAIN merged' = AfterIndexes \cup {place[i] : i \in freeBefore}
           /\ \A i \in freeBefore : merged'[place[i]] = [before |-> i, after |-> None]
           /\ \A x \in freeAfter : merged'[x] = [before |-> None, after |-> x]
           /\ \A x \in AfterIndexes \ freeAfter : merged'[x] = merged[x]
  BY FinalArray
<1>2. /\ DOMAIN merged = AfterIndexes \ freeAfter
      /\ \A j \in DOMAIN merged :
            merged[j].after = j /\ merged[j].before \in BeforeIndexes \ freeBefore
      /\ \A i \in BeforeIndexes \ freeBefore : \E j \in DOMAIN merged : merged[j].before = i
      /\ \A j, l \in DOMAIN merged : merged[j].before = merged[l].before => j = l
      /\ freeAfter \subseteq AfterIndexes /\ freeBefore \subseteq BeforeIndexes
      /\ None \notin BeforeIndexes
  BY Sizes DEF Kept, Indexed, Merging, Finish
<1>3. ASSUME NEW x \in DOMAIN merged'
      PROVE  \/ \E i \in freeBefore : x = place[i] /\ merged'[x] = [before |-> i, after |-> None]
             \/ x \in freeAfter /\ merged'[x] = [before |-> None, after |-> x]
             \/ x \in DOMAIN merged /\ merged'[x] = merged[x]
  BY <1>1, <1>2
<1>4. \A j \in AfterIndexes : j \in DOMAIN merged' /\ merged'[j].after = j
  <2>1. ASSUME NEW j \in AfterIndexes PROVE j \in DOMAIN merged' /\ merged'[j].after = j
    <3>1. j \in DOMAIN merged'
      BY <1>1
    <3>2. CASE j \in freeAfter
      <4>1. merged'[j] = [before |-> None, after |-> j]
        BY <1>1, <3>2
      <4>2. QED
        BY <3>1, <4>1
    <3>3. CASE j \notin freeAfter
      <4>1. merged'[j] = merged[j] /\ j \in DOMAIN merged
        BY <1>1, <1>2, <3>3
      <4>2. QED
        BY <1>2, <3>1, <4>1
    <3>4. QED
      BY <3>2, <3>3
  <2>2. QED
    BY <2>1
<1>5. \A x \in DOMAIN merged' : merged'[x].after \in {x, None}
  <2>1. ASSUME NEW x \in DOMAIN merged' PROVE merged'[x].after \in {x, None}
    BY <1>2, <1>3
  <2>2. QED
    BY <2>1
<1>6. ASSUME NEW i \in BeforeIndexes
      PROVE  \E y : {x \in DOMAIN merged' : merged'[x].before = i} = {y}
  <2>1. CASE i \in freeBefore
    <3>1. place[i] \in DOMAIN merged' /\ merged'[place[i]].before = i
      <4>1. merged'[place[i]] = [before |-> i, after |-> None]
        BY <1>1, <2>1
      <4>2. place[i] \in DOMAIN merged'
        BY <1>1, <2>1
      <4>3. QED
        BY <4>1, <4>2
    <3>2. ASSUME NEW x \in DOMAIN merged', merged'[x].before = i
          PROVE  x = place[i]
      BY <1>2, <1>3, <2>1, <3>2
    <3>3. QED
      BY <3>1, <3>2
  <2>2. CASE i \notin freeBefore
    <3>1. PICK j \in DOMAIN merged : merged[j].before = i
      BY <1>2, <2>2
    <3>2. j \in DOMAIN merged' /\ merged'[j] = merged[j]
      BY <1>1, <1>2
    <3>3. ASSUME NEW x \in DOMAIN merged', merged'[x].before = i
          PROVE  x = j
      BY <1>2, <1>3, <2>2, <3>1, <3>3
    <3>4. QED
      BY <3>1, <3>2, <3>3
  <2>3. QED
    BY <2>1, <2>2
<1>7. \A i \in BeforeIndexes : Cardinality({x \in DOMAIN merged' : merged'[x].before = i}) = 1
  BY <1>6, FS_Singleton
<1>8. QED
  BY <1>4, <1>5, <1>7

(***************************************************************************)
(* Every option of both combiners is in the merged one exactly once, the   *)
(* options of after at their own index, however many there are: the safe   *)
(* buffer always leaves a free index for a removed option.                 *)
(***************************************************************************)
THEOREM NoOptionLost == Spec => []OptionsKept
<1>1. Init => OptionsKept
  BY DEF Init, OptionsKept, Done
<1>2. Kept /\ OptionsKept /\ [Next]_vars => OptionsKept'
  <2>1. ASSUME Kept, Next PROVE OptionsKept'
    <3>1. CASE Finish
      BY <2>1, <3>1, FinishKeepsOptions
    <3>2. CASE ~Finish
      <4>1. round' # "done"
        BY <2>1, <3>2 DEF Next, MatchByRef, NoSuchRef, EndReferences, Compare, EndComparisons, Choose
      <4>2. QED
        BY <4>1 DEF OptionsKept, Done
    <3>3. QED
      BY <3>1, <3>2
  <2>2. ASSUME OptionsKept, UNCHANGED vars PROVE OptionsKept'
    BY <2>2 DEF OptionsKept, Done, vars
  <2>3. QED
    BY <2>1, <2>2
<1>3. QED
  BY <1>1, <1>2, KeptInit, KeptStep, PTL DEF Spec

-----------------------------------------------------------------------------
(***************************************************************************)
(* What a step does to the matched pairs.                                  *)
(***************************************************************************)
Matches(i, j) ==
  /\ i \in freeBefore /\ j \in freeAfter /\ round # "done"
  /\ freeBefore' = freeBefore \ {i} /\ freeAfter' = freeAfter \ {j}
  /\ Matched' = Matched \cup {<<i, j>>} /\ UNCHANGED <<combiner, round>>

MatchesNone == Matched' = Matched /\ UNCHANGED <<combiner, freeBefore, freeAfter>>

\* Removed and added options are not taken for matched ones.
LEMMA FinishKeepsMatched ==
  ASSUME Kept, Finish
  PROVE  Matched' = Matched
<1>1. /\ combiner \in Input /\ freeAfter \subseteq AfterIndexes
      /\ DOMAIN merged = AfterIndexes \ freeAfter
  BY DEF Kept, Indexed, Merging, Finish
<1>2. CASE combiner.after # <<>>
  <2>1. PICK place :
           /\ \A i \in freeBefore : place[i] \notin AfterIndexes
           /\ DOMAIN merged' = AfterIndexes \cup {place[i] : i \in freeBefore}
           /\ \A i \in freeBefore : merged'[place[i]] = [before |-> i, after |-> None]
           /\ \A x \in freeAfter : merged'[x] = [before |-> None, after |-> x]
           /\ \A x \in AfterIndexes \ freeAfter : merged'[x] = merged[x]
    BY <1>2, FinalArray
  <2>2. ASSUME NEW x \in DOMAIN merged', merged'[x].before # None, merged'[x].after # None
        PROVE  x \in DOMAIN merged /\ merged'[x] = merged[x]
    <3>1. ASSUME NEW i \in freeBefore, x = place[i] PROVE FALSE
      <4>1. merged'[x] = [before |-> i, after |-> None]
        BY <2>1, <3>1
      <4>2. QED
        BY <2>2, <4>1
    <3>2. ASSUME x \in freeAfter PROVE FALSE
      <4>1. merged'[x] = [before |-> None, after |-> x]
        BY <2>1, <3>2
      <4>2. QED
        BY <2>2, <4>1
    <3>3. CASE x \in AfterIndexes \ freeAfter
      BY <1>1, <2>1, <3>3
    <3>4. QED
      BY <2>1, <3>1, <3>2, <3>3
  <2>3. \A x \in DOMAIN merged : x \in DOMAIN merged' /\ merged'[x] = merged[x]
    BY <1>1, <2>1
  <2>4. QED
    BY <2>2, <2>3 DEF Matched
<1>3. CASE combiner.after = <<>>
  <2>1. AfterIndexes = {} /\ DOMAIN merged = {} /\ freeAfter = {}
    BY <1>1, <1>3, Sizes
  <2>2. PICK places : /\ DOMAIN merged' = places
                      /\ \A x \in places : merged'[x].after = None
    BY <2>1 DEF Finish
  <2>3. Matched = {} /\ Matched' = {}
    BY <2>1, <2>2 DEF Matched
  <2>4. QED
    BY <2>3
<1>4. QED
  BY <1>2, <1>3

Quiet ==
  \/ NoSuchRef \/ EndReferences \/ EndComparisons \/ Finish
  \/ \E c \in left : Compare(c) /\ Reported(PairAt(c[1], c[2])) # {}

LEMMA Steps ==
  ASSUME Kept, Next
  PROVE  \/ \E j : MatchByRef /\ Matches(next, j) /\ j = Least(SameRef(next))
         \/ \E i, j : /\ <<i, j>> \in left /\ Compare(<<i, j>>) /\ Matches(i, j)
                      /\ Reported(PairAt(i, j)) = {}
         \/ \E i, j : <<i, j>> \in compared /\ Choose(<<i, j>>) /\ Matches(i, j)
         \/ Quiet /\ MatchesNone
<1>1. Indexed /\ Merging
  BY DEF Kept
<1>2. CASE MatchByRef
  <2>1. PICK j : j = Least(SameRef(next))
    OBVIOUS
  <2>2. /\ next \in freeBefore /\ j \in freeAfter /\ Match(next, j)
        /\ round = "references" /\ round' = round /\ combiner' = combiner
    BY <1>1, <1>2, <2>1, RefMatch DEF MatchByRef
  <2>3. Matches(next, j)
    BY <1>1, <2>2, MatchMerges DEF Matches
  <2>4. QED
    BY <1>2, <2>1, <2>3
<1>3. ASSUME NEW c \in left, Compare(c), Reported(PairAt(c[1], c[2])) = {}
      PROVE  \E i, j : /\ <<i, j>> \in left /\ Compare(<<i, j>>) /\ Matches(i, j)
                       /\ Reported(PairAt(i, j)) = {}
  <2>1. PICK i \in freeBefore, j \in freeAfter : c = <<i, j>>
    BY <1>1 DEF Indexed
  <2>2. /\ Match(i, j) /\ round = "comparisons" /\ round' = round /\ combiner' = combiner
        /\ Reported(PairAt(i, j)) = {} /\ Compare(<<i, j>>)
    BY <1>3, <2>1 DEF Compare
  <2>3. Matches(i, j)
    BY <1>1, <2>2, MatchMerges DEF Matches
  <2>4. QED
    BY <2>1, <2>2, <2>3
<1>4. ASSUME NEW c \in compared, Choose(c)
      PROVE  \E i, j : <<i, j>> \in compared /\ Choose(<<i, j>>) /\ Matches(i, j)
  <2>1. PICK i \in BeforeIndexes, j \in AfterIndexes : c = <<i, j>>
    BY <1>1 DEF Indexed
  <2>2. /\ Match(i, j) /\ round = "choices" /\ round' = round /\ combiner' = combiner
        /\ i \in freeBefore /\ j \in freeAfter /\ Choose(<<i, j>>)
    BY <1>4, <2>1 DEF Choose, Open
  <2>3. Matches(i, j)
    BY <1>1, <2>2, MatchMerges DEF Matches
  <2>4. QED
    BY <2>1, <2>2, <2>3
<1>5. CASE Quiet
  <2>1. CASE Finish
    BY <1>5, <2>1, FinishKeepsMatched DEF MatchesNone, Finish
  <2>2. CASE ~Finish
    <3>1. UNCHANGED <<combiner, freeBefore, freeAfter, merged>>
      BY <1>5, <2>2 DEF Quiet, NoSuchRef, EndReferences, EndComparisons, Compare
    <3>2. QED
      BY <1>5, <3>1 DEF MatchesNone, Matched
  <2>3. QED
    BY <2>1, <2>2
<1>6. QED
  BY <1>2, <1>3, <1>4, <1>5 DEF Next, Quiet

-----------------------------------------------------------------------------
(***************************************************************************)
(* References.                                                             *)
(***************************************************************************)
LEMMA RefSets ==
  ASSUME Kept, round # "done", NEW r
  PROVE  /\ IsFiniteSet(OfBoth(r)) /\ IsFiniteSet(OfBefore(r)) /\ IsFiniteSet(OfAfter(r))
         /\ OfBoth(r) \subseteq (BeforeIndexes \ freeBefore) \X (AfterIndexes \ freeAfter)
<1>1. IsFiniteSet(BeforeIndexes) /\ IsFiniteSet(AfterIndexes)
  BY Sizes DEF Kept, Indexed
<1>2. OfBoth(r) \subseteq (BeforeIndexes \ freeBefore) \X (AfterIndexes \ freeAfter)
  BY MatchedPairs DEF Kept, OfBoth
<1>3. IsFiniteSet(BeforeIndexes \X AfterIndexes)
  BY <1>1, FS_Product
<1>4. OfBoth(r) \subseteq BeforeIndexes \X AfterIndexes
  BY <1>2
<1>5. IsFiniteSet(OfBoth(r))
  BY <1>3, <1>4, FS_Subset
<1>6. IsFiniteSet(OfBefore(r)) /\ IsFiniteSet(OfAfter(r))
  BY <1>1, FS_Subset DEF OfBefore, OfAfter
<1>7. QED
  BY <1>2, <1>5, <1>6

LEMMA MatchRefs ==
  ASSUME NEW i, NEW j, Matches(i, j), NEW r
  PROVE  /\ OfBefore(r)' = OfBefore(r) /\ OfAfter(r)' = OfAfter(r)
         /\ i \in OfBefore(r) /\ j \in OfAfter(r) => OfBoth(r)' = OfBoth(r) \cup {<<i, j>>}
         /\ ~ (i \in OfBefore(r) /\ j \in OfAfter(r)) => OfBoth(r)' = OfBoth(r)
<1>1. OfBefore(r)' = OfBefore(r) /\ OfAfter(r)' = OfAfter(r)
  BY DEF Matches, OfBefore, OfAfter, BeforeIndexes, AfterIndexes
<1>2. OfBoth(r)' = {c \in Matched \cup {<<i, j>>} : c[1] \in OfBefore(r) /\ c[2] \in OfAfter(r)}
  BY <1>1 DEF Matches, OfBoth
<1>3. QED
  BY <1>1, <1>2 DEF OfBoth

LEMMA AddedOne ==
  ASSUME NEW S, NEW x, IsFiniteSet(S), x \notin S, NEW T, T = S \cup {x}
  PROVE  Cardinality(T) = Cardinality(S) + 1
BY FS_AddElement

\* A match by reference takes one option of the reference on either side.
LEMMA RefMatchUses ==
  ASSUME Kept, RefsUsedUp, MatchByRef, NEW j, Matches(next, j), j = Least(SameRef(next))
  PROVE  RefsUsedUp'
<1>1. /\ haveSameLastRef(PairAt(next, j)) /\ next \in freeBefore /\ j \in freeAfter
      /\ round = "references" /\ next' = next + 1 /\ next \in Nat
      /\ freeBefore \subseteq BeforeIndexes /\ freeAfter \subseteq AfterIndexes
      /\ BeforeIndexes \subseteq Nat
  BY RefMatch, Sizes DEF Kept, MatchByRef, Indexed
<1>2. /\ freeBefore' = freeBefore \ {next} /\ freeAfter' = freeAfter \ {j} /\ round' = round
  BY DEF Matches
<1>3. ASSUME NEW r \in Ref
      PROVE  next \in OfBefore(r) <=> j \in OfAfter(r)
  BY <1>1 DEF haveSameLastRef, PairAt, OfBefore, OfAfter
<1>4. ASSUME NEW r \in Ref
      PROVE  /\ Cardinality(OfBoth(r))' = Cardinality(OfBefore(r) \ freeBefore)'
             /\ Cardinality(OfBoth(r))' = Cardinality(OfAfter(r) \ freeAfter)'
  <2>1. /\ Cardinality(OfBoth(r)) = Cardinality(OfBefore(r) \ freeBefore)
        /\ Cardinality(OfBoth(r)) = Cardinality(OfAfter(r) \ freeAfter)
    BY <1>1 DEF RefsUsedUp
  <2>2. /\ IsFiniteSet(OfBoth(r)) /\ IsFiniteSet(OfBefore(r)) /\ IsFiniteSet(OfAfter(r))
        /\ OfBoth(r) \subseteq (BeforeIndexes \ freeBefore) \X (AfterIndexes \ freeAfter)
    BY <1>1, RefSets
  <2>3. OfBefore(r)' = OfBefore(r) /\ OfAfter(r)' = OfAfter(r)
    BY MatchRefs
  <2>4. CASE next \in OfBefore(r)
    <3>1. OfBoth(r)' = OfBoth(r) \cup {<<next, j>>} /\ j \in OfAfter(r)
      BY <1>3, <2>4, MatchRefs
    <3>2. <<next, j>> \notin OfBoth(r)
      BY <1>1, <2>2
    <3>3. Cardinality(OfBoth(r)') = Cardinality(OfBoth(r)) + 1
      BY <2>2, <3>1, <3>2, AddedOne
    <3>4. Cardinality(OfBefore(r) \ freeBefore') = Cardinality(OfBefore(r) \ freeBefore) + 1
      <4>1. /\ OfBefore(r) \ freeBefore' = (OfBefore(r) \ freeBefore) \cup {next}
            /\ next \notin OfBefore(r) \ freeBefore
        BY <1>1, <1>2, <2>4
      <4>2. IsFiniteSet(OfBefore(r) \ freeBefore)
        BY <2>2, FS_Subset
      <4>3. QED
        BY <4>1, <4>2, AddedOne
    <3>5. Cardinality(OfAfter(r) \ freeAfter') = Cardinality(OfAfter(r) \ freeAfter) + 1
      <4>1. /\ OfAfter(r) \ freeAfter' = (OfAfter(r) \ freeAfter) \cup {j}
            /\ j \notin OfAfter(r) \ freeAfter
        BY <1>1, <1>2, <3>1
      <4>2. IsFiniteSet(OfAfter(r) \ freeAfter)
        BY <2>2, FS_Subset
      <4>3. QED
        BY <4>1, <4>2, AddedOne
    <3>6. QED
      BY <2>1, <2>3, <3>3, <3>4, <3>5
  <2>5. CASE next \notin OfBefore(r)
    <3>1. OfBoth(r)' = OfBoth(r) /\ j \notin OfAfter(r)
      BY <1>3, <2>5, MatchRefs
    <3>2. /\ OfBefore(r) \ freeBefore' = OfBefore(r) \ freeBefore
          /\ OfAfter(r) \ freeAfter' = OfAfter(r) \ freeAfter
      BY <1>2, <2>5, <3>1
    <3>3. QED
      BY <2>1, <2>3, <3>1, <3>2
  <2>6. QED
    BY <2>4, <2>5
<1>5. ASSUME NEW r \in Ref
      PROVE  \/ OfAfter(r)' \cap freeAfter' = {}
             \/ \A i \in OfBefore(r)' : i < next' => i \notin freeBefore'
  <2>1. /\ OfBefore(r)' = OfBefore(r) /\ OfAfter(r)' = OfAfter(r)
        /\ OfBefore(r) \subseteq BeforeIndexes
    BY MatchRefs DEF OfBefore
  <2>2. CASE OfAfter(r) \cap freeAfter = {}
    BY <1>2, <2>1, <2>2
  <2>3. CASE \A i \in OfBefore(r) : i < next => i \notin freeBefore
    <3>1. \A i \in OfBefore(r) : i < next + 1 => i < next \/ i = next
      <4>1. next \in Nat /\ OfBefore(r) \subseteq Nat
        BY <1>1, <2>1
      <4>2. \A i, n \in Nat : i < n + 1 => i < n \/ i = n
        OBVIOUS
      <4>3. QED
        BY <4>1, <4>2
    <3>2. QED
      BY <1>1, <1>2, <2>1, <2>3, <3>1
  <2>4. QED
    BY <1>1, <2>2, <2>3 DEF RefsUsedUp
<1>6. QED
  BY <1>1, <1>2, <1>4, <1>5 DEF RefsUsedUp

\* The other matches are of options of which one side has none left of the reference.
LEMMA OtherMatchUses ==
  ASSUME RefsUsedUp, round # "references", NEW i, NEW j, Matches(i, j)
  PROVE  RefsUsedUp'
<1>1. /\ i \in freeBefore /\ j \in freeAfter /\ round' = round
      /\ freeBefore' \subseteq freeBefore /\ freeAfter' \subseteq freeAfter
  BY DEF Matches
<1>2. ASSUME NEW r \in Ref
      PROVE  /\ OfBefore(r)' = OfBefore(r) /\ OfAfter(r)' = OfAfter(r) /\ OfBoth(r)' = OfBoth(r)
             /\ OfAfter(r) \cap freeAfter' = {} \/ OfBefore(r) \cap freeBefore' = {}
  <2>1. OfAfter(r) \cap freeAfter = {} \/ OfBefore(r) \cap freeBefore = {}
    BY DEF RefsUsedUp
  <2>2. ~ (i \in OfBefore(r) /\ j \in OfAfter(r))
    BY <1>1, <2>1
  <2>3. QED
    BY <1>1, <2>1, <2>2, MatchRefs
<1>3. QED
  BY <1>1, <1>2 DEF RefsUsedUp


\* An option no free option of after refers to the same schema as.
LEMMA NoSuchRefUses ==
  ASSUME Kept, RefsUsedUp, NoSuchRef
  PROVE  RefsUsedUp'
<1>1. /\ round = "references" /\ next \in Nat /\ SameRef(next) = {} /\ next \in BeforeIndexes
      /\ next' = next + 1 /\ BeforeIndexes \subseteq Nat
      /\ UNCHANGED <<combiner, round, freeBefore, freeAfter, merged>>
  BY Sizes DEF Kept, Indexed, NoSuchRef, BeforeIndexes
<1>2. ASSUME NEW r \in Ref
      PROVE  \/ OfAfter(r) \cap freeAfter = {}
             \/ \A i \in OfBefore(r) : i < next + 1 => i \notin freeBefore
  <2>1. CASE next \in OfBefore(r)
    <3>1. ASSUME NEW j \in OfAfter(r) \cap freeAfter PROVE FALSE
      <4>1. haveSameLastRef(PairAt(next, j))
        BY <2>1, CombinerAssumption DEF OfBefore, OfAfter, haveSameLastRef, PairAt
      <4>2. QED
        BY <1>1, <4>1 DEF SameRef
    <3>2. QED
      BY <3>1
  <2>2. CASE next \notin OfBefore(r)
    <3>1. next \in Nat /\ OfBefore(r) \subseteq Nat
      BY <1>1 DEF OfBefore
    <3>2. \A i, n \in Nat : i < n + 1 => i < n \/ i = n
      OBVIOUS
    <3>3. \A i \in OfBefore(r) : i < next + 1 => i < next
      BY <2>2, <3>1, <3>2
    <3>4. QED
      BY <1>1, <3>3 DEF RefsUsedUp
  <2>3. QED
    BY <2>1, <2>2
<1>3. \A r : OfBefore(r)' = OfBefore(r) /\ OfAfter(r)' = OfAfter(r) /\ OfBoth(r)' = OfBoth(r)
  BY <1>1 DEF OfBefore, OfAfter, OfBoth, BeforeIndexes, AfterIndexes, Matched
<1>4. QED
  BY <1>1, <1>2, <1>3 DEF RefsUsedUp

\* When the round of references ends, the smaller side of a reference is matched.
LEMMA EndReferencesUses ==
  ASSUME Kept, RefsUsedUp, EndReferences
  PROVE  RefsUsedUp'
<1>1. /\ round = "references" /\ next \in Nat /\ next \notin BeforeIndexes /\ next # 0
      /\ round' = "comparisons" /\ BeforeIndexes = 1 .. Len(combiner.before)
      /\ Len(combiner.before) \in Nat
      /\ UNCHANGED <<combiner, freeBefore, freeAfter, merged>>
  BY Sizes DEF Kept, Indexed, EndReferences, BeforeIndexes
<1>2. \A i \in BeforeIndexes : i < next
  BY <1>1
<1>3. ASSUME NEW r \in Ref
      PROVE  /\ OfAfter(r) \cap freeAfter = {} \/ OfBefore(r) \cap freeBefore = {}
             /\ Cardinality(OfBoth(r)) =
                  IF Cardinality(OfBefore(r)) < Cardinality(OfAfter(r))
                  THEN Cardinality(OfBefore(r)) ELSE Cardinality(OfAfter(r))
  <2>1. /\ Cardinality(OfBoth(r)) = Cardinality(OfBefore(r) \ freeBefore)
        /\ Cardinality(OfBoth(r)) = Cardinality(OfAfter(r) \ freeAfter)
        /\ OfAfter(r) \cap freeAfter = {} \/ OfBefore(r) \cap freeBefore = {}
    BY <1>1, <1>2 DEF RefsUsedUp, OfBefore
  <2>2. /\ Cardinality(OfBefore(r)) \in Nat /\ Cardinality(OfAfter(r)) \in Nat
        /\ Cardinality(OfBefore(r) \ freeBefore) <= Cardinality(OfBefore(r))
        /\ Cardinality(OfAfter(r) \ freeAfter) <= Cardinality(OfAfter(r))
    <3>1. IsFiniteSet(OfBefore(r)) /\ IsFiniteSet(OfAfter(r))
      BY <1>1, RefSets
    <3>2. QED
      BY <3>1, FS_Subset, FS_CardinalityType
  <2>3. CASE OfAfter(r) \cap freeAfter = {}
    <3>1. OfAfter(r) \ freeAfter = OfAfter(r)
      BY <2>3
    <3>2. QED
      BY <2>1, <2>2, <3>1
  <2>4. CASE OfBefore(r) \cap freeBefore = {}
    <3>1. OfBefore(r) \ freeBefore = OfBefore(r)
      BY <2>4
    <3>2. /\ Cardinality(OfBoth(r)) = Cardinality(OfBefore(r))
          /\ Cardinality(OfBefore(r)) <= Cardinality(OfAfter(r))
      BY <2>1, <2>2, <3>1
    <3>3. \A m, n \in Nat : m <= n => m = IF m < n THEN m ELSE n
      OBVIOUS
    <3>4. QED
      BY <2>1, <2>2, <3>2, <3>3
  <2>5. QED
    BY <2>1, <2>3, <2>4
<1>4. \A r : OfBefore(r)' = OfBefore(r) /\ OfAfter(r)' = OfAfter(r) /\ OfBoth(r)' = OfBoth(r)
  BY <1>1 DEF OfBefore, OfAfter, OfBoth, BeforeIndexes, AfterIndexes, Matched
<1>5. QED
  BY <1>1, <1>3, <1>4 DEF RefsUsedUp

LEMMA RefsStep ==
  ASSUME Kept, RefsUsedUp, [Next]_vars
  PROVE  RefsUsedUp'
<1>1. CASE Next
  <2>1. CASE \E j : MatchByRef /\ Matches(next, j) /\ j = Least(SameRef(next))
    BY <2>1, RefMatchUses
  <2>2. CASE \E i, j : <<i, j>> \in left /\ Compare(<<i, j>>) /\ Matches(i, j)
    <3>1. round # "references"
      BY <2>2 DEF Compare
    <3>2. QED
      BY <2>2, <3>1, OtherMatchUses
  <2>3. CASE \E i, j : <<i, j>> \in compared /\ Choose(<<i, j>>) /\ Matches(i, j)
    <3>1. round # "references"
      BY <2>3 DEF Choose
    <3>2. QED
      BY <2>3, <3>1, OtherMatchUses
  <2>4. CASE Quiet /\ MatchesNone
    <3>1. CASE NoSuchRef
      BY <3>1, NoSuchRefUses
    <3>2. CASE EndReferences
      BY <3>2, EndReferencesUses
    <3>3. CASE ~NoSuchRef /\ ~EndReferences
      <4>1. round # "references" /\ round' # "references"
        BY <2>4, <3>3 DEF Quiet, EndComparisons, Finish, Compare
      <4>2. /\ UNCHANGED <<freeBefore, freeAfter>>
            /\ \A r : /\ OfBefore(r)' = OfBefore(r) /\ OfAfter(r)' = OfAfter(r)
                      /\ OfBoth(r)' = OfBoth(r)
        BY <2>4 DEF MatchesNone, OfBefore, OfAfter, OfBoth, BeforeIndexes, AfterIndexes
      <4>3. QED
        BY <4>1, <4>2 DEF RefsUsedUp
    <3>4. QED
      BY <3>1, <3>2, <3>3
  <2>5. QED
    BY <1>1, <2>1, <2>2, <2>3, <2>4, Steps
<1>2. CASE UNCHANGED vars
  <2>1. UNCHANGED <<next, round, freeBefore, freeAfter>>
    BY <1>2 DEF vars
  <2>2. \A r : OfBefore(r)' = OfBefore(r) /\ OfAfter(r)' = OfAfter(r) /\ OfBoth(r)' = OfBoth(r)
    BY <1>2 DEF vars, OfBefore, OfAfter, OfBoth, BeforeIndexes, AfterIndexes, Matched
  <2>3. QED
    BY <2>1, <2>2 DEF RefsUsedUp
<1>3. QED
  BY <1>1, <1>2

\* Nothing is matched yet, and all options are free.
LEMMA NothingMatched ==
  ASSUME Init
  PROVE  /\ combiner \in Input /\ Matched = {} /\ round = "references"
         /\ freeBefore = BeforeIndexes /\ freeAfter = AfterIndexes
<1>1. DOMAIN merged = {}
  BY DEF Init
<1>2. QED
  BY <1>1 DEF Init, Matched, BeforeIndexes, AfterIndexes

LEMMA RefsInit == Init => RefsUsedUp
<1> SUFFICES ASSUME Init, NEW r \in Ref
             PROVE  /\ round = "references"
                    /\ Cardinality(OfBoth(r)) = Cardinality(OfBefore(r) \ freeBefore)
                    /\ Cardinality(OfBoth(r)) = Cardinality(OfAfter(r) \ freeAfter)
                    /\ \A i \in OfBefore(r) : i < next => i \notin freeBefore
  BY DEF RefsUsedUp
<1>1. OfBoth(r) = {} /\ OfBefore(r) \ freeBefore = {} /\ OfAfter(r) \ freeAfter = {}
  BY NothingMatched DEF OfBoth, OfBefore, OfAfter
<1>2. next = 1 /\ BeforeIndexes = 1 .. Len(combiner.before) /\ Len(combiner.before) \in Nat
  BY NothingMatched, Sizes DEF Init
<1>3. \A i \in OfBefore(r) : ~ (i < next)
  BY <1>2 DEF OfBefore
<1>4. QED
  BY <1>1, <1>3, NothingMatched

(***************************************************************************)
(* Of every reference as many options are matched with each other as both  *)
(* sides have of them.                                                     *)
(***************************************************************************)
THEOREM RefsAreMatched == Spec => []RefsMatched
<1>1. RefsUsedUp => RefsMatched
  BY DEF RefsUsedUp, RefsMatched, Done, OfBoth, OfBefore, OfAfter, BeforeIndexes, AfterIndexes
<1>2. QED
  BY <1>1, KeptInit, KeptStep, RefsInit, RefsStep, PTL DEF Spec

-----------------------------------------------------------------------------
(***************************************************************************)
(* What comparisons report.                                                *)
(***************************************************************************)

\* What depends on the combiners alone stays.
LEMMA SameCombiner ==
  ASSUME combiner' = combiner
  PROVE  /\ BeforeIndexes' = BeforeIndexes /\ AfterIndexes' = AfterIndexes /\ Pairs' = Pairs
         /\ \A i, j : PairAt(i, j)' = PairAt(i, j) /\ Shown(i, j)' = Shown(i, j)
         /\ \A c, i, j : Worse(c, i, j)' = Worse(c, i, j)
         /\ PartsApart' = PartsApart
<1>1. BeforeIndexes' = BeforeIndexes /\ AfterIndexes' = AfterIndexes
  BY DEF BeforeIndexes, AfterIndexes
<1>2. \A i, j : PairAt(i, j)' = PairAt(i, j)
  BY DEF PairAt
<1>3. \A i, j : Shown(i, j)' = Shown(i, j)
  BY <1>2 DEF Shown
<1>4. Pairs' = Pairs
  BY <1>1, <1>2 DEF Pairs
<1>5. \A i, j : Cost(i, j)' = Cost(i, j)
  BY <1>3 DEF Cost
<1>6. \A c : haveSameLastRef(PairAt(c[1], c[2]))' = haveSameLastRef(PairAt(c[1], c[2]))
  BY DEF haveSameLastRef, PairAt
<1>7. \A c, i, j : Worse(c, i, j)' = Worse(c, i, j)
  BY <1>5, <1>6 DEF Worse, Before
<1>8. PartsApart' = PartsApart
  BY DEF PartsApart, PairAt
<1>9. QED
  BY <1>1, <1>2, <1>3, <1>4, <1>7, <1>8

\* A part in the reuse cache is one of a pair compared before, and that is none of this pair's.
LEMMA ReportedShown ==
  ASSUME CacheTells, PartsApart, NEW i \in BeforeIndexes, NEW j \in AfterIndexes
  PROVE  Reported(PairAt(i, j)) = Shown(i, j)
<1>1. PICK p : p = PairAt(i, j)
  OBVIOUS
<1>2. p \in Pairs
  BY <1>1 DEF Pairs
<1>3. CASE p \in DOMAIN cache
  <2>1. cache[PairAt(i, j)] = Shown(i, j)
    BY <1>1, <1>3 DEF CacheTells
  <2>2. Reported(p) = cache[p]
    BY <1>3 DEF Reported
  <2>3. QED
    BY <1>1, <2>1, <2>2
<1>4. CASE p \notin DOMAIN cache
  <2>1. \A q \in DOMAIN cache : combiner.parts[p] \cap combiner.parts[q] = {}
    <3>1. \A q \in DOMAIN cache : q \in Pairs /\ q # p
      BY <1>4 DEF CacheTells
    <3>2. \A q \in Pairs : p # q => combiner.parts[p] \cap combiner.parts[q] = {}
      BY <1>2 DEF PartsApart, Pairs, BeforeIndexes, AfterIndexes
    <3>3. QED
      BY <3>1, <3>2
  <2>2. combiner.parts[p] \cap combiner.seen = {}
    BY <1>2 DEF PartsApart, Pairs, BeforeIndexes, AfterIndexes
  <2>3. linked \subseteq combiner.seen \cup UNION {combiner.parts[q] : q \in DOMAIN cache}
    BY DEF CacheTells
  <2>4. combiner.parts[p] \ linked = combiner.parts[p]
    BY <2>1, <2>2, <2>3
  <2>5. Reported(p) = combiner.own[p] \cup UNION {combiner.shows[x] : x \in combiner.parts[p]}
    BY <1>4, <2>4 DEF Reported
  <2>6. QED
    BY <1>1, <2>5 DEF Shown
<1>5. QED
  BY <1>3, <1>4

LEMMA ComparisonTells ==
  ASSUME CacheTells, NEW i \in BeforeIndexes, NEW j \in AfterIndexes, combiner' = combiner,
         compareCombinerItems(PairAt(i, j)), compared' \subseteq compared \cup {<<i, j>>}
  PROVE  CacheTells'
<1>1. PICK p : p = PairAt(i, j)
  OBVIOUS
<1>2. /\ DOMAIN cache' = DOMAIN cache \cup {p}
      /\ cache'[p] = Reported(p)
      /\ \A q \in DOMAIN cache : q # p => cache'[q] = cache[q]
      /\ linked' = linked \cup combiner.parts[p]
  BY <1>1 DEF compareCombinerItems
<1>3. p \in Pairs
  BY <1>1 DEF Pairs
<1>4. /\ BeforeIndexes' = BeforeIndexes /\ AfterIndexes' = AfterIndexes /\ Pairs' = Pairs
      /\ \A k, l : PairAt(k, l)' = PairAt(k, l) /\ Shown(k, l)' = Shown(k, l)
      /\ PartsApart' = PartsApart
  BY SameCombiner
<1>5. DOMAIN cache' \subseteq Pairs
  BY <1>2, <1>3 DEF CacheTells
<1>6. linked' \subseteq combiner.seen \cup UNION {combiner.parts[q] : q \in DOMAIN cache'}
  BY <1>2 DEF CacheTells
<1>7. \A c \in compared' : PairAt(c[1], c[2]) \in DOMAIN cache'
  <2>1. ASSUME NEW c \in compared' PROVE PairAt(c[1], c[2]) \in DOMAIN cache'
    <3>1. CASE c \in compared
      BY <1>2, <3>1 DEF CacheTells
    <3>2. CASE c = <<i, j>>
      BY <1>1, <1>2, <3>2
    <3>3. QED
      BY <3>1, <3>2
  <2>2. QED
    BY <2>1
<1>8. ASSUME PartsApart, NEW k \in BeforeIndexes, NEW l \in AfterIndexes,
             PairAt(k, l) \in DOMAIN cache'
      PROVE  cache'[PairAt(k, l)] = Shown(k, l)
  <2>1. CASE PairAt(k, l) = p
    BY <1>2, <1>8, <2>1, ReportedShown
  <2>2. CASE PairAt(k, l) # p
    BY <1>2, <1>8, <2>2 DEF CacheTells
  <2>3. QED
    BY <2>1, <2>2
<1>9. QED
  <2>1. /\ DOMAIN cache' \subseteq Pairs'
        /\ linked' \subseteq combiner'.seen \cup UNION {combiner'.parts[q] : q \in DOMAIN cache'}
    BY <1>4, <1>5, <1>6
  <2>2. \A c \in compared' : PairAt(c[1], c[2])' \in DOMAIN cache'
    BY <1>4, <1>7
  <2>3. PartsApart' =>
          \A k \in BeforeIndexes' : \A l \in AfterIndexes' :
             PairAt(k, l)' \in DOMAIN cache' => cache'[PairAt(k, l)'] = Shown(k, l)'
    BY <1>4, <1>8
  <2>4. QED
    BY <2>1, <2>2, <2>3 DEF CacheTells

LEMMA CacheStep ==
  ASSUME Kept, CacheTells, [Next]_vars
  PROVE  CacheTells'
<1>1. /\ freeBefore \subseteq BeforeIndexes /\ freeAfter \subseteq AfterIndexes
      /\ left \subseteq freeBefore \X freeAfter
  BY DEF Kept, Indexed
<1>2. CASE MatchByRef
  <2>1. PICK j : j = Least(SameRef(next))
    OBVIOUS
  <2>2. next \in BeforeIndexes /\ j \in AfterIndexes
    BY <1>1, <1>2, <2>1, RefMatch DEF Kept
  <2>3. compareCombinerItems(PairAt(next, j)) /\ compared' = compared /\ combiner' = combiner
    BY <1>2, <2>1 DEF MatchByRef
  <2>4. QED
    BY <2>2, <2>3, ComparisonTells
<1>3. CASE \E c \in left : Compare(c)
  <2>1. PICK c \in left : Compare(c)
    BY <1>3
  <2>2. PICK i \in BeforeIndexes, j \in AfterIndexes : c = <<i, j>>
    BY <1>1
  <2>3. /\ compareCombinerItems(PairAt(i, j)) /\ combiner' = combiner
        /\ compared' \subseteq compared \cup {<<i, j>>}
    BY <2>1, <2>2 DEF Compare
  <2>4. QED
    BY <2>3, ComparisonTells
<1>4. CASE UNCHANGED <<combiner, cache, linked, compared>>
  <2>1. combiner' = combiner /\ cache' = cache /\ linked' = linked /\ compared' = compared
    BY <1>4
  <2>2. /\ BeforeIndexes' = BeforeIndexes /\ AfterIndexes' = AfterIndexes /\ Pairs' = Pairs
        /\ \A k, l : PairAt(k, l)' = PairAt(k, l) /\ Shown(k, l)' = Shown(k, l)
        /\ PartsApart' = PartsApart
    BY <2>1, SameCombiner
  <2>3. QED
    BY <2>1, <2>2 DEF CacheTells
<1>5. QED
  BY <1>2, <1>3, <1>4
  DEF Next, vars, NoSuchRef, EndReferences, EndComparisons, Choose, Finish

LEMMA CacheInit == Init => CacheTells
<1> SUFFICES ASSUME Init PROVE CacheTells
  OBVIOUS
<1>1. DOMAIN cache = {} /\ linked = combiner.seen /\ compared = {}
  BY DEF Init
<1>2. QED
  BY <1>1 DEF CacheTells

\* The differences returned are those the matched pairs report.
LEMMA DiffsStep ==
  ASSUME Kept, CacheTells, DiffsTell, [Next]_vars
  PROVE  DiffsTell'
<1> SUFFICES ASSUME PartsApart'
             PROVE  diffs' = UNION {Shown(c[1], c[2])' : c \in Matched'}
  BY DEF DiffsTell
<1>1. CASE Next
  <2>1. combiner' = combiner
    BY <1>1 DEF Next, MatchByRef, NoSuchRef, EndReferences, Compare, EndComparisons, Choose, Finish
  <2>2. /\ PartsApart /\ diffs = UNION {Shown(c[1], c[2]) : c \in Matched}
        /\ \A c : Shown(c[1], c[2])' = Shown(c[1], c[2])
    BY <2>1, SameCombiner DEF DiffsTell
  <2>3. ASSUME NEW i, NEW j, Matches(i, j)
        PROVE  UNION {Shown(c[1], c[2])' : c \in Matched'} = diffs \cup Shown(i, j)
    <3>1. Matched' = Matched \cup {<<i, j>>}
      BY <2>3 DEF Matches
    <3>2. QED
      BY <2>2, <3>1
  <2>4. \A i, j : Matches(i, j) => i \in BeforeIndexes /\ j \in AfterIndexes
    BY DEF Matches, Kept, Indexed
  <2>5. CASE \E j : MatchByRef /\ Matches(next, j) /\ j = Least(SameRef(next))
    <3>1. PICK j : MatchByRef /\ Matches(next, j) /\ j = Least(SameRef(next))
      BY <2>5
    <3>2. diffs' = diffs \cup Reported(PairAt(next, j))
      BY <3>1 DEF MatchByRef
    <3>3. QED
      BY <2>2, <2>3, <2>4, <3>1, <3>2, ReportedShown
  <2>6. CASE \E i, j : /\ <<i, j>> \in left /\ Compare(<<i, j>>) /\ Matches(i, j)
                       /\ Reported(PairAt(i, j)) = {}
    <3>1. PICK i, j : Compare(<<i, j>>) /\ Matches(i, j) /\ Reported(PairAt(i, j)) = {}
      BY <2>6
    <3>2. diffs' = diffs
      BY <3>1 DEF Compare
    <3>3. Shown(i, j) = {}
      BY <2>2, <2>4, <3>1, ReportedShown
    <3>4. QED
      BY <2>3, <3>1, <3>2, <3>3
  <2>7. CASE \E i, j : <<i, j>> \in compared /\ Choose(<<i, j>>) /\ Matches(i, j)
    <3>1. PICK i, j : <<i, j>> \in compared /\ Choose(<<i, j>>) /\ Matches(i, j)
      BY <2>7
    <3>2. diffs' = diffs \cup cache[PairAt(i, j)]
      BY <3>1 DEF Choose
    <3>3. PairAt(i, j) \in DOMAIN cache
      BY <3>1 DEF CacheTells
    <3>4. cache[PairAt(i, j)] = Shown(i, j)
      BY <2>2, <2>4, <3>1, <3>3 DEF CacheTells
    <3>5. QED
      BY <2>3, <3>1, <3>2, <3>4
  <2>8. CASE Quiet /\ MatchesNone
    <3>1. diffs' = diffs
      BY <2>8 DEF Quiet, NoSuchRef, EndReferences, Compare, EndComparisons, Finish
    <3>2. QED
      BY <2>2, <2>8, <3>1 DEF MatchesNone
  <2>9. QED
    BY <1>1, <2>5, <2>6, <2>7, <2>8, Steps
<1>2. CASE UNCHANGED vars
  <2>1. combiner' = combiner /\ diffs' = diffs /\ Matched' = Matched
    BY <1>2 DEF vars, Matched
  <2>2. PartsApart /\ \A c : Shown(c[1], c[2])' = Shown(c[1], c[2])
    BY <2>1, SameCombiner
  <2>3. QED
    BY <2>1, <2>2 DEF DiffsTell
<1>3. QED
  BY <1>1, <1>2

LEMMA DiffsInit == Init => DiffsTell
BY NothingMatched DEF Init, DiffsTell

-----------------------------------------------------------------------------
(***************************************************************************)
(* The pairing.                                                            *)
(***************************************************************************)
LEMMA Costs ==
  ASSUME combiner \in Input, NEW i \in BeforeIndexes, NEW j \in AfterIndexes
  PROVE  /\ Shown(i, j) \in SUBSET Diff
         /\ Cardinality(Shown(i, j) \cap dangerous) \in Nat /\ Cardinality(Shown(i, j)) \in Nat
<1>1. combiner \in Combiners
  BY Sizes
<1>2. PICK p : p = PairAt(i, j)
  OBVIOUS
<1>3. p \in Option \X Option
  BY <1>1, <1>2 DEF PairAt, Combiners, BeforeIndexes, AfterIndexes
<1>4. combiner.own[p] \in SUBSET Diff /\ combiner.parts[p] \in SUBSET Part
  BY <1>1, <1>3 DEF Combiners
<1>5. \A x \in combiner.parts[p] : combiner.shows[x] \in SUBSET Diff
  BY <1>1, <1>4 DEF Combiners
<1>6. Shown(i, j) \in SUBSET Diff
  BY <1>2, <1>4, <1>5 DEF Shown
<1>7. IsFiniteSet(Shown(i, j)) /\ IsFiniteSet(Shown(i, j) \cap dangerous)
  BY <1>6, CombinerAssumption, FS_Subset
<1>8. QED
  BY <1>6, <1>7, FS_CardinalityType

\* The order of costs, on pairs of numbers and as the first part of a rank.
LEMMA BeforeCosts ==
  ASSUME NEW a \in Nat, NEW b \in Nat, NEW c \in Nat, NEW d \in Nat
  PROVE  Before(<<a, b>>, <<c, d>>) <=> (a < c \/ (a = c /\ b < d))
<1>1. DOMAIN <<a, b>> = {1, 2}
  OBVIOUS
<1>2. 1 .. 1 - 1 = {} /\ 1 .. 2 - 1 = {1}
  OBVIOUS
<1>3. /\ \A m \in 1 .. 1 - 1 : <<a, b>>[m] = <<c, d>>[m]
      /\ (\A m \in 1 .. 2 - 1 : <<a, b>>[m] = <<c, d>>[m]) <=> a = c
  BY <1>2
<1>4. QED
  BY <1>1, <1>3 DEF Before

LEMMA BeforeRanks ==
  ASSUME NEW a \in Nat, NEW b \in Nat, NEW c \in Nat, NEW d \in Nat,
         NEW u, NEW v, NEW w, NEW x, NEW y, NEW z,
         Before(<<a, b, u, v, w>>, <<c, d, x, y, z>>)
  PROVE  a < c \/ (a = c /\ b <= d)
<1>1. PICK r, s : r = <<a, b, u, v, w>> /\ s = <<c, d, x, y, z>>
  OBVIOUS
<1>2. /\ DOMAIN r = {1, 2, 3, 4, 5} /\ r[1] = a /\ r[2] = b /\ s[1] = c /\ s[2] = d
  BY <1>1
<1>3. PICK n \in DOMAIN r : r[n] < s[n] /\ \A m \in 1 .. n - 1 : r[m] = s[m]
  BY <1>1 DEF Before
<1>4. CASE n = 1
  BY <1>2, <1>3, <1>4
<1>5. CASE n = 2
  <2>1. 1 \in 1 .. 2 - 1
    OBVIOUS
  <2>2. QED
    BY <1>2, <1>3, <1>5, <2>1
<1>6. CASE n \in {3, 4, 5}
  <2>1. 1 \in 1 .. n - 1 /\ 2 \in 1 .. n - 1
    BY <1>6
  <2>2. QED
    BY <1>2, <1>3, <2>1
<1>7. QED
  BY <1>2, <1>3, <1>4, <1>5, <1>6

\* A match keeps the pairing settled when it was at least as good for both as any other choice.
LEMMA MatchSettles ==
  ASSUME Stable, NEW i, NEW j, Matches(i, j),
         PartsApart => \A k \in freeBefore : \A l \in freeAfter :
                         k = i \/ l = j => ~Worse(<<i, j>>, k, l)
  PROVE  Stable'
<1> SUFFICES ASSUME PartsApart', NEW k \in BeforeIndexes', NEW l \in AfterIndexes'
             PROVE  (k \in freeBefore' /\ l \in freeAfter') \/ Settled(k, l)'
  BY DEF Stable
<1>1. /\ freeBefore' = freeBefore \ {i} /\ freeAfter' = freeAfter \ {j}
      /\ Matched' = Matched \cup {<<i, j>>} /\ combiner' = combiner
  BY DEF Matches
<1>2. /\ PartsApart /\ k \in BeforeIndexes /\ l \in AfterIndexes
      /\ \A c : Worse(c, k, l)' = Worse(c, k, l)
  BY <1>1, SameCombiner
<1>3. CASE k \in freeBefore /\ l \in freeAfter
  <2>1. CASE k = i \/ l = j
    <3>1. ~Worse(<<i, j>>, k, l)'
      BY <1>2, <1>3, <2>1
    <3>2. <<i, j>> \in Matched' /\ (<<i, j>>[1] = k \/ <<i, j>>[2] = l)
      BY <1>1, <2>1
    <3>3. QED
      BY <3>1, <3>2 DEF Settled
  <2>2. CASE k # i /\ l # j
    BY <1>1, <1>3, <2>2
  <2>3. QED
    BY <2>1, <2>2
<1>4. CASE ~ (k \in freeBefore /\ l \in freeAfter)
  <2>1. PICK c \in Matched : (c[1] = k \/ c[2] = l) /\ ~Worse(c, k, l)
    BY <1>2, <1>4 DEF Stable, Settled
  <2>2. c \in Matched' /\ ~Worse(c, k, l)'
    BY <1>1, <1>2, <2>1
  <2>3. QED
    BY <2>1, <2>2 DEF Settled
<1>5. QED
  BY <1>3, <1>4

\* No pair of free options comes before the one chosen.
LEMMA ChoiceIsBest ==
  ASSUME Kept, CacheTells, PartsApart, NEW i \in BeforeIndexes, NEW j \in AfterIndexes,
         Choose(<<i, j>>), NEW k \in freeBefore, NEW l \in freeAfter
  PROVE  ~Worse(<<i, j>>, k, l)
<1>1. /\ combiner \in Input /\ k \in BeforeIndexes /\ l \in AfterIndexes
      /\ <<k, l>> \in Open /\ <<i, j>> \in compared /\ <<k, l>> \in compared
  BY DEF Kept, Indexed, PairsLeft, Choose, Open
<1>2. /\ cache[PairAt(i, j)] = Shown(i, j) /\ cache[PairAt(k, l)] = Shown(k, l)
  BY <1>1 DEF CacheTells
<1>3. PICK a, b, c, d : /\ a = Cardinality(Shown(i, j) \cap dangerous)
                        /\ b = Cardinality(Shown(i, j))
                        /\ c = Cardinality(Shown(k, l) \cap dangerous)
                        /\ d = Cardinality(Shown(k, l))
  OBVIOUS
<1>4. a \in Nat /\ b \in Nat /\ c \in Nat /\ d \in Nat
  BY <1>1, <1>3, Costs
<1>5. Cost(i, j) = <<a, b>> /\ Cost(k, l) = <<c, d>>
  BY <1>3 DEF Cost
<1>6. a < c \/ (a = c /\ b <= d)
  <2>1. CASE <<k, l>> = <<i, j>>
    <3>1. a = c /\ b = d
      BY <1>3, <2>1
    <3>2. QED
      BY <1>4, <3>1
  <2>2. CASE <<k, l>> # <<i, j>>
    <3>1. Before(Rank(<<i, j>>), Rank(<<k, l>>))
      BY <1>1, <2>2 DEF Choose
    <3>2. /\ Rank(<<i, j>>) = <<a, b, Distance(<<i, j>>), i, j>>
          /\ Rank(<<k, l>>) = <<c, d, Distance(<<k, l>>), k, l>>
      BY <1>2, <1>3 DEF Rank
    <3>3. QED
      BY <1>4, <3>1, <3>2, BeforeRanks
  <2>3. QED
    BY <2>1, <2>2
<1>7. ~Before(<<c, d>>, <<a, b>>)
  BY <1>4, <1>6, BeforeCosts
<1>8. QED
  BY <1>5, <1>7 DEF Worse

LEMMA StableStep ==
  ASSUME Kept, CacheTells, Stable, [Next]_vars
  PROVE  Stable'
<1>1. /\ combiner \in Input
      /\ freeBefore \subseteq BeforeIndexes /\ freeAfter \subseteq AfterIndexes
  BY DEF Kept, Indexed
<1>2. CASE Next
  <2>1. CASE \E j : MatchByRef /\ Matches(next, j) /\ j = Least(SameRef(next))
    <3>1. PICK j : MatchByRef /\ Matches(next, j) /\ j = Least(SameRef(next))
      BY <2>1
    <3>2. haveSameLastRef(PairAt(next, j))
      BY <3>1, RefMatch DEF Kept
    <3>3. \A k, l : ~Worse(<<next, j>>, k, l)
      BY <3>2 DEF Worse
    <3>4. QED
      BY <3>1, <3>3, MatchSettles
  <2>2. CASE \E i, j : /\ <<i, j>> \in left /\ Compare(<<i, j>>) /\ Matches(i, j)
                       /\ Reported(PairAt(i, j)) = {}
    <3>1. PICK i, j : Matches(i, j) /\ Reported(PairAt(i, j)) = {}
      BY <2>2
    <3>2. i \in BeforeIndexes /\ j \in AfterIndexes
      BY <1>1, <3>1 DEF Matches
    <3>3. ASSUME PartsApart, NEW k \in freeBefore, NEW l \in freeAfter
          PROVE  ~Worse(<<i, j>>, k, l)
      <4>1. Shown(i, j) = {}
        BY <3>1, <3>2, <3>3, ReportedShown
      <4>2. Cardinality(Shown(i, j)) = 0 /\ Cardinality(Shown(i, j) \cap dangerous) = 0
        BY <4>1, FS_EmptySet
      <4>3. PICK c, d : /\ c = Cardinality(Shown(k, l) \cap dangerous)
                        /\ d = Cardinality(Shown(k, l))
        OBVIOUS
      <4>4. c \in Nat /\ d \in Nat
        BY <1>1, <4>3, Costs
      <4>5. ~Before(<<c, d>>, <<0, 0>>)
        BY <4>4, BeforeCosts
      <4>6. Cost(i, j) = <<0, 0>> /\ Cost(k, l) = <<c, d>>
        BY <4>2, <4>3 DEF Cost
      <4>7. QED
        BY <4>5, <4>6 DEF Worse
    <3>4. QED
      BY <3>1, <3>3, MatchSettles
  <2>3. CASE \E i, j : <<i, j>> \in compared /\ Choose(<<i, j>>) /\ Matches(i, j)
    <3>1. PICK i, j : Choose(<<i, j>>) /\ Matches(i, j)
      BY <2>3
    <3>2. i \in BeforeIndexes /\ j \in AfterIndexes
      BY <1>1, <3>1 DEF Matches
    <3>3. PartsApart => \A k \in freeBefore : \A l \in freeAfter : ~Worse(<<i, j>>, k, l)
      BY <3>1, <3>2, ChoiceIsBest
    <3>4. QED
      BY <3>1, <3>3, MatchSettles
  <2>4. CASE Quiet /\ MatchesNone
    <3>1. combiner' = combiner /\ Matched' = Matched
          /\ freeBefore' = freeBefore /\ freeAfter' = freeAfter
      BY <2>4 DEF MatchesNone
    <3>2. /\ PartsApart' = PartsApart
          /\ BeforeIndexes' = BeforeIndexes /\ AfterIndexes' = AfterIndexes
          /\ \A i, j : Settled(i, j)' = Settled(i, j)
      BY <3>1, SameCombiner DEF Settled
    <3>3. QED
      BY <3>1, <3>2 DEF Stable
  <2>5. QED
    BY <1>2, <2>1, <2>2, <2>3, <2>4, Steps
<1>3. CASE UNCHANGED vars
  <2>1. combiner' = combiner /\ Matched' = Matched
        /\ freeBefore' = freeBefore /\ freeAfter' = freeAfter
    BY <1>3 DEF vars, Matched
  <2>2. /\ PartsApart' = PartsApart
        /\ BeforeIndexes' = BeforeIndexes /\ AfterIndexes' = AfterIndexes
        /\ \A i, j : Settled(i, j)' = Settled(i, j)
    BY <2>1, SameCombiner DEF Settled
  <2>3. QED
    BY <2>1, <2>2 DEF Stable
<1>4. QED
  BY <1>2, <1>3

LEMMA StableInit == Init => Stable
BY NothingMatched DEF Stable

(***************************************************************************)
(* The invariant as a whole.                                               *)
(***************************************************************************)
THEOREM CombinerInvariant == Spec => []MatchInv
<1>1. Kept /\ RefsUsedUp /\ CacheTells /\ DiffsTell /\ Stable <=> MatchInv
  BY DEF MatchInv, Kept
<1>2. QED
  BY <1>1, KeptInit, KeptStep, RefsInit, RefsStep, CacheInit, CacheStep,
     DiffsInit, DiffsStep, StableInit, StableStep, PTL DEF Spec

(***************************************************************************)
(* When pairs of options share no parts, no two options that were not      *)
(* matched by reference would both have been better off with each other,   *)
(* and what is returned are the differences of the pairs matched.          *)
(***************************************************************************)
THEOREM MinDiffs == Spec => []MinDiffsReported
<1>1. MatchInv => MinDiffsReported
  <2> SUFFICES ASSUME MatchInv, PartsApart, Done
               PROVE  /\ MinDiffsFound
                      /\ diffs = UNION {Shown(c[1], c[2]) : c \in Matched}
    BY DEF MinDiffsReported, MinDiffsFound
  <2>1. freeBefore = {} \/ freeAfter = {}
    BY DEF MatchInv, PairsLeft, Done
  <2>2. \A i \in BeforeIndexes : \A j \in AfterIndexes : Settled(i, j)
    BY <2>1 DEF MatchInv, Stable
  <2>3. MinDiffsFound
    BY <2>2 DEF MinDiffsFound, Settled, BeforeIndexes, AfterIndexes
  <2>4. QED
    BY <2>3 DEF MatchInv, DiffsTell
<1>2. QED
  BY <1>1, CombinerInvariant, PTL
=============================================================================
