----------------------------- MODULE CombinerMatch -----------------------------
(***************************************************************************)
(* combinersCompareResolver (jsonSchema.resolver.ts): pairs the options of *)
(* two combiners (oneOf, anyOf), first by the name they refer to, then by  *)
(* how few differences a comparison of them shows.                         *)
(*                                                                         *)
(* Each comparison is a crawl of its own that works on the reuse cache of  *)
(* the crawl that met the combiner.  Of a pair of options it reports the   *)
(* differences of their own and those of the parts they share with others, *)
(* except that a part somebody compared before is linked from the cache,   *)
(* in silence (Reuse of MergeCrawl).                                       *)
(*                                                                         *)
(* Options are in sequences: index i stands for index i - 1 of the code.   *)
(***************************************************************************)
EXTENDS Naturals, Sequences, FiniteSets

CONSTANTS
  Option,     \* the options of both combiners, as objects
  Ref,        \* last $refs
  NoRef,      \* an option that is not referred to
  Part,       \* pairs of shared subtrees that pairs of options have
  Diff,       \* differences
  dangerous,  \* those that are breaking or risky
  None,       \* undefined
  Input       \* the combiners a comparison may meet

(***************************************************************************)
(* ref[o] is the last $ref of option o; own[p] are the differences of the  *)
(* pair of options p outside its parts[p]; shows[x] those of part x; seen  *)
(* are the parts in the cache when the combiner is met.                    *)
(***************************************************************************)
Combiners ==
  [before : Seq(Option), after : Seq(Option), ref : [Option -> Ref \cup {NoRef}],
   own : [Option \X Option -> SUBSET Diff], parts : [Option \X Option -> SUBSET Part],
   shows : [Part -> SUBSET Diff], seen : SUBSET Part]

ASSUME CombinerAssumption ==
  /\ Input \subseteq Combiners
  /\ NoRef \notin Ref /\ None \notin Nat /\ dangerous \subseteq Diff
  /\ IsFiniteSet(Diff) /\ IsFiniteSet(Part)

VARIABLES
  combiner,    \* the two combiners
  round,       \* what the resolver is at
  next,        \* the index of before the round of references is at
  left,        \* the pairs of indexes the round of comparisons has still to visit
  freeBefore,  \* beforeUnmatchedIndexes
  freeAfter,   \* afterUnmatchedIndexes
  cache,       \* the pairs of options compared so far, and what was reported of them
  linked,      \* the parts in the reuse cache
  compared,    \* comparedItems: the pairs of indexes that showed differences
  merged,      \* mergedCombinerJsoArray: index -> [before, after] indexes of what is there
  diffs        \* the differences the resolver returns, without those of whole options

vars == <<combiner, round, next, left, freeBefore, freeAfter, cache, linked, compared, merged, diffs>>

Least(S) == CHOOSE x \in S : \A y \in S : x <= y

PairAt(i, j) == <<combiner.before[i], combiner.after[j]>>

\* What a comparison of the pair reports, now or when it was made.
Reported(p) ==
  IF p \in DOMAIN cache THEN cache[p]
  ELSE combiner.own[p] \cup UNION {combiner.shows[x] : x \in combiner.parts[p] \ linked}

compareCombinerItems(p) ==
  /\ cache' = [q \in DOMAIN cache \cup {p} |-> IF q = p THEN Reported(p) ELSE cache[q]]
  /\ linked' = linked \cup combiner.parts[p]

Put(f, k, v) == [x \in DOMAIN f \cup {k} |-> IF x = k THEN v ELSE f[x]]

Match(i, j) ==
  /\ freeBefore' = freeBefore \ {i}
  /\ freeAfter' = freeAfter \ {j}
  /\ merged' = Put(merged, j, [before |-> i, after |-> j])

-----------------------------------------------------------------------------
(***************************************************************************)
(* Round 1: options that refer to the same schema.                         *)
(***************************************************************************)
haveSameLastRef(p) == combiner.ref[p[1]] # NoRef /\ combiner.ref[p[1]] = combiner.ref[p[2]]

\* Mutant: only the option at the same index is looked at.
SameRefAtIndex(i) == {j \in freeAfter : j = i /\ haveSameLastRef(PairAt(i, j))}

SameRef(i) == {j \in freeAfter : haveSameLastRef(PairAt(i, j))}

MatchByRef ==
  LET j == Least(SameRef(next))
      p == PairAt(next, j)
  IN  /\ round = "references" /\ next \in DOMAIN combiner.before
      /\ SameRef(next) # {}
      /\ Match(next, j)
      /\ compareCombinerItems(p)
      /\ diffs' = diffs \cup Reported(p)
      /\ next' = next + 1
      /\ UNCHANGED <<combiner, round, left, compared>>

NoSuchRef ==
  /\ round = "references" /\ next \in DOMAIN combiner.before
  /\ SameRef(next) = {}
  /\ next' = next + 1
  /\ UNCHANGED <<combiner, round, left, freeBefore, freeAfter, cache, linked, compared, merged, diffs>>

EndReferences ==
  /\ round = "references" /\ next \notin DOMAIN combiner.before
  /\ round' = "comparisons"
  /\ left' = freeBefore \X freeAfter
  /\ UNCHANGED <<combiner, next, freeBefore, freeAfter, cache, linked, compared, merged, diffs>>

-----------------------------------------------------------------------------
(***************************************************************************)
(* Round 2: every pair left, before in the outer loop; one that shows no   *)
(* difference is matched at once and its options are not compared again.   *)
(***************************************************************************)
IsNext(c) ==
  c \in left /\ \A x \in left : c[1] < x[1] \/ (c[1] = x[1] /\ c[2] <= x[2])

\* Mutant: one equal pair ends the whole round.
WholeRound(c) == left

Involving(c) == {x \in left : x[1] = c[1] \/ x[2] = c[2]}

Compare(c) ==
  LET p == PairAt(c[1], c[2])
  IN  /\ round = "comparisons" /\ IsNext(c)
      /\ compareCombinerItems(p)
      /\ IF Reported(p) = {}
         THEN Match(c[1], c[2]) /\ left' = left \ Involving(c) /\ UNCHANGED compared
         ELSE /\ compared' = compared \cup {c}
              /\ left' = left \ {c}
              /\ UNCHANGED <<freeBefore, freeAfter, merged>>
      /\ UNCHANGED <<combiner, round, next, diffs>>

EndComparisons ==
  /\ round = "comparisons" /\ left = {}
  /\ round' = "choices"
  /\ UNCHANGED <<combiner, next, left, freeBefore, freeAfter, cache, linked, compared, merged, diffs>>

-----------------------------------------------------------------------------
(***************************************************************************)
(* Round 3: the compared pairs, sorted by their dangerous differences, all *)
(* differences, the distance of their indexes; the sort is stable.         *)
(***************************************************************************)
Distance(c) == IF c[1] < c[2] THEN c[2] - c[1] ELSE c[1] - c[2]

\* Mutant: all differences count before the dangerous ones.
TotalFirst(c) ==
  LET shown == cache[PairAt(c[1], c[2])]
  IN  <<Cardinality(shown), Cardinality(shown \cap dangerous), Distance(c), c[1], c[2]>>

Rank(c) ==
  LET shown == cache[PairAt(c[1], c[2])]
  IN  <<Cardinality(shown \cap dangerous), Cardinality(shown), Distance(c), c[1], c[2]>>

Before(r, s) ==
  \E n \in DOMAIN r : r[n] < s[n] /\ \A m \in 1 .. n - 1 : r[m] = s[m]

Open == {c \in compared : c[1] \in freeBefore /\ c[2] \in freeAfter}

Choose(c) ==
  /\ round = "choices" /\ c \in Open
  /\ \A x \in Open : x = c \/ Before(Rank(c), Rank(x))
  /\ Match(c[1], c[2])
  /\ diffs' = diffs \cup cache[PairAt(c[1], c[2])]
  /\ UNCHANGED <<combiner, round, next, left, cache, linked, compared>>

-----------------------------------------------------------------------------
(***************************************************************************)
(* The rest: added options keep their index, removed ones are put on the   *)
(* free indexes, counted up to the last one used and a buffer.             *)
(***************************************************************************)
Greatest(S) == CHOOSE x \in S : \A y \in S : y <= x

\* Mutant: no safe buffer.
HolesOnly(used) == IF used = {} THEN {} ELSE (1 .. Greatest(used)) \ used

\* Math.max of nothing is -Infinity: then there are no free indexes at all.
FreeIndexes(used) ==
  IF used = {} THEN {} ELSE (1 .. Greatest(used) + Len(combiner.before)) \ used

\* The n-th free index for the n-th removed option; shift of an empty array is undefined.
PlaceOf(i, free) ==
  LET n == Cardinality({k \in freeBefore : k < i})
      place == {x \in free : Cardinality({y \in free : y < x}) = n}
  IN  IF place = {} THEN None ELSE Least(place)

\* Two removed options on one index: the last one stays.
Finish ==
  LET used == DOMAIN merged \cup freeAfter
      place == [i \in freeBefore |-> PlaceOf(i, FreeIndexes(used))]
      Last(x) == Greatest({i \in freeBefore : place[i] = x})
  IN  /\ round = "choices" /\ Open = {}
      /\ merged' = [x \in used \cup {place[i] : i \in freeBefore} |->
                      IF x \in {place[i] : i \in freeBefore}
                      THEN [before |-> Last(x), after |-> None]
                      ELSE IF x \in freeAfter THEN [before |-> None, after |-> x] ELSE merged[x]]
      /\ round' = "done"
      /\ UNCHANGED <<combiner, next, left, freeBefore, freeAfter, cache, linked, compared, diffs>>

Init ==
  /\ combiner \in Input
  /\ round = "references" /\ next = 1 /\ left = {}
  /\ freeBefore = DOMAIN combiner.before /\ freeAfter = DOMAIN combiner.after
  /\ cache = [p \in {} |-> {}] /\ linked = combiner.seen
  /\ compared = {} /\ merged = [x \in {} |-> None] /\ diffs = {}

Next ==
  \/ MatchByRef \/ NoSuchRef \/ EndReferences
  \/ \E c \in left : Compare(c)
  \/ EndComparisons
  \/ \E c \in compared : Choose(c)
  \/ Finish

Spec == Init /\ [][Next]_vars

-----------------------------------------------------------------------------
(***************************************************************************)
(* Properties                                                              *)
(***************************************************************************)
Done == round = "done"

\* The pairs of indexes matched, each at its index in after.
Matched ==
  {<<merged[x].before, merged[x].after>> :
     x \in {y \in DOMAIN merged : merged[y].before # None /\ merged[y].after # None}}

\* All that a pair of options shows.
Shown(i, j) ==
  LET p == PairAt(i, j)
  IN  combiner.own[p] \cup UNION {combiner.shows[x] : x \in combiner.parts[p]}

\* No part of a pair of options was compared before or is part of another pair.
PartsApart ==
  LET pairs == {PairAt(i, j) : i \in DOMAIN combiner.before, j \in DOMAIN combiner.after}
  IN  \A p, q \in pairs :
        /\ combiner.parts[p] \cap combiner.seen = {}
        /\ p # q => combiner.parts[p] \cap combiner.parts[q] = {}

(***************************************************************************)
(* The merged combiner has every option of both sides exactly once, those  *)
(* of after at their own index: an option put on the index of another one  *)
(* would be lost, with its difference.                                     *)
(***************************************************************************)
OptionsKept ==
  Done /\ combiner.after # <<>> =>
    /\ \A i \in DOMAIN combiner.before :
          Cardinality({x \in DOMAIN merged : merged[x].before = i}) = 1
    /\ \A j \in DOMAIN combiner.after : j \in DOMAIN merged /\ merged[j].after = j
    /\ \A x \in DOMAIN merged : merged[x].after \in {x, None}

(***************************************************************************)
(* However the rounds consume the options, no option is removed while      *)
(* another is added: such two would have been compared.                    *)
(***************************************************************************)
NothingLeftOver == Done => freeBefore = {} \/ freeAfter = {}

(***************************************************************************)
(* Options that refer to the same schema are compared with each other,     *)
(* whatever else fits better (jsonSchema.resolver.ts:66-68): as many as    *)
(* both sides have of them.                                                *)
(***************************************************************************)
RefsMatched ==
  Done => \A r \in Ref :
    LET b == {i \in DOMAIN combiner.before : combiner.ref[combiner.before[i]] = r}
        a == {j \in DOMAIN combiner.after : combiner.ref[combiner.after[j]] = r}
        both == {c \in Matched : c[1] \in b /\ c[2] \in a}
    IN  Cardinality(both) =
          IF Cardinality(b) < Cardinality(a) THEN Cardinality(b) ELSE Cardinality(a)

(***************************************************************************)
(* "Compare all combinations, find min diffs" (jsonSchema.resolver.ts:97): *)
(* of the options no reference has matched, no two would both have been    *)
(* better off with each other, dangerous differences counting first.       *)
(***************************************************************************)
Cost(i, j) == <<Cardinality(Shown(i, j) \cap dangerous), Cardinality(Shown(i, j))>>

Worse(c, i, j) ==
  /\ ~haveSameLastRef(PairAt(c[1], c[2]))
  /\ Before(Cost(i, j), Cost(c[1], c[2]))

MinDiffsFound ==
  Done =>
    ~ \E i \in DOMAIN combiner.before, j \in DOMAIN combiner.after :
        /\ \A c \in Matched : c[1] = i => Worse(c, i, j)
        /\ \A c \in Matched : c[2] = j => Worse(c, i, j)

(***************************************************************************)
(* When pairs of options share no parts, the pairing is that one, and the  *)
(* differences returned are those of the matched pairs, no more and no     *)
(* fewer.                                                                  *)
(***************************************************************************)
MinDiffsReported ==
  PartsApart =>
    /\ MinDiffsFound
    /\ Done => diffs = UNION {Shown(c[1], c[2]) : c \in Matched}

=============================================================================
