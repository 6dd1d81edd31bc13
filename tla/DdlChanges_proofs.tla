---------------------------- MODULE DdlChanges_proofs ----------------------------
(***************************************************************************)
(* Proofs about the comparison of two database schemas, with any number of *)
(* schemas, tables, columns and enums.                                     *)
(***************************************************************************)
EXTENDS DdlChanges, FoldFacts, FiniteSetTheorems

-----------------------------------------------------------------------------
(***************************************************************************)
(* The listing of a set.                                                   *)
(***************************************************************************)
\* The functions on the subsets of S with at most k elements that list them.
SmallSets(S, k) == {s \in SUBSET S : Cardinality(s) <= k}
Lists(g, S, k) ==
  \A s \in SmallSets(S, k) :
     g[s] = IF s = {} THEN <<>>
            ELSE Append(g[s \ {CHOOSE x \in s : TRUE}], CHOOSE x \in s : TRUE)

\* Taking the chosen element off a set.
LEMMA OneLess ==
  ASSUME NEW S, IsFiniteSet(S), NEW k \in Nat, NEW s \in SUBSET S, s # {}, Cardinality(s) <= k
  PROVE  /\ (CHOOSE x \in s : TRUE) \in s
         /\ s \ {CHOOSE x \in s : TRUE} \in SUBSET S
         /\ k # 0
         /\ Cardinality(s \ {CHOOSE x \in s : TRUE}) <= k - 1
<1>1. PICK x : x = CHOOSE y \in s : TRUE
  OBVIOUS
<1>2. x \in s
  BY <1>1
<1>3. IsFiniteSet(s) /\ Cardinality(s) \in Nat
  BY FS_Subset, FS_CardinalityType
<1>4. Cardinality(s \ {x}) = Cardinality(s) - 1 /\ IsFiniteSet(s \ {x})
  BY <1>2, <1>3, FS_RemoveElement
<1>5. Cardinality(s \ {x}) \in Nat
  BY <1>4, FS_CardinalityType
<1>6. QED
  BY <1>1, <1>2, <1>3, <1>4, <1>5

LEMMA ListsExist ==
  ASSUME NEW S, IsFiniteSet(S), NEW n \in Nat
  PROVE  \E g \in [SmallSets(S, n) -> Seq(S)] : Lists(g, S, n)
<1> DEFINE H == {k \in 0 .. n : \E g \in [SmallSets(S, k) -> Seq(S)] : Lists(g, S, k)}
<1>1. 0 \in H
  <2>1. \A s \in SmallSets(S, 0) : s = {}
    <3>1. ASSUME NEW s \in SmallSets(S, 0), s # {} PROVE FALSE
      BY <3>1, OneLess DEF SmallSets
    <3>2. QED
      BY <3>1
  <2>2. PICK g : g = [s \in SmallSets(S, 0) |-> <<>>]
    OBVIOUS
  <2>3. g \in [SmallSets(S, 0) -> Seq(S)] /\ Lists(g, S, 0) /\ 0 \in 0 .. n
    BY <2>1, <2>2 DEF Lists
  <2>4. QED
    BY <2>3
<1>2. ASSUME NEW k \in 1 .. n, k - 1 \in H PROVE k \in H
  <2>1. PICK f \in [SmallSets(S, k - 1) -> Seq(S)] : Lists(f, S, k - 1)
    BY <1>2
  <2>2. PICK g : g = [s \in SmallSets(S, k) |->
                        IF s = {} THEN <<>>
                        ELSE Append(f[s \ {CHOOSE x \in s : TRUE}], CHOOSE x \in s : TRUE)]
    OBVIOUS
  <2>3. ASSUME NEW s \in SmallSets(S, k), s # {}
        PROVE  /\ (CHOOSE x \in s : TRUE) \in S
               /\ s \ {CHOOSE x \in s : TRUE} \in SmallSets(S, k - 1)
               /\ s \ {CHOOSE x \in s : TRUE} \in SmallSets(S, k)
    <3>1. k \in Nat /\ s \in SUBSET S /\ Cardinality(s) <= k
      BY DEF SmallSets
    <3>2. PICK t : t = s \ {CHOOSE x \in s : TRUE}
      OBVIOUS
    <3>3. (CHOOSE x \in s : TRUE) \in s /\ t \in SUBSET S /\ Cardinality(t) <= k - 1
      BY <2>3, <3>1, <3>2, OneLess
    <3>4. Cardinality(t) \in Nat
      BY <3>3, FS_Subset, FS_CardinalityType
    <3>5. Cardinality(t) <= k
      BY <3>1, <3>3, <3>4
    <3>6. QED
      BY <3>1, <3>2, <3>3, <3>5 DEF SmallSets
  <2>4. \A s \in SmallSets(S, k - 1) : f[s] = g[s]
    <3>1. ASSUME NEW s \in SmallSets(S, k - 1) PROVE f[s] = g[s] 
      <4>1. Cardinality(s) \in Nat
        BY FS_Subset, FS_CardinalityType DEF SmallSets
      <4>2. s \in SmallSets(S, k)
        BY <4>1 DEF SmallSets
      <4>3. QED
        BY <2>1, <2>2, <4>2 DEF Lists
    <3>2. QED
      BY <3>1
  <2>5. g \in [SmallSets(S, k) -> Seq(S)]
    <3>1. ASSUME NEW s \in SmallSets(S, k), s # {}
          PROVE  Append(f[s \ {CHOOSE x \in s : TRUE}], CHOOSE x \in s : TRUE) \in Seq(S)
      BY <2>1, <2>3, <3>1
    <3>2. <<>> \in Seq(S)
      OBVIOUS
    <3>3. QED
      BY <2>2, <3>1, <3>2
  <2>6. Lists(g, S, k)
    <3>1. ASSUME NEW s \in SmallSets(S, k), s # {}
          PROVE  g[s] = Append(g[s \ {CHOOSE x \in s : TRUE}], CHOOSE x \in s : TRUE)
      <4>1. PICK t : t = s \ {CHOOSE x \in s : TRUE}
        OBVIOUS
      <4>2. g[s] = Append(f[t], CHOOSE x \in s : TRUE)
        BY <2>2, <3>1, <4>1
      <4>3. f[t] = g[t]
        BY <2>3, <2>4, <3>1, <4>1
      <4>4. QED
        BY <4>1, <4>2, <4>3
    <3>2. QED
      BY <2>2, <3>1 DEF Lists
  <2>7. k \in 0 .. n
    OBVIOUS
  <2>8. QED
    BY <2>5, <2>6, <2>7
<1>3. n \in H
  <2> HIDE DEF H
  <2>1. n \in 0 .. n /\ \A k \in 0 .. n : k \in H
    BY <1>1, <1>2, Rounds
  <2>2. QED
    BY <2>1
<1>4. QED
  BY <1>3

\* What lists the sets lists each.
LEMMA ListsList ==
  ASSUME NEW S, IsFiniteSet(S), NEW n \in Nat, NEW g, Lists(g, S, n)
  PROVE  \A s \in SmallSets(S, n) : g[s] \in Seq(s) /\ ElementsOf(g[s]) = s
<1> DEFINE H == {k \in 0 .. n : \A s \in SmallSets(S, k) : g[s] \in Seq(s) /\ ElementsOf(g[s]) = s}
<1>0. \A k \in 0 .. n : SmallSets(S, k) \subseteq SmallSets(S, n)
  <2>1. ASSUME NEW k \in 0 .. n, NEW s \in SmallSets(S, k) PROVE s \in SmallSets(S, n)
    <3>1. Cardinality(s) \in Nat /\ Cardinality(s) <= k /\ s \in SUBSET S
      BY FS_Subset, FS_CardinalityType DEF SmallSets
    <3>2. QED
      BY <3>1 DEF SmallSets
  <2>2. QED
    BY <2>1
<1>1. 0 \in H
  <2>1. ASSUME NEW s \in SmallSets(S, 0) PROVE g[s] \in Seq(s) /\ ElementsOf(g[s]) = s
    <3>1. s = {}
      BY OneLess DEF SmallSets
    <3>2. 0 \in 0 .. n
      OBVIOUS
    <3>3. g[s] = <<>>
      BY <1>0, <3>1, <3>2 DEF Lists
    <3>4. QED
      BY <3>1, <3>3 DEF ElementsOf
  <2>2. QED
    BY <2>1
<1>2. ASSUME NEW k \in 1 .. n, k - 1 \in H PROVE k \in H
  <2>1. ASSUME NEW s \in SmallSets(S, k) PROVE g[s] \in Seq(s) /\ ElementsOf(g[s]) = s
    <3>1. s \in SmallSets(S, n) /\ k \in Nat
      BY <1>0
    <3>2. CASE s = {}
      <4>1. g[s] = <<>>
        BY <3>1, <3>2 DEF Lists
      <4>2. QED
        BY <3>2, <4>1 DEF ElementsOf
    <3>3. CASE s # {}
      <4>1. PICK x, t : x = (CHOOSE y \in s : TRUE) /\ t = s \ {x}
        OBVIOUS
      <4>2. x \in s /\ t \in SUBSET S /\ Cardinality(t) <= k - 1
        BY <3>1, <3>3, <4>1, OneLess DEF SmallSets
      <4>3. t \in SmallSets(S, k - 1)
        BY <4>2 DEF SmallSets
      <4>4. g[t] \in Seq(t) /\ ElementsOf(g[t]) = t
        BY <1>2, <4>3
      <4>5. g[s] = Append(g[t], x)
        BY <3>1, <3>3, <4>1 DEF Lists
      <4>6. g[t] \in Seq(s)
        BY <4>1, <4>4
      <4>7. g[s] \in Seq(s)
        BY <4>2, <4>5, <4>6
      <4>8. ElementsOf(g[s]) = ElementsOf(g[t]) \cup {x}
        <5>1. PICK q \in Seq(s) : q = g[t]
          BY <4>6
        <5>2. /\ DOMAIN Append(q, x) = DOMAIN q \cup {Len(q) + 1}
              /\ Append(q, x)[Len(q) + 1] = x /\ \A i \in DOMAIN q : Append(q, x)[i] = q[i]
          BY <4>2, <5>1
        <5>3. ElementsOf(Append(q, x)) = ElementsOf(q) \cup {x}
          BY <5>2 DEF ElementsOf
        <5>4. QED
          BY <4>5, <5>1, <5>3
      <4>9. QED
        BY <4>1, <4>2, <4>4, <4>7, <4>8
    <3>4. QED
      BY <3>2, <3>3
  <2>2. k \in 0 .. n
    OBVIOUS
  <2>3. QED
    BY <2>1, <2>2
<1>3. n \in H
  <2> HIDE DEF H
  <2>1. n \in 0 .. n /\ \A k \in 0 .. n : k \in H
    BY <1>1, <1>2, Rounds
  <2>2. QED
    BY <2>1
<1>4. QED
  BY <1>3

\* Every element of a finite set is in its listing, and nothing else.
LEMMA ListedLists ==
  ASSUME NEW S, IsFiniteSet(S)
  PROVE  Listed(S) \in Seq(S) /\ ElementsOf(Listed(S)) = S
<1> DEFINE IsFold(g) == g = [s \in SUBSET S |->
                               IF s = {} THEN <<>>
                               ELSE Append(g[s \ {CHOOSE x \in s : TRUE}], CHOOSE x \in s : TRUE)]
           n == Cardinality(S)
<1>1. n \in Nat /\ \A s \in SUBSET S : Cardinality(s) <= n
  BY FS_CardinalityType, FS_Subset
<1>2. SmallSets(S, n) = SUBSET S
  BY <1>1 DEF SmallSets
<1>3. Listed(S) = (CHOOSE g : IsFold(g))[S]
  BY DEF Listed, FoldSet, MapThenFoldSet
<1>4. PICK g \in [SUBSET S -> Seq(S)] : Lists(g, S, n)
  BY <1>1, <1>2, ListsExist
<1>5. IsFold(g)
  BY <1>2, <1>4 DEF Lists
<1>6. PICK f : IsFold(f) /\ Listed(S) = f[S]
  BY <1>3, <1>5
<1>7. Lists(f, S, n)
  BY <1>2, <1>6 DEF Lists
<1>8. S \in SmallSets(S, n) /\ n \in Nat
  BY <1>1, <1>2
<1>9. f[S] \in Seq(S) /\ ElementsOf(f[S]) = S
  <2> HIDE DEF n
  <2>1. QED
    BY <1>7, <1>8, ListsList
<1>10. QED
  BY <1>6, <1>9

-----------------------------------------------------------------------------
(***************************************************************************)
(* The tables of rules.  A table is as deep as its tables of children go,  *)
(* up to those that are named only; the deepest is that of a table, whose  *)
(* indexes have parts, which have attributes.                              *)
(***************************************************************************)
\* A record of rules: no adapters, no scope, one of the classify rules C, one of the late names L.
Heads(r, C, L) ==
  /\ r = [classify |-> r.classify, kids |-> r.kids, mapping |-> r.mapping, compare |-> r.compare,
          adapters |-> <<>>, scope |-> None, flags |-> r.flags, lazy |-> r.lazy]
  /\ r.classify \in C /\ r.lazy \in L \cup {None}
  /\ r.lazy # None => r.mapping = "default"

\* What an array may have: the rules of its elements, or none.
Simple(r) == r.lazy = None /\ DOMAIN r.kids \subseteq {"any"}

\* The children of an object: a resolver of their own only for arrays, and for arrays nothing else.
FitsAt(k, r) ==
  k # "any" /\ (r.mapping # "default" => k \in ArrayKeys) /\ (k \in ArrayKeys => Simple(r))
GoodKids(kids) == \A k \in DOMAIN kids : FitsAt(k, kids[k])

ListsOnly(r) ==
  \/ GoodKids(r.kids)
  \/ DOMAIN r.kids = {"any"} /\ r.mapping # "default" /\ r.kids["any"].mapping = "default"

Depth0(r, C, L) == Heads(r, C, L) /\ DOMAIN r.kids = {}
Depth1(r, C, L) == Heads(r, C, L) /\ ListsOnly(r) /\ \A k \in DOMAIN r.kids : Depth0(r.kids[k], C, L)
Depth2(r, C, L) == Heads(r, C, L) /\ ListsOnly(r) /\ \A k \in DOMAIN r.kids : Depth1(r.kids[k], C, L)
Depth3(r, C, L) == Heads(r, C, L) /\ ListsOnly(r) /\ \A k \in DOMAIN r.kids : Depth2(r.kids[k], C, L)
Depth4(r, C, L) == Heads(r, C, L) /\ ListsOnly(r) /\ \A k \in DOMAIN r.kids : Depth3(r.kids[k], C, L)
Depth5(r, C, L) == Heads(r, C, L) /\ ListsOnly(r) /\ \A k \in DOMAIN r.kids : Depth4(r.kids[k], C, L)
Depth6(r, C, L) == Heads(r, C, L) /\ ListsOnly(r) /\ \A k \in DOMAIN r.kids : Depth5(r.kids[k], C, L)

LEMMA Deeper ==
  ASSUME NEW r, NEW C, NEW L
  PROVE  /\ Depth0(r, C, L) => Depth1(r, C, L)
         /\ Depth1(r, C, L) => Depth2(r, C, L)
         /\ Depth2(r, C, L) => Depth3(r, C, L)
         /\ Depth3(r, C, L) => Depth4(r, C, L)
         /\ Depth4(r, C, L) => Depth5(r, C, L)
         /\ Depth5(r, C, L) => Depth6(r, C, L)
<1>1. \A q : Depth0(q, C, L) => Depth1(q, C, L)
  BY DEF Depth0, Depth1, ListsOnly, GoodKids
<1>2. \A q : Depth1(q, C, L) => Depth2(q, C, L)
  BY <1>1 DEF Depth1, Depth2
<1>3. \A q : Depth2(q, C, L) => Depth3(q, C, L)
  BY <1>2 DEF Depth2, Depth3
<1>4. \A q : Depth3(q, C, L) => Depth4(q, C, L)
  BY <1>3 DEF Depth3, Depth4
<1>5. \A q : Depth4(q, C, L) => Depth5(q, C, L)
  BY <1>4 DEF Depth4, Depth5
<1>6. \A q : Depth5(q, C, L) => Depth6(q, C, L)
  BY <1>5 DEF Depth5, Depth6
<1>7. QED
  BY <1>1, <1>2, <1>3, <1>4, <1>5, <1>6

Calm == {"allNonBreaking", "allAnnotation", "allUnclassified"}
CalmLazy == {"attrRules", "exprRules"}

ClassifyNames == Calm \cup {"addNonBreaking", "typeNameClassifier"}

\* How tables are made from tables.
LEMMA LeafDepth ==
  ASSUME NEW C, NEW L, NEW c \in C
  PROVE  Depth0(Leaf(c), C, L)
  BY DEF Depth0, Heads, Leaf, Node, NoKids, Nothing

LEMMA LazyDepth ==
  ASSUME NEW C, "allUnclassified" \in C, NEW L, NEW name \in L
  PROVE  Depth0(Lazy(name), C, L)
  BY DEF Depth0, Heads, Lazy, NoRules, Leaf, Node, NoKids, Nothing

\* More flags, and the same table.
LEMMA MoreFlags ==
  ASSUME NEW C, NEW L, NEW r, Heads(r, C, L), NEW more, NEW q, q = [r EXCEPT !.flags = @ \cup more]
  PROVE  /\ Heads(q, C, L) /\ q.kids = r.kids /\ q.classify = r.classify /\ q.lazy = r.lazy
         /\ q.mapping = r.mapping /\ q.compare = r.compare /\ q.flags = r.flags \cup more
<1>1. PICK c, k, m, p, f, l : r = [classify |-> c, kids |-> k, mapping |-> m, compare |-> p,
                                   adapters |-> <<>>, scope |-> None, flags |-> f, lazy |-> l]
  BY DEF Heads
<1>2. PICK g : g = f \cup more
  OBVIOUS
<1>3. q = [r EXCEPT !.flags = g]
  BY <1>1, <1>2
<1>4. q = [classify |-> c, kids |-> k, mapping |-> m, compare |-> p,
           adapters |-> <<>>, scope |-> None, flags |-> g, lazy |-> l]
  BY <1>1, <1>3
<1>5. QED
  BY <1>1, <1>2, <1>4 DEF Heads

LEMMA FlagsDepth ==
  ASSUME NEW C, NEW L, NEW r, NEW more, NEW q, q = [r EXCEPT !.flags = @ \cup more]
  PROVE  /\ Depth0(r, C, L) => Depth0(q, C, L)
         /\ Depth1(r, C, L) => Depth1(q, C, L)
         /\ Depth2(r, C, L) => Depth2(q, C, L)
         /\ Depth4(r, C, L) => Depth4(q, C, L)
         /\ Depth6(r, C, L) => Depth6(q, C, L)
<1>1. Heads(r, C, L) => Heads(q, C, L) /\ q.kids = r.kids
  BY MoreFlags
<1>2. QED
  BY <1>1 DEF Depth0, Depth1, Depth2, Depth4, Depth6, ListsOnly

LEMMA FlaggedDepth ==
  ASSUME NEW C, NEW L, NEW r, NEW flag
  PROVE  /\ Depth0(r, C, L) => Depth0(Flagged(r, flag), C, L)
         /\ Depth1(r, C, L) => Depth1(Flagged(r, flag), C, L)
         /\ Depth2(r, C, L) => Depth2(Flagged(r, flag), C, L)
         /\ Depth4(r, C, L) => Depth4(Flagged(r, flag), C, L)
         /\ Depth6(r, C, L) => Depth6(Flagged(r, flag), C, L)
         /\ Heads(r, C, L) => /\ Flagged(r, flag).lazy = r.lazy
                              /\ Flagged(r, flag).mapping = r.mapping
<1>1. PICK q : q = [r EXCEPT !.flags = @ \cup {flag}]
  OBVIOUS
<1>2. Flagged(r, flag) = q
  BY <1>1 DEF Flagged
<1>3. Heads(r, C, L) => q.lazy = r.lazy /\ q.mapping = r.mapping
  BY <1>1, MoreFlags
<1>4. QED
  BY <1>1, <1>2, <1>3, FlagsDepth

LEMMA NodeDepth ==
  ASSUME NEW C, NEW L, NEW c \in C, NEW kids, GoodKids(kids)
  PROVE  /\ (\A k \in DOMAIN kids : Depth0(kids[k], C, L)) => Depth1(Node(c, kids), C, L)
         /\ (\A k \in DOMAIN kids : Depth1(kids[k], C, L)) => Depth2(Node(c, kids), C, L)
         /\ (\A k \in DOMAIN kids : Depth2(kids[k], C, L)) => Depth3(Node(c, kids), C, L)
         /\ (\A k \in DOMAIN kids : Depth3(kids[k], C, L)) => Depth4(Node(c, kids), C, L)
         /\ (\A k \in DOMAIN kids : Depth5(kids[k], C, L)) => Depth6(Node(c, kids), C, L)
<1>1. Heads(Node(c, kids), C, L) /\ Node(c, kids).kids = kids
  BY DEF Heads, Node
<1>2. QED
  BY <1>1 DEF Depth1, Depth2, Depth3, Depth4, Depth6, ListsOnly

\* The rules of an array: those of its elements, under any index.
LEMMA EachDepth ==
  ASSUME NEW C, "allUnclassified" \in C, NEW L, NEW r, r.mapping = "default",
         NEW resolver, resolver # "default"
  PROVE  /\ Each(r, resolver).mapping = resolver /\ Simple(Each(r, resolver))
         /\ Depth0(r, C, L) => Depth1(Each(r, resolver), C, L)
         /\ Depth2(r, C, L) => Depth3(Each(r, resolver), C, L)
         /\ Depth4(r, C, L) => Depth5(Each(r, resolver), C, L)
<1>1. PICK e : e = asElement(r)
  OBVIOUS
<1>2. /\ Depth0(r, C, L) => Depth0(e, C, L)
      /\ Depth2(r, C, L) => Depth2(e, C, L)
      /\ Depth4(r, C, L) => Depth4(e, C, L)
  BY <1>1, FlaggedDepth DEF asElement
<1>3. Heads(r, C, L) => e.mapping = "default"
  BY <1>1 DEF asElement, Flagged, Heads
<1>4. Each(r, resolver)
        = [classify |-> "allUnclassified", kids |-> [any |-> e], mapping |-> resolver,
           compare |-> "default", adapters |-> <<>>, scope |-> None, flags |-> {}, lazy |-> None]
  <2>1. PICK kids : kids = [any |-> e]
    OBVIOUS
  <2>2. Each(r, resolver) = Mapped(Node("allUnclassified", kids), resolver)
    BY <1>1, <2>1 DEF Each
  <2>3. QED
    BY <2>1, <2>2 DEF Mapped, Node
<1>5. /\ Each(r, resolver).kids = [any |-> e] /\ Each(r, resolver).mapping = resolver
      /\ Heads(Each(r, resolver), C, L)
  BY <1>4 DEF Heads
<1>6. /\ DOMAIN Each(r, resolver).kids = {"any"} /\ Each(r, resolver).kids["any"] = e
  BY <1>5
<1>7. /\ Heads(r, C, L) => ListsOnly(Each(r, resolver))
      /\ Simple(Each(r, resolver))
  BY <1>3, <1>4, <1>5, <1>6 DEF ListsOnly, Simple
<1>8. /\ Depth0(r, C, L) => Heads(r, C, L)
      /\ Depth2(r, C, L) => Heads(r, C, L)
      /\ Depth4(r, C, L) => Heads(r, C, L)
  BY DEF Depth0, Depth2, Depth4
<1>9. PICK x : x = Each(r, resolver)
  OBVIOUS
<1>10. Heads(x, C, L) /\ \A k \in DOMAIN x.kids : x.kids[k] = e
  BY <1>5, <1>6, <1>9
<1>11. Depth0(r, C, L) => Depth1(x, C, L)
  <2>1. Depth0(r, C, L) => ListsOnly(x) /\ Depth0(e, C, L)
    BY <1>2, <1>7, <1>8, <1>9
  <2>2. QED
    BY <1>10, <2>1 DEF Depth1
<1>12. Depth2(r, C, L) => Depth3(x, C, L)
  <2>1. Depth2(r, C, L) => ListsOnly(x) /\ Depth2(e, C, L)
    BY <1>2, <1>7, <1>8, <1>9
  <2>2. QED
    BY <1>10, <2>1 DEF Depth3
<1>13. Depth4(r, C, L) => Depth5(x, C, L)
  <2>1. Depth4(r, C, L) => ListsOnly(x) /\ Depth4(e, C, L)
    BY <1>2, <1>7, <1>8, <1>9
  <2>2. QED
    BY <1>10, <2>1 DEF Depth5
<1>14. QED
  BY <1>5, <1>7, <1>9, <1>11, <1>12, <1>13

\* A child is one of those of a table, or that of SUPPRESS.
LEMMA SuppressedKids ==
  ASSUME NEW kids
  PROVE  \A k \in DOMAIN Suppressed(kids) :
           \/ k = "kind" /\ Suppressed(kids)[k] = SUPPRESS
           \/ k \in DOMAIN kids /\ Suppressed(kids)[k] = kids[k]
<1>1. PICK s : s = [kind |-> SUPPRESS]
  OBVIOUS
<1>2. \A k \in DOMAIN s : k = "kind" /\ s[k] = SUPPRESS
  BY <1>1
<1>3. Suppressed(kids)
        = [k \in DOMAIN s \cup DOMAIN kids |-> IF k \in DOMAIN s THEN s[k] ELSE kids[k]]
  BY <1>1 DEF Suppressed, Over
<1>4. QED
  BY <1>2, <1>3

\* Rules without children, and without a resolver of their own.
Bare(r) == r.lazy = None /\ r.mapping = "default" /\ DOMAIN r.kids = {}

\* Tables of no more than one level.
LEMMA FlatTables ==
  ASSUME NEW C, Calm \subseteq C, NEW L, CalmLazy \subseteq L
  PROVE  /\ Depth0(NoRules, C, L) /\ Bare(NoRules)
         /\ Depth0(SUPPRESS, C, L) /\ Bare(SUPPRESS)
         /\ \A c \in C : Depth0(Leaf(c), C, L) /\ Bare(Leaf(c))
         /\ \A name \in L : Depth0(Lazy(name), C, L) /\ Lazy(name).mapping = "default"
         /\ \A same : Depth0(AsOneValue(same), C, L) /\ Bare(AsOneValue(same))
         /\ Depth1(attrsArrayRule, C, L) /\ Simple(attrsArrayRule)
<1>1. /\ Calm \subseteq C /\ "allUnclassified" \in C /\ "allNonBreaking" \in C
      /\ "attrRules" \in L /\ "exprRules" \in L
  BY DEF Calm, CalmLazy
<1>2. \A c \in C : Depth0(Leaf(c), C, L) /\ Bare(Leaf(c))
  BY LeafDepth DEF Leaf, Node, Bare, NoKids, Nothing
<1>3. \A name \in L : Depth0(Lazy(name), C, L) /\ Lazy(name).mapping = "default"
  BY <1>1, LazyDepth DEF Lazy, NoRules, Leaf, Node
<1>4. Depth0(NoRules, C, L) /\ Bare(NoRules)
  BY <1>1, <1>2 DEF NoRules
<1>5. Depth0(SUPPRESS, C, L)
  BY <1>4, FlaggedDepth DEF SUPPRESS
<1>6. Bare(SUPPRESS)
  BY <1>4, MoreFlags DEF SUPPRESS, Flagged, Bare, Depth0
<1>7. ASSUME NEW same PROVE Depth0(AsOneValue(same), C, L) /\ Bare(AsOneValue(same))
  <2>1. AsOneValue(same)
          = [classify |-> "allNonBreaking", kids |-> Nothing, mapping |-> "default",
             compare |-> same, adapters |-> <<>>, scope |-> None, flags |-> {}, lazy |-> None]
    <3>1. PICK leaf : leaf = Leaf("allNonBreaking")
      OBVIOUS
    <3>2. PICK c, k, m, p, a, f : /\ c = "allNonBreaking" /\ k = Nothing /\ m = "default"
                                  /\ p = "default" /\ a = <<>> /\ f = {}
      OBVIOUS
    <3>3. leaf = [classify |-> c, kids |-> k, mapping |-> m, compare |-> p,
                  adapters |-> a, scope |-> None, flags |-> f, lazy |-> None]
      BY <3>1, <3>2 DEF Leaf, Node, NoKids
    <3>4. [leaf EXCEPT !.compare = same]
            = [classify |-> c, kids |-> k, mapping |-> m, compare |-> same,
               adapters |-> a, scope |-> None, flags |-> f, lazy |-> None]
      BY <3>3
    <3>5. QED
      BY <3>1, <3>2, <3>4 DEF AsOneValue
  <2>2. DOMAIN Nothing = {}
    BY DEF Nothing
  <2>3. QED
    BY <1>1, <2>1, <2>2 DEF Depth0, Heads, Bare
<1>8. Depth1(attrsArrayRule, C, L) /\ Simple(attrsArrayRule)
  BY <1>1, <1>3, EachDepth DEF attrsArrayRule
<1>9. QED
  BY <1>2, <1>3, <1>4, <1>5, <1>6, <1>7, <1>8

\* Where rules without children fit, and those of an array.
LEMMA BareFits ==
  /\ \A k, r : Bare(r) /\ k # "any" => FitsAt(k, r)
  /\ \A k, r : r.mapping = "default" /\ k # "any" /\ k \notin ArrayKeys => FitsAt(k, r)
  /\ \A k, r : Simple(r) /\ k \in ArrayKeys => FitsAt(k, r)
  /\ \A kids : GoodKids(kids) => GoodKids(Suppressed(kids))
<1>1. \A k, r : Bare(r) /\ k # "any" => FitsAt(k, r)
  BY DEF Bare, FitsAt, Simple
<1>2. \A k, r : Simple(r) /\ k \in ArrayKeys => FitsAt(k, r)
  BY DEF FitsAt, ArrayKeys
<1>3. ASSUME NEW kids, GoodKids(kids) PROVE GoodKids(Suppressed(kids))
  <2>1. FitsAt("kind", SUPPRESS)
    BY <1>1, FlatTables
  <2>2. QED
    BY <1>3, <2>1, SuppressedKids DEF GoodKids
<1>4. QED
  BY <1>1, <1>2, <1>3 DEF FitsAt

SmallKid(k, r, C, L) == (Depth0(r, C, L) /\ FitsAt(k, r)) \/ (k = "attrs" /\ r = attrsArrayRule)

\* A table of leaves, one of which may be its attributes.
LEMMA SmallTable ==
  ASSUME NEW C, Calm \subseteq C, NEW L, CalmLazy \subseteq L, NEW c \in C, NEW kids,
         \A k \in DOMAIN kids : SmallKid(k, kids[k], C, L)
  PROVE  Depth2(Node(c, kids), C, L) /\ Depth2(Node(c, Suppressed(kids)), C, L)
<1>1. /\ Depth1(attrsArrayRule, C, L) /\ Depth0(SUPPRESS, C, L)
      /\ FitsAt("attrs", attrsArrayRule)
  BY FlatTables, BareFits DEF ArrayKeys
<1>2. \A r : Depth0(r, C, L) => Depth1(r, C, L)
  BY Deeper
<1>3. (\A k \in DOMAIN kids : Depth1(kids[k], C, L)) /\ GoodKids(kids)
  BY <1>1, <1>2 DEF GoodKids, SmallKid
<1>4. (\A k \in DOMAIN Suppressed(kids) : Depth1(Suppressed(kids)[k], C, L))
        /\ GoodKids(Suppressed(kids))
  BY <1>1, <1>2, <1>3, SuppressedKids, BareFits
<1>5. Depth2(Node(c, kids), C, L)
  BY <1>3, NodeDepth
<1>6. Depth2(Node(c, Suppressed(kids)), C, L)
  BY <1>4, NodeDepth
<1>7. QED
  BY <1>5, <1>6

\* The tables without a verdict that is breaking.
LEMMA CalmTables ==
  ASSUME NEW C, Calm \subseteq C, NEW L, CalmLazy \subseteq L
  PROVE  /\ \A r \in {commentRules, collationRules, checkRules, generatedExprRules, literalRules,
                      rawExprRules, namedDefaultRules, indexPartRules, foreignKeyRules} :
              Depth2(r, C, L) /\ r.mapping = "default"
         /\ Depth4(indexRules, C, L) /\ indexRules.mapping = "default"
<1>1. /\ "allNonBreaking" \in C /\ "allAnnotation" \in C
      /\ "attrRules" \in L /\ "exprRules" \in L
  BY DEF Calm, CalmLazy
<1>2. /\ \A k : k # "any" => /\ SmallKid(k, Leaf("allNonBreaking"), C, L)
                             /\ SmallKid(k, Leaf("allAnnotation"), C, L)
                             /\ \A same : SmallKid(k, AsOneValue(same), C, L)
      /\ SmallKid("expr", Lazy("exprRules"), C, L) /\ SmallKid("attrs", attrsArrayRule, C, L)
  <2>1. "expr" # "any" /\ "expr" \notin ArrayKeys
    BY DEF ArrayKeys
  <2>2. QED
    BY <1>1, <2>1, FlatTables, BareFits DEF SmallKid
<1>3. \A c, kids : Node(c, kids).mapping = "default"
  BY DEF Node
<1>4. Depth2(commentRules, C, L)
  <2>1. PICK kids : kids = [text |-> Leaf("allAnnotation")]
    OBVIOUS
  <2>2. commentRules = Node("allAnnotation", Suppressed(kids))
    BY <2>1 DEF commentRules
  <2>3. \A k \in DOMAIN kids : SmallKid(k, kids[k], C, L)
    BY <1>2, <2>1
  <2>4. QED
    BY <1>1, <2>2, <2>3, SmallTable
<1>5. Depth2(collationRules, C, L) /\ Depth2(literalRules, C, L)
  <2>1. PICK kids : kids = [value |-> Leaf("allNonBreaking")]
    OBVIOUS
  <2>2. /\ collationRules = Node("allNonBreaking", Suppressed(kids))
        /\ literalRules = Node("allNonBreaking", Suppressed(kids))
    BY <2>1 DEF collationRules, literalRules
  <2>3. \A k \in DOMAIN kids : SmallKid(k, kids[k], C, L)
    BY <1>2, <2>1
  <2>4. QED
    BY <1>1, <2>2, <2>3, SmallTable
<1>6. Depth2(checkRules, C, L)
  <2>1. PICK kids : kids = [expr |-> Leaf("allNonBreaking"), attrs |-> attrsArrayRule]
    OBVIOUS
  <2>2. checkRules = Node("allNonBreaking", Suppressed(kids))
    BY <2>1 DEF checkRules
  <2>3. \A k \in DOMAIN kids : SmallKid(k, kids[k], C, L)
    BY <1>2, <2>1
  <2>4. QED
    BY <1>1, <2>2, <2>3, SmallTable
<1>7. Depth2(generatedExprRules, C, L) /\ Depth2(rawExprRules, C, L)
  <2>1. PICK kids : kids = [expr |-> Leaf("allNonBreaking")]
    OBVIOUS
  <2>2. /\ generatedExprRules = Node("allNonBreaking", Suppressed(kids))
        /\ rawExprRules = Node("allNonBreaking", Suppressed(kids))
    BY <2>1 DEF generatedExprRules, rawExprRules
  <2>3. \A k \in DOMAIN kids : SmallKid(k, kids[k], C, L)
    BY <1>2, <2>1
  <2>4. QED
    BY <1>1, <2>2, <2>3, SmallTable
<1>8. Depth2(namedDefaultRules, C, L)
  <2>1. PICK kids : kids = [expr |-> Lazy("exprRules"), attrs |-> attrsArrayRule]
    OBVIOUS
  <2>2. namedDefaultRules = Node("allNonBreaking", Suppressed(kids))
    BY <2>1 DEF namedDefaultRules
  <2>3. \A k \in DOMAIN kids : SmallKid(k, kids[k], C, L)
    BY <1>2, <2>1
  <2>4. QED
    BY <1>1, <2>2, <2>3, SmallTable
<1>9. Depth2(indexPartRules, C, L)
  <2>1. PICK kids : kids = [seqNo |-> Leaf("allNonBreaking"), expr |-> Lazy("exprRules"),
                            attrs |-> attrsArrayRule]
    OBVIOUS
  <2>2. indexPartRules = Node("allNonBreaking", kids)
    BY <2>1 DEF indexPartRules
  <2>3. \A k \in DOMAIN kids : SmallKid(k, kids[k], C, L)
    BY <1>2, <2>1
  <2>4. Depth2(Node("allNonBreaking", kids), C, L)
    BY <1>1, <2>3, SmallTable
  <2>5. QED
    BY <2>2, <2>4
<1>10. Depth2(foreignKeyRules, C, L)
  <2>1. PICK kids :
          kids = [columns |-> AsOneValue("sameNames"), refTable |-> AsOneValue("sameTableRef"),
                  refColumns |-> AsOneValue("sameNames"), onUpdate |-> Leaf("allNonBreaking"),
                  onDelete |-> Leaf("allNonBreaking"), attrs |-> attrsArrayRule]
    OBVIOUS
  <2>2. foreignKeyRules = Node("allNonBreaking", Suppressed(kids))
    BY <2>1 DEF foreignKeyRules
  <2>3. \A k \in DOMAIN kids : SmallKid(k, kids[k], C, L)
    BY <1>2, <2>1
  <2>4. QED
    BY <1>1, <2>2, <2>3, SmallTable
<1>11. Depth4(indexRules, C, L)
  <2>1. PICK kids : kids = [unique |-> Leaf("allNonBreaking"), attrs |-> attrsArrayRule,
                            parts |-> Each(indexPartRules, "indexPartMappingResolver")]
    OBVIOUS
  <2>2. indexRules = Node("allNonBreaking", Suppressed(kids))
    BY <2>1 DEF indexRules
  <2>3. indexPartRules.mapping = "default"
    BY <1>3 DEF indexPartRules
  <2>4. "allUnclassified" \in C
    BY DEF Calm
  <2>5. /\ Depth3(Each(indexPartRules, "indexPartMappingResolver"), C, L)
        /\ Simple(Each(indexPartRules, "indexPartMappingResolver"))
    BY <1>9, <2>3, <2>4, EachDepth
  <2>6. /\ Depth1(attrsArrayRule, C, L) /\ Simple(attrsArrayRule)
        /\ Depth0(SUPPRESS, C, L) /\ Depth0(Leaf("allNonBreaking"), C, L)
        /\ Bare(Leaf("allNonBreaking"))
    BY <1>1, FlatTables
  <2>7. \A r : Depth0(r, C, L) \/ Depth1(r, C, L) => Depth3(r, C, L)
    BY Deeper
  <2>8. /\ FitsAt("unique", Leaf("allNonBreaking")) /\ FitsAt("attrs", attrsArrayRule)
        /\ FitsAt("parts", Each(indexPartRules, "indexPartMappingResolver"))
    BY <2>5, <2>6, BareFits DEF ArrayKeys
  <2>9. (\A k \in DOMAIN kids : Depth3(kids[k], C, L)) /\ GoodKids(kids)
    BY <2>1, <2>5, <2>6, <2>7, <2>8 DEF GoodKids
  <2>10. (\A k \in DOMAIN Suppressed(kids) : Depth3(Suppressed(kids)[k], C, L))
           /\ GoodKids(Suppressed(kids))
    BY <2>6, <2>7, <2>9, SuppressedKids, BareFits
  <2>11. QED
    BY <1>1, <2>2, <2>10, NodeDepth
<1>12. QED
  BY <1>3, <1>4, <1>5, <1>6, <1>7, <1>8, <1>9, <1>10, <1>11
     DEF commentRules, collationRules, checkRules, generatedExprRules, literalRules,
         rawExprRules, namedDefaultRules, indexPartRules, foreignKeyRules, indexRules

\* All tables that are not named only.
IsTable(r) == Depth6(r, ClassifyNames, LazyNames)
IsCalm(r) == Depth6(r, Calm, CalmLazy)

LEMMA SchemaTables ==
  /\ \A r \in {scalarTypeRules, enumTypeRules, columnRules, tableRules, schemaRules, ddlRules} :
        IsTable(r) /\ r.mapping = "default"
  /\ IsTable(columnTypeRules) /\ columnTypeRules.mapping = "default"
<1> DEFINE C == ClassifyNames
           L == LazyNames
<1>1. /\ Calm \subseteq C /\ CalmLazy \subseteq L /\ "allNonBreaking" \in C /\ "allUnclassified" \in C
      /\ "addNonBreaking" \in C /\ "typeNameClassifier" \in C
      /\ "schemaTypeRules" \in L /\ "exprRules" \in L /\ "objectRules" \in L /\ "tableRules" \in L
  BY DEF ClassifyNames, LazyNames, Calm, CalmLazy
<1> HIDE DEF C, L
<1>2. /\ \A c \in C : Depth0(Leaf(c), C, L) /\ Bare(Leaf(c))
      /\ \A name \in L : Depth0(Lazy(name), C, L) /\ Lazy(name).mapping = "default"
      /\ Depth0(SUPPRESS, C, L) /\ Bare(SUPPRESS)
      /\ Depth0(NoRules, C, L) /\ Bare(NoRules)
      /\ Depth1(attrsArrayRule, C, L) /\ Simple(attrsArrayRule)
  BY <1>1, FlatTables
<1>3. \A c, kids : Node(c, kids).mapping = "default" /\ Node(c, kids).kids = kids
  BY DEF Node
<1>4. /\ \A r : Depth0(r, C, L) \/ Depth1(r, C, L) => Depth5(r, C, L)
      /\ \A r : Depth0(r, C, L) \/ Depth1(r, C, L) => Depth2(r, C, L)
      /\ \A r : Depth2(r, C, L) \/ Depth3(r, C, L) => Depth5(r, C, L)
      /\ \A r : Depth2(r, C, L) \/ Depth3(r, C, L) => Depth4(r, C, L)
      /\ \A r : Depth2(r, C, L) \/ Depth4(r, C, L) => Depth6(r, C, L)
      /\ \A r : Depth3(r, C, L) \/ Depth5(r, C, L) => Depth6(r, C, L)
  BY Deeper
<1>5. /\ Depth4(indexRules, C, L) /\ indexRules.mapping = "default"
      /\ Depth2(foreignKeyRules, C, L) /\ foreignKeyRules.mapping = "default"
  BY <1>1, CalmTables
<1>6. /\ Depth1(objectsArrayRule, C, L) /\ Simple(objectsArrayRule)
      /\ FitsAt("attrs", attrsArrayRule) /\ FitsAt("objects", objectsArrayRule)
  <2>1. Depth1(objectsArrayRule, C, L) /\ Simple(objectsArrayRule)
    BY <1>1, <1>2, EachDepth DEF objectsArrayRule
  <2>2. QED
    BY <1>2, <2>1, BareFits DEF ArrayKeys
<1>7. (\A k \in DOMAIN typeFieldRules : Depth0(typeFieldRules[k], C, L)) /\ GoodKids(typeFieldRules)
  <2>1. PICK values : values = Flagged(NoRules, "ignoreAddRemove")
    OBVIOUS
  <2>2. Depth0(values, C, L)
    BY <1>2, <2>1, FlaggedDepth
  <2>3. Bare(values)
    BY <1>2, <2>1, MoreFlags DEF Flagged, Bare, Depth0
  <2>4. \A k \in DOMAIN typeFieldRules :
          k # "any" /\ Depth0(typeFieldRules[k], C, L) /\ Bare(typeFieldRules[k])
    BY <1>1, <1>2, <2>1, <2>2, <2>3 DEF typeFieldRules
  <2>5. QED
    BY <2>4, BareFits DEF GoodKids
<1>8. Depth6(scalarTypeRules, C, L) /\ scalarTypeRules.mapping = "default"
  <2>1. Depth1(Node("allUnclassified", typeFieldRules), C, L)
    BY <1>1, <1>7, NodeDepth
  <2>2. QED
    BY <1>3, <1>4, <2>1 DEF scalarTypeRules
<1>9. Depth6(enumTypeRules, C, L) /\ enumTypeRules.mapping = "default"
  <2>1. PICK each : each = Each(Leaf(enumValueClassifier), "enumValuesMappingResolver")
    OBVIOUS
  <2>2. Depth1(each, C, L) /\ Simple(each)
    BY <1>1, <1>2, <2>1, EachDepth DEF enumValueClassifier, Bare
  <2>3. PICK values : values = Flagged(each, "ignoreAddRemove")
    OBVIOUS
  <2>4. Depth1(values, C, L) /\ Simple(values)
    BY <2>2, <2>3, FlaggedDepth, MoreFlags DEF Flagged, Simple, Depth1
  <2>5. PICK more, kids : more = [values |-> values, attrs |-> attrsArrayRule] /\ kids = Over(more, typeFieldRules)
    OBVIOUS
  <2>6. enumTypeRules = Node("allUnclassified", kids)
    BY <2>1, <2>3, <2>5 DEF enumTypeRules
  <2>7. \A k \in DOMAIN kids : (k \in {"values", "attrs"} /\ kids[k] = more[k])
                                \/ (k \in DOMAIN typeFieldRules /\ kids[k] = typeFieldRules[k])
    BY <2>5 DEF Over
  <2>8. FitsAt("values", values)
    BY <2>4, BareFits DEF ArrayKeys
  <2>9. (\A k \in DOMAIN kids : Depth5(kids[k], C, L)) /\ GoodKids(kids)
    BY <1>2, <1>4, <1>6, <1>7, <2>4, <2>5, <2>7, <2>8 DEF GoodKids
  <2>10. QED
    BY <1>1, <1>3, <2>6, <2>9, NodeDepth
<1>10. /\ "type" \notin ArrayKeys /\ "default" \notin ArrayKeys /\ "primaryKey" \notin ArrayKeys
       /\ {"schemas", "tables", "columns", "indexes", "foreignKeys"} \subseteq ArrayKeys
  BY DEF ArrayKeys
<1>11. Depth2(columnTypeRules, C, L) /\ columnTypeRules.mapping = "default"
  <2>1. PICK kids : kids = [type |-> Lazy("schemaTypeRules"), raw |-> SUPPRESS,
                            null |-> Leaf(nullabilityClassifier)]
    OBVIOUS
  <2>2. columnTypeRules = Node("allUnclassified", kids)
    BY <2>1 DEF columnTypeRules
  <2>3. /\ FitsAt("type", Lazy("schemaTypeRules")) /\ FitsAt("raw", SUPPRESS)
        /\ FitsAt("null", Leaf(nullabilityClassifier))
    BY <1>1, <1>2, <1>10, BareFits DEF nullabilityClassifier
  <2>4. (\A k \in DOMAIN kids : Depth0(kids[k], C, L)) /\ GoodKids(kids)
    BY <1>1, <1>2, <2>1, <2>3 DEF nullabilityClassifier, GoodKids
  <2>5. Depth1(Node("allUnclassified", kids), C, L)
    BY <1>1, <2>4, NodeDepth
  <2>6. QED
    BY <1>3, <2>2, <2>5, Deeper
<1>12. Depth4(columnRules, C, L) /\ columnRules.mapping = "default"
  <2>1. PICK kids : kids = [type |-> columnTypeRules, default |-> Lazy("exprRules"), attrs |-> attrsArrayRule]
    OBVIOUS
  <2>2. columnRules = Node(columnClassifier, kids)
    BY <2>1 DEF columnRules
  <2>3. FitsAt("type", columnTypeRules) /\ FitsAt("default", Lazy("exprRules"))
    BY <1>1, <1>2, <1>10, <1>11, BareFits
  <2>4. (\A k \in DOMAIN kids : Depth2(kids[k], C, L)) /\ GoodKids(kids)
    BY <1>1, <1>2, <1>4, <1>6, <1>11, <2>1, <2>3 DEF GoodKids
  <2>5. Depth3(Node(columnClassifier, kids), C, L)
    BY <1>1, <2>4, NodeDepth DEF columnClassifier
  <2>6. QED
    BY <1>3, <1>4, <2>2, <2>5
<1>13. Depth6(tableRules, C, L) /\ tableRules.mapping = "default"
  <2>1. PICK kids :
          kids = [columns |-> Each(columnRules, "nameMappingResolver"),
                  indexes |-> Each(indexRules, "indexMappingResolver"),
                  primaryKey |-> indexRules,
                  foreignKeys |-> Each(foreignKeyRules, "foreignKeyMappingResolver"),
                  attrs |-> attrsArrayRule, objects |-> objectsArrayRule]
    OBVIOUS
  <2>2. tableRules = Node(tableClassifier, Suppressed(kids))
    BY <2>1 DEF tableRules
  <2>3. /\ Depth5(Each(columnRules, "nameMappingResolver"), C, L)
        /\ Simple(Each(columnRules, "nameMappingResolver"))
    BY <1>1, <1>12, EachDepth
  <2>4. /\ Depth5(Each(indexRules, "indexMappingResolver"), C, L)
        /\ Simple(Each(indexRules, "indexMappingResolver"))
    BY <1>1, <1>5, EachDepth
  <2>5. /\ Depth3(Each(foreignKeyRules, "foreignKeyMappingResolver"), C, L)
        /\ Simple(Each(foreignKeyRules, "foreignKeyMappingResolver"))
    BY <1>1, <1>5, EachDepth
  <2>6. Depth5(indexRules, C, L)
    BY <1>5, Deeper
  <2>7. /\ FitsAt("columns", Each(columnRules, "nameMappingResolver"))
        /\ FitsAt("indexes", Each(indexRules, "indexMappingResolver"))
        /\ FitsAt("foreignKeys", Each(foreignKeyRules, "foreignKeyMappingResolver"))
        /\ FitsAt("primaryKey", indexRules)
    BY <1>5, <1>10, <2>3, <2>4, <2>5, BareFits
  <2>8. (\A k \in DOMAIN kids : Depth5(kids[k], C, L)) /\ GoodKids(kids)
    <3>1. \A k \in DOMAIN kids : Depth5(kids[k], C, L)
      BY <1>2, <1>4, <1>6, <2>1, <2>3, <2>4, <2>5, <2>6
    <3>2. GoodKids(kids)
      BY <1>6, <2>1, <2>7 DEF GoodKids
    <3>3. QED
      BY <3>1, <3>2
  <2>9. (\A k \in DOMAIN Suppressed(kids) : Depth5(Suppressed(kids)[k], C, L))
          /\ GoodKids(Suppressed(kids))
    BY <1>2, <1>4, <2>8, SuppressedKids, BareFits
  <2>10. Depth6(Node(tableClassifier, Suppressed(kids)), C, L)
    BY <1>1, <2>9, NodeDepth DEF tableClassifier
  <2>11. QED
    BY <1>3, <2>2, <2>10
<1>14. Depth2(schemaRules, C, L) /\ schemaRules.mapping = "default"
  <2>1. PICK kids : kids = [tables |-> Each(Lazy("tableRules"), "nameMappingResolver"),
                            attrs |-> attrsArrayRule, objects |-> objectsArrayRule]
    OBVIOUS
  <2>2. schemaRules = Node("allUnclassified", kids)
    BY <2>1 DEF schemaRules
  <2>3. /\ Depth1(Each(Lazy("tableRules"), "nameMappingResolver"), C, L)
        /\ Simple(Each(Lazy("tableRules"), "nameMappingResolver"))
    BY <1>1, <1>2, EachDepth
  <2>4. FitsAt("tables", Each(Lazy("tableRules"), "nameMappingResolver"))
    BY <1>10, <2>3, BareFits
  <2>5. (\A k \in DOMAIN kids : Depth1(kids[k], C, L)) /\ GoodKids(kids)
    BY <1>2, <1>6, <2>1, <2>3, <2>4 DEF GoodKids
  <2>6. Depth2(Node("allUnclassified", kids), C, L)
    BY <1>1, <2>5, NodeDepth
  <2>7. QED
    BY <1>3, <2>2, <2>6
<1>15. Depth4(ddlRules, C, L) /\ ddlRules.mapping = "default"
  <2>1. PICK kids : kids = [schemas |-> Each(schemaRules, "nameMappingResolver"),
                            attrs |-> attrsArrayRule, objects |-> objectsArrayRule]
    OBVIOUS
  <2>2. ddlRules = Node("allUnclassified", kids)
    BY <2>1 DEF ddlRules
  <2>3. /\ Depth3(Each(schemaRules, "nameMappingResolver"), C, L)
        /\ Simple(Each(schemaRules, "nameMappingResolver"))
    BY <1>1, <1>14, EachDepth
  <2>4. FitsAt("schemas", Each(schemaRules, "nameMappingResolver"))
    BY <1>10, <2>3, BareFits
  <2>5. \A r : Depth1(r, C, L) => Depth3(r, C, L)
    BY Deeper
  <2>6. (\A k \in DOMAIN kids : Depth3(kids[k], C, L)) /\ GoodKids(kids)
    BY <1>2, <1>6, <2>1, <2>3, <2>4, <2>5 DEF GoodKids
  <2>7. Depth4(Node("allUnclassified", kids), C, L)
    BY <1>1, <2>6, NodeDepth
  <2>8. QED
    BY <1>3, <2>2, <2>7
<1>16. QED
  BY <1>4, <1>8, <1>9, <1>11, <1>12, <1>13, <1>14, <1>15 DEF IsTable, C, L

\* The functions of the engine.
IsDdl ==
  /\ \A spec : RootOf(spec) = ddlRules
  /\ \A rules, value, path : RulesOf(rules, value, path) = ddlRulesOf(rules, value, path)
  /\ \A name, c : ClassifyRuleOf(name, c) = ddlClassifyRuleOf(name, c)
  /\ \A c, before, after : MappingOf(c, before, after) = ddlMappingOf(c, before, after)
  /\ \A same, c : ReplacedAsWhole(same, c) = ddlReplacedAsWhole(same, c)

\* What a table that is named only stands for.
Late(r) == r.lazy = None /\ r.mapping = "default"

LEMMA LateTables ==
  /\ \A kind : IsCalm(attrRules(kind)) /\ Late(attrRules(kind))
  /\ \A kind : IsCalm(exprRules(kind)) /\ Late(exprRules(kind))
  /\ \A kind : IsTable(schemaTypeRules(kind)) /\ Late(schemaTypeRules(kind))
  /\ \A kind : IsTable(objectRules(kind)) /\ Late(objectRules(kind))
  /\ Late(tableRules)
<1>1. /\ \A r \in {commentRules, collationRules, checkRules, generatedExprRules, literalRules,
                   rawExprRules, namedDefaultRules, foreignKeyRules, indexRules, NoRules} :
            IsCalm(r)
      /\ \A r \in {checkRules, namedDefaultRules, foreignKeyRules, indexRules, NoRules} : IsTable(r)
  <2>1. ASSUME NEW C, NEW L, Calm \subseteq C, CalmLazy \subseteq L
        PROVE  \A r \in {commentRules, collationRules, checkRules, generatedExprRules, literalRules,
                         rawExprRules, namedDefaultRules, foreignKeyRules, indexRules, NoRules} :
                  Depth4(r, C, L) /\ Depth6(r, C, L)
    BY <2>1, CalmTables, FlatTables, Deeper
  <2>2. Calm \subseteq ClassifyNames /\ CalmLazy \subseteq LazyNames
    BY DEF ClassifyNames, LazyNames, CalmLazy
  <2>3. QED
    BY <2>1, <2>2 DEF IsCalm, IsTable
<1>2. \A r \in {commentRules, collationRules, checkRules, generatedExprRules, literalRules,
                rawExprRules, namedDefaultRules, foreignKeyRules, indexRules, NoRules,
                scalarTypeRules, enumTypeRules, tableRules} : Late(r)
  BY DEF commentRules, collationRules, checkRules, generatedExprRules, literalRules, rawExprRules,
         namedDefaultRules, foreignKeyRules, indexRules, NoRules, scalarTypeRules, enumTypeRules,
         tableRules, Leaf, Node, Late
<1>3. /\ \A r : IsCalm(r) => IsCalm(asElement(r)) /\ (Late(r) => Late(asElement(r)))
      /\ \A r : IsTable(r) => IsTable(asElement(r)) /\ (Late(r) => Late(asElement(r)))
  <2>1. /\ \A r : IsCalm(r) => Heads(r, Calm, CalmLazy)
        /\ \A r : IsTable(r) => Heads(r, ClassifyNames, LazyNames)
    BY DEF IsCalm, IsTable, Depth6
  <2>2. /\ \A r : IsCalm(r) => IsCalm(asElement(r))
        /\ \A r : IsTable(r) => IsTable(asElement(r))
    BY FlaggedDepth DEF IsCalm, IsTable, asElement
  <2>3. \A r, C, L : Heads(r, C, L) /\ Late(r) => Late(asElement(r))
    BY FlaggedDepth DEF asElement, Late
  <2>4. QED
    BY <2>1, <2>2, <2>3
<1>4. IsTable(scalarTypeRules) /\ IsTable(enumTypeRules) /\ IsTable(tableRules)
  BY SchemaTables
<1>5. ASSUME NEW kind PROVE IsCalm(attrRules(kind)) /\ Late(attrRules(kind))
  <2>1. PICK r \in {commentRules, collationRules, checkRules, generatedExprRules, NoRules} :
          attrRules(kind) = asElement(r)
    BY DEF attrRules
  <2>2. QED
    BY <1>1, <1>2, <1>3, <2>1
<1>6. ASSUME NEW kind PROVE IsCalm(exprRules(kind)) /\ Late(exprRules(kind))
  BY <1>1, <1>2 DEF exprRules
<1>7. ASSUME NEW kind PROVE IsTable(schemaTypeRules(kind)) /\ Late(schemaTypeRules(kind))
  BY <1>1, <1>2, <1>4 DEF schemaTypeRules
<1>8. ASSUME NEW kind PROVE IsTable(objectRules(kind)) /\ Late(objectRules(kind))
  <2>1. PICK r \in {tableRules, indexRules, foreignKeyRules, checkRules, namedDefaultRules,
                    enumTypeRules, NoRules} : objectRules(kind) = asElement(r)
    BY DEF objectRules, enumObjectRules
  <2>2. QED
    BY <1>1, <1>2, <1>3, <1>4, <2>1
<1>9. QED
  BY <1>2, <1>5, <1>6, <1>7, <1>8

\* The rules of a child are a table again.
LEMMA KidRulesAre ==
  ASSUME NEW r, NEW key
  PROVE  \/ key \in DOMAIN r.kids /\ key # "any" /\ KidRules(r, key) = r.kids[key]
         \/ "any" \in DOMAIN r.kids /\ KidRules(r, key) = r.kids["any"]
         \/ KidRules(r, key) = NoRules
  BY DEF KidRules

LEMMA KidRulesAreTables ==
  ASSUME NEW r, NEW key
  PROVE  /\ IsTable(r) => IsTable(KidRules(r, key))
         /\ IsCalm(r) => IsCalm(KidRules(r, key))
<1>1. \A C, L : Calm \subseteq C /\ CalmLazy \subseteq L => Depth4(NoRules, C, L) /\ Depth6(NoRules, C, L)
  BY FlatTables, Deeper
<1>2. /\ Calm \subseteq ClassifyNames /\ CalmLazy \subseteq LazyNames
  BY DEF ClassifyNames, LazyNames, CalmLazy
<1>3. IsTable(NoRules) /\ IsCalm(NoRules)
  BY <1>1, <1>2 DEF IsTable, IsCalm
<1>4. /\ \A q : Depth5(q, ClassifyNames, LazyNames) => Depth6(q, ClassifyNames, LazyNames)
      /\ \A q : Depth5(q, Calm, CalmLazy) => Depth6(q, Calm, CalmLazy)
  BY Deeper
<1>5. IsTable(r) => \A k \in DOMAIN r.kids : IsTable(r.kids[k])
  BY <1>4 DEF IsTable, Depth6
<1>6. IsCalm(r) => \A k \in DOMAIN r.kids : IsCalm(r.kids[k])
  BY <1>4 DEF IsCalm, Depth6
<1>7. QED
  BY <1>3, <1>5, <1>6, KidRulesAre

LEMMA ResolvedIsTable ==
  ASSUME IsDdl, NEW r, NEW value, NEW path
  PROVE  /\ IsTable(r) => /\ IsTable(Resolved(r, value, path)) /\ Resolved(r, value, path).lazy = None
                          /\ r.lazy = None => Resolved(r, value, path) = r
                          /\ r.lazy # None => Resolved(r, value, path).mapping = "default"
         /\ IsCalm(r) => IsCalm(Resolved(r, value, path)) /\ Resolved(r, value, path).lazy = None
<1>1. PICK found : found = RulesOf(r, value, path)
  OBVIOUS
<1>2. PICK q : q = [found EXCEPT !.flags = @ \cup r.flags]
  OBVIOUS
<1>3. Resolved(r, value, path) = IF r.lazy = None THEN r ELSE q
  BY <1>1, <1>2 DEF Resolved
<1>4. found = ddlRulesOf(r, value, path)
  BY <1>1 DEF IsDdl
<1>5. ASSUME IsTable(r), r.lazy # None PROVE IsTable(q) /\ Late(q)
  <2>1. r.lazy \in LazyNames
    BY <1>5 DEF IsTable, Depth6, Heads
  <2>2. IsTable(tableRules) /\ \A t : IsCalm(t) => IsTable(t)
    <3>1. IsTable(tableRules)
      BY SchemaTables
    <3>2. ASSUME NEW t PROVE Heads(t, Calm, CalmLazy) => Heads(t, ClassifyNames, LazyNames)
      BY DEF Heads, ClassifyNames, LazyNames, CalmLazy
    <3>3. \A t : Depth0(t, Calm, CalmLazy) => Depth0(t, ClassifyNames, LazyNames)
      BY <3>2 DEF Depth0
    <3>4. \A t : Depth1(t, Calm, CalmLazy) => Depth1(t, ClassifyNames, LazyNames)
      BY <3>2, <3>3 DEF Depth1
    <3>5. \A t : Depth2(t, Calm, CalmLazy) => Depth2(t, ClassifyNames, LazyNames)
      BY <3>2, <3>4 DEF Depth2
    <3>6. \A t : Depth3(t, Calm, CalmLazy) => Depth3(t, ClassifyNames, LazyNames)
      BY <3>2, <3>5 DEF Depth3
    <3>7. \A t : Depth4(t, Calm, CalmLazy) => Depth4(t, ClassifyNames, LazyNames)
      BY <3>2, <3>6 DEF Depth4
    <3>8. \A t : Depth5(t, Calm, CalmLazy) => Depth5(t, ClassifyNames, LazyNames)
      BY <3>2, <3>7 DEF Depth5
    <3>9. \A t : Depth6(t, Calm, CalmLazy) => Depth6(t, ClassifyNames, LazyNames)
      BY <3>2, <3>8 DEF Depth6
    <3>10. QED
      BY <3>1, <3>9 DEF IsCalm, IsTable
  <2>3. IsTable(found) /\ Late(found)
    BY <1>4, <2>1, <2>2, LateTables DEF ddlRulesOf, LazyNames
  <2>4. Heads(found, ClassifyNames, LazyNames)
    BY <2>3 DEF IsTable, Depth6
  <2>5. QED
    BY <1>2, <2>3, <2>4, FlagsDepth, MoreFlags DEF IsTable, Late
<1>6. ASSUME IsCalm(r), r.lazy # None PROVE IsCalm(q) /\ Late(q)
  <2>1. r.lazy \in CalmLazy
    BY <1>6 DEF IsCalm, Depth6, Heads
  <2>2. IsCalm(found) /\ Late(found)
    BY <1>4, <2>1, LateTables DEF ddlRulesOf, CalmLazy
  <2>3. Heads(found, Calm, CalmLazy)
    BY <2>2 DEF IsCalm, Depth6
  <2>4. QED
    BY <1>2, <2>2, <2>3, FlagsDepth, MoreFlags DEF IsCalm, Late
<1>7. QED
  BY <1>3, <1>5, <1>6 DEF Late

\* Rules and a node for which they are: a resolver of its own is not asked about an object, and an
\* array has the rules of an array.
ArraysFit(r, node) ==
  (r.mapping # "default" => node.is # "object") /\ (node.is = "array" => Simple(r))

LEMMA ResolvedFits ==
  ASSUME IsDdl, NEW r, IsTable(r), NEW node, ArraysFit(r, node), NEW value, NEW path
  PROVE  ArraysFit(Resolved(r, value, path), node)
<1>1. CASE r.lazy = None
  BY <1>1, ResolvedIsTable
<1>2. CASE r.lazy # None
  <2>1. node.is # "array"
    BY <1>2 DEF ArraysFit, Simple
  <2>2. Resolved(r, value, path).mapping = "default"
    BY <1>2, ResolvedIsTable
  <2>3. QED
    BY <2>1, <2>2 DEF ArraysFit
<1>3. QED
  BY <1>1, <1>2

\* The rules of a child fit the child.
LEMMA KidRulesFit ==
  ASSUME NEW d, NEW N, NEW F, DocumentOf(d, N, F), NEW node \in N, IsContainer(node),
         NEW r, IsTable(r), ArraysFit(r, node), NEW key, NEW to, node.is = "object" => to = key
  PROVE  ArraysFit(KidRules(r, key), Definition(d.defs, Kid(node, to)))
<1>1. PICK kid : kid = Definition(d.defs, Kid(node, to))
  OBVIOUS
<1>2. PICK q : q = KidRules(r, key)
  OBVIOUS
<1>3. Bare(NoRules) /\ NodeOf(d, node)
  BY FlatTables DEF DocumentOf
<1>4. ListsOnly(r)
  BY DEF IsTable, Depth6
<1>5. Absent.is = "undefined" /\ Definition(d.defs, Absent) = Absent
  BY DEF Absent, Definition
<1>6. CASE node.is = "array"
  <2>1. DOMAIN r.kids \subseteq {"any"}
    BY <1>6 DEF ArraysFit, Simple
  <2>2. q = NoRules \/ ("any" \in DOMAIN r.kids /\ q = r.kids["any"])
    BY <1>2, <2>1, KidRulesAre
  <2>3. q.mapping = "default"
    BY <1>3, <1>4, <2>2 DEF ListsOnly, GoodKids, FitsAt, Bare
  <2>4. kid.is # "array"
    BY <1>1, <1>3, <1>5, <1>6 DEF NodeOf, Kid, Has
  <2>5. QED
    BY <1>1, <1>2, <2>3, <2>4 DEF ArraysFit
<1>7. CASE node.is = "object"
  <2>1. kid.is = "array" <=> to \in ArrayKeys /\ to \in DOMAIN node.kids
    BY <1>1, <1>3, <1>5, <1>7 DEF NodeOf, Kid, Has, IsContainer
  <2>2. to \notin DOMAIN node.kids => kid.is = "undefined"
    BY <1>1, <1>5, <1>7 DEF Kid, Has
  <2>3. to = key /\ GoodKids(r.kids)
    BY <1>4, <1>7 DEF ListsOnly, ArraysFit
  <2>4. "any" \notin DOMAIN r.kids
    BY <2>3 DEF GoodKids, FitsAt
  <2>5. q = NoRules \/ (key \in DOMAIN r.kids /\ q = r.kids[key])
    BY <1>2, <2>4, KidRulesAre
  <2>6. (q.mapping # "default" => key \in ArrayKeys) /\ (key \in ArrayKeys => Simple(q))
    BY <1>3, <2>3, <2>5 DEF GoodKids, FitsAt, Bare, Simple
  <2>7. QED
    BY <1>1, <1>2, <2>1, <2>2, <2>3, <2>6 DEF ArraysFit
<1>8. QED
  BY <1>6, <1>7 DEF IsContainer

-----------------------------------------------------------------------------
(***************************************************************************)
(* Sides, and the pairs of nodes that are still to be entered.             *)
(***************************************************************************)
IsSequence(s) == \E S : s \in Seq(S)

LEMMA SequencesGrow ==
  ASSUME NEW s, IsSequence(s), NEW e
  PROVE  /\ IsSequence(Append(s, e)) /\ IsSequence(<<e>> \o s)
         /\ s # <<>> => IsSequence(Tail(s))
         /\ (<<e>> \o s)[1] = e /\ Tail(<<e>> \o s) = s
<1>1. PICK S : s \in Seq(S)
  BY DEF IsSequence
<1>2. PICK T : T = S \cup {e}
  OBVIOUS
<1>3. s \in Seq(T) /\ e \in T
  BY <1>1, <1>2
<1>4. Append(s, e) \in Seq(T) /\ <<e>> \o s \in Seq(T)
  BY <1>3
<1>5. s # <<>> => Tail(s) \in Seq(T)
  BY <1>3
<1>6. (<<e>> \o s)[1] = e /\ Tail(<<e>> \o s) = s
  BY <1>3
<1>7. QED
  BY <1>4, <1>5, <1>6 DEF IsSequence

\* A node that a side may have.
NodeIn(n, N) == (n \in N \/ n = Absent) /\ n.is # "ref"

\* A side of a document without definitions that lie in themselves: a node is met first where it is.
GoodSide(s, N, F) ==
  /\ s = [node |-> s.node, at |-> s.at, home |-> s.home, first |-> s.first, above |-> s.above,
          entered |-> s.entered]
  /\ IsSequence(s.at) /\ IsSequence(s.home) /\ IsSequence(s.above)
  /\ s.first = s.at
  /\ NodeIn(s.node, N)
  /\ NodeIn(s.node, F) \/ s.entered = Nothing

LEMMA SidesAreGood ==
  ASSUME NEW d, NEW N, NEW F, DocumentOf(d, N, F), NEW node, node \in N \/ node = Absent, NEW at,
         NEW above, IsSequence(at), IsSequence(above), NEW entered,
         NodeIn(node, F) \/ entered = Nothing
  PROVE  /\ GoodSide(Side(d.defs, node, at, above, entered), N, F)
         /\ Side(d.defs, node, at, above, entered).at = at
         /\ Side(d.defs, node, at, above, entered).above = above
         /\ Side(d.defs, node, at, above, entered).node = Definition(d.defs, node)
<1>0. Absent.is = "undefined"
  BY DEF Absent
<1>1. CASE node.is = "ref"
  <2>1. node \in N /\ entered = Nothing
    BY <1>0, <1>1 DEF NodeIn
  <2>2. node.of \in DOMAIN d.defs
    BY <1>1, <2>1 DEF DocumentOf, NodeOf
  <2>3. d.defs[node.of] \in F /\ d.defs[node.of] \in N /\ d.defs[node.of].is # "ref"
    BY <2>2 DEF DocumentOf
  <2>4. PICK now : now = Over(entered, [name \in {node.of} |-> at])
    OBVIOUS
  <2>5. now[node.of] = at
    BY <2>1, <2>4 DEF Over, Nothing
  <2>6. PICK n, o : n = d.defs[node.of] /\ o = <<node.of>>
    OBVIOUS
  <2>7. Side(d.defs, node, at, above, entered)
          = [node |-> n, at |-> at, home |-> o, first |-> at, above |-> above, entered |-> now]
    BY <1>1, <2>4, <2>5, <2>6 DEF Side
  <2>8. IsSequence(o)
    <3>1. o \in Seq({node.of})
      BY <2>6
    <3>2. QED
      BY <3>1 DEF IsSequence
  <2>9. NodeIn(n, F) /\ NodeIn(n, N) /\ n = Definition(d.defs, node)
    BY <1>1, <2>3, <2>6 DEF NodeIn, Definition
  <2>10. QED
    BY <2>7, <2>8, <2>9 DEF GoodSide
<1>2. CASE node.is # "ref"
  <2>1. Side(d.defs, node, at, above, entered)
          = [node |-> node, at |-> at, home |-> at, first |-> at, above |-> above, entered |-> entered]
    BY <1>2 DEF Side
  <2>2. NodeIn(node, N) /\ node = Definition(d.defs, node)
    BY <1>2 DEF NodeIn, Definition
  <2>3. QED
    BY <2>1, <2>2 DEF GoodSide
<1>3. QED
  BY <1>1, <1>2

\* What is said of the side of a child: what it has, where, and right below what.
IsKidSide(k, d, N, F, s, key) ==
  /\ GoodSide(k, N, F)
  /\ k.at = Append(s.home, key)
  /\ k.node = Definition(d.defs, Kid(s.node, key))
  /\ k.above[1] = s.node
  /\ k.above = <<s.node>> \o s.above

LEMMA KidSidesAreGood ==
  ASSUME NEW d, NEW N, NEW F, DocumentOf(d, N, F), NEW s, GoodSide(s, N, F), NEW key
  PROVE  IsKidSide(KidSide(d.defs, s, key), d, N, F, s, key)
<1>1. PICK k : k = Kid(s.node, key)
  OBVIOUS
<1>2. (k \in N \/ k = Absent) /\ (s.node \in F \cup {Absent} => NodeIn(k, F))
  <2>1. Absent.is = "undefined" /\ ~IsContainer(Absent)
    BY DEF Absent, IsContainer
  <2>2. CASE ~Has(s.node, key)
    BY <1>1, <2>1, <2>2 DEF Kid, NodeIn
  <2>3. CASE Has(s.node, key)
    <3>1. k = s.node.kids[key] /\ key \in DOMAIN s.node.kids /\ s.node # Absent
      BY <1>1, <2>1, <2>3 DEF Kid, Has
    <3>2. s.node \in N
      BY <3>1 DEF GoodSide, NodeIn
    <3>3. k \in N /\ (s.node \in F => k \in F /\ k.is # "ref")
      BY <3>1, <3>2 DEF DocumentOf
    <3>4. QED
      BY <3>1, <3>3 DEF NodeIn
  <2>4. QED
    BY <2>2, <2>3
<1>3. IsSequence(Append(s.home, key)) /\ IsSequence(<<s.node>> \o s.above)
      /\ (<<s.node>> \o s.above)[1] = s.node
  BY SequencesGrow DEF GoodSide
<1>4. NodeIn(k, F) \/ s.entered = Nothing
  BY <1>2 DEF GoodSide, NodeIn
<1>5. KidSide(d.defs, s, key) = Side(d.defs, k, Append(s.home, key), <<s.node>> \o s.above, s.entered)
  BY <1>1 DEF KidSide
<1>6. PICK at, above, entered : at = Append(s.home, key) /\ above = <<s.node>> \o s.above /\ entered = s.entered
  OBVIOUS
<1>7. /\ GoodSide(Side(d.defs, k, at, above, entered), N, F)
      /\ Side(d.defs, k, at, above, entered).at = at
      /\ Side(d.defs, k, at, above, entered).above = above
      /\ Side(d.defs, k, at, above, entered).node = Definition(d.defs, k)
  <2>1. /\ IsSequence(at) /\ IsSequence(above)
        /\ k \in N \/ k = Absent
        /\ NodeIn(k, F) \/ entered = Nothing
    BY <1>2, <1>3, <1>4, <1>6
  <2>2. QED
    BY <2>1, SidesAreGood
<1>8. QED
  BY <1>1, <1>3, <1>5, <1>6, <1>7 DEF IsKidSide

-----------------------------------------------------------------------------
(***************************************************************************)
(* The items of the crawl.                                                 *)
(***************************************************************************)
NodesOf(d) == CHOOSE p : DocumentOf(d, p[1], p[2])
GoodSideOf(s, d) == GoodSide(s, NodesOf(d)[1], NodesOf(d)[2])

LEMMA NodesAreThere ==
  ASSUME NEW d, IsDocument(d)
  PROVE  DocumentOf(d, NodesOf(d)[1], NodesOf(d)[2])
<1>1. PICK N, F : DocumentOf(d, N, F)
  BY DEF IsDocument
<1>2. PICK p : p = <<N, F>>
  OBVIOUS
<1>3. DocumentOf(d, p[1], p[2])
  BY <1>1, <1>2
<1>4. QED
  BY <1>3 DEF NodesOf

\* What every item is, of the comparison x of two documents.
GoodItem(i, x) ==
  /\ i = [rules |-> i.rules, before |-> i.before, after |-> i.after, keys |-> i.keys,
          scope |-> "root", path |-> i.path, entered |-> i.entered]
  /\ i.entered \in BOOLEAN
  /\ IsTable(i.rules)
  /\ GoodSideOf(i.before, x.before) /\ GoodSideOf(i.after, x.after)
  /\ IsSequence(i.keys) /\ IsSequence(i.path)
  /\ ArraysFit(i.rules, i.before.node) /\ ArraysFit(i.rules, i.after.node)

\* An item whose children are to be looked at.
GoodParent(c, x) ==
  /\ GoodItem(c, x) /\ c.rules.lazy = None
  /\ IsContainer(c.before.node) /\ c.before.node.is = c.after.node.is

\* Without adapters the context of an item is the item, with the rules that it has in the end.
LEMMA ContextsAreGood ==
  ASSUME IsDdl, NEW x, NEW i, GoodItem(i, x), ~i.entered, NEW c, c = Context(i)
  PROVE  /\ GoodItem(c, x) /\ ~c.entered
         /\ c.rules = Resolved(i.rules, i.before.node, i.path) /\ c.rules.lazy = None
         /\ c.before = i.before /\ c.after = i.after /\ c.keys = i.keys /\ c.path = i.path
<1>1. PICK rules : rules = Resolved(i.rules, i.before.node, i.path)
  OBVIOUS
<1>2. /\ IsTable(rules) /\ rules.lazy = None
      /\ ArraysFit(rules, i.before.node) /\ ArraysFit(rules, i.after.node)
  BY <1>1, ResolvedIsTable, ResolvedFits DEF GoodItem
<1>3. rules.adapters = <<>> /\ rules.scope = None
  <2>1. PICK a, b, p, q, m, f, l : rules = [classify |-> a, kids |-> b, mapping |-> p, compare |-> q,
                            adapters |-> <<>>, scope |-> None, flags |-> m, lazy |-> l]
    BY <1>2 DEF IsTable, Depth6, Heads
  <2>2. QED
    BY <2>1
<1>4. adaptValues(i, <<>>) = <<i.before, i.after>>
  <2>1. DOMAIN <<>> = {} /\ SUBSET {} = {{}}
    OBVIOUS
  <2>2. PICK base : base = <<i.before, i.after>>
    OBVIOUS
  <2>3. adaptValues(i, <<>>) = base
    <3> DEFINE One(pair, name) ==
                 LET b == Adapt(name, pair[1], pair[2])  IN <<b, Adapt(name, pair[2], b)>>
               IsFold(g) == g = [s \in SUBSET {} |->
                                   IF s = {} THEN base
                                   ELSE One(g[s \ {Max(s)}], <<>>[Max(s)])]
    <3>1. adaptValues(i, <<>>) = (CHOOSE g : IsFold(g))[{}]
      BY <2>1, <2>2 DEF adaptValues, FoldLeft, MapThenFoldSet
    <3>2. PICK g : g = [s \in SUBSET {} |-> base]
      OBVIOUS
    <3>3. IsFold(g)
      BY <2>1, <3>2
    <3>4. PICK f : IsFold(f) /\ f = CHOOSE h : IsFold(h)
      BY <3>3
    <3>5. f[{}] = base
      BY <2>1, <3>4
    <3>6. QED
      BY <3>1, <3>4, <3>5
  <2>4. QED
    BY <2>2, <2>3
<1>5. PICK rs, b, a, k, p, e :
        /\ i = [rules |-> rs, before |-> b, after |-> a, keys |-> k, scope |-> "root",
                path |-> p, entered |-> e]
        /\ b = i.before /\ a = i.after /\ k = i.keys /\ p = i.path /\ e = i.entered
  BY DEF GoodItem
<1>6. PICK scope : scope = i.scope
  OBVIOUS
<1>7. PICK sides : sides = adaptValues(i, rules.adapters)
  OBVIOUS
<1>8. sides[1] = b /\ sides[2] = a
  BY <1>3, <1>4, <1>5, <1>7
<1>9. c = [i EXCEPT !.rules = rules, !.before = b, !.after = a, !.scope = scope]
  BY <1>1, <1>3, <1>6, <1>7, <1>8 DEF Context
<1>10. c = [rules |-> rules, before |-> b, after |-> a, keys |-> k, scope |-> "root", path |-> p,
            entered |-> e]
  BY <1>5, <1>6, <1>9
<1>11. QED
  BY <1>1, <1>2, <1>5, <1>10 DEF GoodItem

-----------------------------------------------------------------------------
(***************************************************************************)
(* The mapping of two containers.                                          *)
(***************************************************************************)
LEMMA SeenNodes ==
  ASSUME NEW d, NEW n, NodeOf(d, n)
  PROVE  /\ Seen(d.defs, n).is = n.is /\ DOMAIN Seen(d.defs, n).kids = DOMAIN n.kids
         /\ \A k \in DOMAIN n.kids : Seen(d.defs, n).kids[k] = Definition(d.defs, n.kids[k])
<1>1. PICK i, o, k : n = [is |-> i, of |-> o, kids |-> k]
  BY DEF NodeOf
<1>2. PICK s : s = [x \in DOMAIN k |-> Definition(d.defs, k[x])]
  OBVIOUS
<1>3. Seen(d.defs, n) = [n EXCEPT !.kids = s]
  BY <1>1, <1>2 DEF Seen
<1>4. Seen(d.defs, n) = [is |-> i, of |-> o, kids |-> s]
  BY <1>1, <1>3
<1>5. QED
  BY <1>1, <1>2, <1>4

\* The keys by which a resolver pairs the elements of two arrays.
KeysSeen(c, d, n) == KeysOf(c.rules.mapping, Seen(d.defs, n).kids)

LEMMA NodesOfParents ==
  ASSUME NEW x, IsDocument(x.before), IsDocument(x.after), NEW c, GoodParent(c, x)
  PROVE  /\ c.before.node \in NodesOf(x.before)[1] /\ c.after.node \in NodesOf(x.after)[1]
         /\ IsContainer(c.after.node)
         /\ NodeOf(x.before, c.before.node) /\ NodeOf(x.after, c.after.node)
         /\ DocumentOf(x.before, NodesOf(x.before)[1], NodesOf(x.before)[2])
         /\ DocumentOf(x.after, NodesOf(x.after)[1], NodesOf(x.after)[2])
<1>1. ~IsContainer(Absent)
  BY DEF IsContainer, Absent
<1>2. IsContainer(c.after.node)
  BY DEF GoodParent, IsContainer
<1>3. c.before.node \in NodesOf(x.before)[1] /\ c.after.node \in NodesOf(x.after)[1]
  BY <1>1, <1>2 DEF GoodParent, GoodItem, GoodSideOf, GoodSide, NodeIn
<1>4. QED
  BY <1>2, <1>3, NodesAreThere DEF DocumentOf

\* Every key of the two is mapped, removed or added; arrays whose elements have keys are paired
\* by these.
LEMMA MappingContract ==
  ASSUME IsDdl, IsDocument(asked.before), IsDocument(asked.after),
         NEW c, GoodParent(c, asked), NEW r, r = MappingData(c)
  PROVE  /\ EachKeyOnce(r, DOMAIN c.before.node.kids, DOMAIN c.after.node.kids) /\ OneToOne(r)
         /\ IsFiniteSet(DOMAIN r.mapped)
         /\ c.before.node.is = "object" => \A k \in DOMAIN r.mapped : r.mapped[k] = k
         /\ c.before.node.is = "object" =>
              r.removed = DOMAIN c.before.node.kids \ DOMAIN c.after.node.kids
         /\ c.rules.mapping \notin {"default", "enumValuesMappingResolver"} =>
              Looped(r, Len(c.before.node.kids), Len(c.after.node.kids),
                     KeyedItems(KeysSeen(c, asked.before, c.before.node),
                                KeysSeen(c, asked.after, c.after.node), None))
<1>1. PICK b, a : b = c.before.node /\ a = c.after.node
  OBVIOUS
<1>2. NodeOf(asked.before, b) /\ NodeOf(asked.after, a) /\ b.is = a.is /\ b.is \in {"object", "array"}
  BY <1>1, NodesOfParents DEF GoodParent, IsContainer
<1>3. PICK sb, sa : sb = Seen(asked.before.defs, b) /\ sa = Seen(asked.after.defs, a)
  OBVIOUS
<1>4. /\ sb.is = b.is /\ DOMAIN sb.kids = DOMAIN b.kids
      /\ sa.is = a.is /\ DOMAIN sa.kids = DOMAIN a.kids
  BY <1>2, <1>3, SeenNodes
<1>5. r = ddlMappingOf(c, sb, sa)
  BY <1>1, <1>3 DEF MappingData, IsDdl
<1>6. PICK m : m = c.rules.mapping
  OBVIOUS
<1>7. CASE b.is = "object"
  <2>1. m = "default"
    BY <1>1, <1>6, <1>7 DEF GoodParent, GoodItem, ArraysFit
  <2>2. IsFiniteSet(DOMAIN b.kids) /\ IsFiniteSet(DOMAIN a.kids)
    BY <1>2, <1>7 DEF NodeOf
  <2>3. ElementsOf(Listed(DOMAIN b.kids)) = DOMAIN b.kids /\ ElementsOf(Listed(DOMAIN a.kids)) = DOMAIN a.kids
    BY <2>2, ListedLists
  <2>4. r = objectMappingResolver(Listed(DOMAIN b.kids), Listed(DOMAIN a.kids))
    BY <1>4, <1>5, <1>6, <1>7, <2>1 DEF ddlMappingOf, DefaultMapping
  <2>5. PICK B, A : B = DOMAIN b.kids /\ A = DOMAIN a.kids
    OBVIOUS
  <2>6. r = [added |-> A \ B, removed |-> B \ A, mapped |-> [k \in B \cap A |-> k]]
    BY <2>3, <2>4, <2>5 DEF objectMappingResolver, MapKeysResult
  <2>7. /\ DOMAIN r.mapped = B \cap A /\ MappedTo(r) = B \cap A
        /\ \A k \in DOMAIN r.mapped : r.mapped[k] = k
        /\ r.removed = B \ A
    BY <2>6 DEF MappedTo
  <2>8. EachKeyOnce(r, B, A) /\ OneToOne(r)
    BY <2>6, <2>7 DEF EachKeyOnce, OneToOne
  <2>9. IsFiniteSet(DOMAIN r.mapped)
    BY <2>2, <2>5, <2>7, FS_Subset
  <2>10. QED
    BY <1>1, <1>6, <2>1, <2>5, <2>7, <2>8, <2>9
<1>8. CASE b.is = "array"
  <2>1. PICK p, q : p = Len(b.kids) /\ q = Len(a.kids)
    OBVIOUS
  <2>2. p \in Nat /\ q \in Nat /\ DOMAIN b.kids = 1 .. p /\ DOMAIN a.kids = 1 .. q
    BY <1>2, <1>8, <2>1 DEF NodeOf
  <2>3. EachKeyOnce(r, 1 .. p, 1 .. q) => IsFiniteSet(DOMAIN r.mapped)
    <3>1. IsFiniteSet(1 .. p)
      BY <2>2, FS_Interval
    <3>2. QED
      BY <3>1, FS_Subset DEF EachKeyOnce
  <2>4. CASE m = "default"
    <3>1. r = arrayMappingResolver(sb.kids, sa.kids)
      BY <1>4, <1>5, <1>6, <1>8, <2>4 DEF ddlMappingOf, DefaultMapping
    <3>2. EachKeyOnce(r, 1 .. p, 1 .. q) /\ OneToOne(r)
      <4>1. DOMAIN sb.kids = 1 .. p /\ DOMAIN sa.kids = 1 .. q
        BY <1>4, <2>2
      <4>2. PICK k, l : k = sb.kids /\ l = sa.kids
        OBVIOUS
      <4>3. QED
        BY <3>1, <4>1, <4>2, ByPositionContract
    <3>3. QED
      BY <1>1, <1>6, <1>8, <2>2, <2>3, <2>4, <3>2
  <2>5. CASE m # "default"
    <3>1. PICK kb, ka : kb = KeysOf(m, sb.kids) /\ ka = KeysOf(m, sa.kids)
      OBVIOUS
    <3>2. DOMAIN kb = 1 .. p /\ DOMAIN ka = 1 .. q
      BY <1>4, <2>2, <3>1 DEF KeysOf
    <3>3. r = IF m = "enumValuesMappingResolver" THEN ByEquality(kb, ka) ELSE ByKeys(kb, ka)
      BY <1>5, <1>6, <2>5, <3>1 DEF ddlMappingOf
    <3>4. CASE m = "enumValuesMappingResolver"
      <4>1. PICK e : e = {<<k, k>> : k \in ElementsOf(kb)}
        OBVIOUS
      <4>2. r = customUniqueItemsArrayMappingResolver(e, kb, ka)
        BY <3>3, <3>4, <4>1 DEF ByEquality
      <4>3. Looped(r, p, q, EqualItems(e, kb, ka))
        BY <2>2, <3>2, <4>2, UniqueItemsLoop
      <4>4. EachKeyOnce(r, 1 .. p, 1 .. q) /\ OneToOne(r)
        BY <4>3, LoopContract
      <4>5. QED
        BY <1>1, <1>6, <1>8, <2>2, <2>3, <3>4, <4>4
    <3>5. CASE m # "enumValuesMappingResolver"
      <4>1. r = createKeyMappingResolver(kb, ka, None)
        BY <3>3, <3>5 DEF ByKeys
      <4>2. Looped(r, p, q, KeyedItems(kb, ka, None))
        BY <2>2, <3>2, <4>1, KeyLoop
      <4>3. EachKeyOnce(r, 1 .. p, 1 .. q) /\ OneToOne(r)
        BY <4>2, LoopContract
      <4>4. kb = KeysSeen(c, asked.before, b) /\ ka = KeysSeen(c, asked.after, a)
        BY <1>3, <1>6, <3>1 DEF KeysSeen
      <4>5. QED
        BY <1>1, <1>6, <1>8, <2>1, <2>2, <2>3, <3>5, <4>2, <4>3, <4>4
    <3>6. QED
      BY <3>4, <3>5
  <2>6. QED
    BY <2>4, <2>5
<1>9. QED
  BY <1>2, <1>7, <1>8

-----------------------------------------------------------------------------
(***************************************************************************)
(* The children of a pair of containers.                                   *)
(***************************************************************************)
LEMMA MappedKidIsGood ==
  ASSUME IsDdl, IsDocument(asked.before), IsDocument(asked.after),
         NEW c, GoodParent(c, asked), NEW key, NEW to, c.before.node.is = "object" => to = key,
         NEW i, i = MappedKid(c, key, to)
  PROVE  /\ GoodItem(i, asked) /\ ~i.entered
         /\ i.rules = KidRules(c.rules, key)
         /\ i.before = KidSide(asked.before.defs, c.before, key)
         /\ i.after = KidSide(asked.after.defs, c.after, to)
         /\ Head(i.keys) = <<key, to>> /\ i.path = Append(c.path, key)
<1>1. PICK b, a : /\ b = KidSide(asked.before.defs, c.before, key)
                  /\ a = KidSide(asked.after.defs, c.after, to)
  OBVIOUS
<1>2. PICK e, ks, rs, path : /\ e = <<key, to>> /\ ks = <<e>> \o c.keys
                             /\ rs = KidRules(c.rules, key) /\ path = Append(c.path, key)
  OBVIOUS
<1>3. c.scope = "root" /\ IsTable(c.rules) /\ IsSequence(c.keys) /\ IsSequence(c.path)
  BY DEF GoodParent, GoodItem
<1>4. i = [rules |-> rs, before |-> b, after |-> a, keys |-> ks, scope |-> "root", path |-> path,
           entered |-> FALSE]
  BY <1>1, <1>2, <1>3 DEF MappedKid, Item
<1>5. /\ DocumentOf(asked.before, NodesOf(asked.before)[1], NodesOf(asked.before)[2])
      /\ DocumentOf(asked.after, NodesOf(asked.after)[1], NodesOf(asked.after)[2])
      /\ c.before.node \in NodesOf(asked.before)[1] /\ c.after.node \in NodesOf(asked.after)[1]
      /\ IsContainer(c.before.node) /\ IsContainer(c.after.node)
  BY NodesOfParents DEF GoodParent
<1>6. GoodSideOf(c.before, asked.before) /\ GoodSideOf(c.after, asked.after)
  BY DEF GoodParent, GoodItem
<1>7. /\ GoodSideOf(b, asked.before) /\ b.node = Definition(asked.before.defs, Kid(c.before.node, key))
      /\ GoodSideOf(a, asked.after) /\ a.node = Definition(asked.after.defs, Kid(c.after.node, to))
  <2>1. PICK N, F, M, G : /\ N = NodesOf(asked.before)[1] /\ F = NodesOf(asked.before)[2]
                          /\ M = NodesOf(asked.after)[1] /\ G = NodesOf(asked.after)[2]
    OBVIOUS
  <2>2. /\ DocumentOf(asked.before, N, F) /\ GoodSide(c.before, N, F)
        /\ DocumentOf(asked.after, M, G) /\ GoodSide(c.after, M, G)
    BY <1>5, <1>6, <2>1 DEF GoodSideOf
  <2>3. IsKidSide(b, asked.before, N, F, c.before, key)
    BY <1>1, <2>2, KidSidesAreGood
  <2>4. IsKidSide(a, asked.after, M, G, c.after, to)
    BY <1>1, <2>2, KidSidesAreGood
  <2>5. QED
    BY <2>1, <2>3, <2>4 DEF GoodSideOf, IsKidSide
<1>8. IsTable(rs)
  BY <1>2, <1>3, KidRulesAreTables
<1>9. ArraysFit(rs, b.node)
  <2>1. ArraysFit(c.rules, c.before.node) /\ (c.before.node.is = "object" => key = key)
    BY DEF GoodParent, GoodItem
  <2>2. ArraysFit(KidRules(c.rules, key), Definition(asked.before.defs, Kid(c.before.node, key)))
    BY <1>3, <1>5, <2>1, KidRulesFit
  <2>3. QED
    BY <1>2, <1>7, <2>2
<1>10. ArraysFit(rs, a.node)
  <2>1. ArraysFit(c.rules, c.after.node) /\ (c.after.node.is = "object" => to = key)
    BY DEF GoodParent, GoodItem
  <2>2. ArraysFit(KidRules(c.rules, key), Definition(asked.after.defs, Kid(c.after.node, to)))
    BY <1>3, <1>5, <2>1, KidRulesFit
  <2>3. QED
    BY <1>2, <1>7, <2>2
<1>11. IsSequence(ks) /\ Head(ks) = e /\ IsSequence(path)
  <2>1. PICK S : c.keys \in Seq(S)
    BY <1>3 DEF IsSequence
  <2>2. PICK T : T = S \cup {e}
    OBVIOUS
  <2>3. c.keys \in Seq(T) /\ e \in T
    BY <2>1, <2>2
  <2>4. Head(ks) = e
    BY <1>2, <2>3
  <2>5. QED
    BY <1>2, <1>3, <2>4, SequencesGrow
<1>12. QED
  BY <1>1, <1>2, <1>4, <1>7, <1>8, <1>9, <1>10, <1>11 DEF GoodItem

\* The mapped children, each once, in some order.
LEMMA KidsAreGood ==
  ASSUME IsDdl, IsDocument(asked.before), IsDocument(asked.after),
         NEW c, GoodParent(c, asked), NEW mapped, mapped = MappingData(c).mapped
  PROVE  /\ IsSequence(Kids(c))
         /\ \A i \in DOMAIN Kids(c) :
              \E key \in DOMAIN mapped : Kids(c)[i] = MappedKid(c, key, mapped[key])
         /\ \A key \in DOMAIN mapped :
              \E i \in DOMAIN Kids(c) : Kids(c)[i] = MappedKid(c, key, mapped[key])
<1>1. PICK ks : ks = Listed(DOMAIN mapped)
  OBVIOUS
<1>2. IsFiniteSet(DOMAIN mapped)
  BY MappingContract
<1>3. ks \in Seq(DOMAIN mapped) /\ ElementsOf(ks) = DOMAIN mapped
  BY <1>1, <1>2, ListedLists
<1>4. PICK S : S = {MappedKid(c, key, mapped[key]) : key \in DOMAIN mapped}
  OBVIOUS
<1>5. Kids(c) = [i \in DOMAIN ks |-> MappedKid(c, ks[i], mapped[ks[i]])]
  BY <1>1 DEF Kids
<1>6. \A i \in DOMAIN ks : ks[i] \in DOMAIN mapped
  BY <1>3
<1>7. \A i \in DOMAIN ks : MappedKid(c, ks[i], mapped[ks[i]]) \in S
  BY <1>4, <1>6
<1>8. Kids(c) \in Seq(S)
  <2>1. DOMAIN ks = 1 .. Len(ks) /\ Len(ks) \in Nat
    BY <1>3
  <2>2. Kids(c) \in [1 .. Len(ks) -> S]
    BY <1>5, <1>7, <2>1
  <2>3. QED
    BY <2>1, <2>2
<1>9. \A key \in DOMAIN mapped : \E i \in DOMAIN ks : ks[i] = key
  BY <1>3 DEF ElementsOf
<1>10. QED
  BY <1>5, <1>6, <1>8, <1>9 DEF IsSequence

\* A side without the child.
LEMMA NoSides ==
  ASSUME NEW N, NEW F, NEW s, GoodSide(s, N, F)
  PROVE  NoSide(s).at = <<>> /\ NoSide(s).node = Absent
<1>1. PICK n, h, a, b, f, e : s = [node |-> n, at |-> a, home |-> h, first |-> f, above |-> b, entered |-> e]
  BY DEF GoodSide
<1>2. PICK m, v, w : m = Absent /\ v = <<>> /\ w = <<n>> \o b
  OBVIOUS
<1>3. NoSide(s) = [s EXCEPT !.node = m, !.at = v, !.home = v, !.first = v, !.above = w]
  BY <1>1, <1>2 DEF NoSide
<1>4. NoSide(s) = [node |-> m, at |-> v, home |-> v, first |-> v, above |-> w, entered |-> e]
  BY <1>1, <1>3
<1>5. QED
  BY <1>2, <1>4

\* A child that only one side has.
LEMMA ChildContexts ==
  ASSUME IsDdl, NEW c, c.scope = "root", IsTable(c.rules), NEW p, NEW q, NEW key,
         NEW value, value = IF q.node.is = "undefined" THEN p.node ELSE q.node,
         NEW k, k = ChildContext(c, p, q, key)
  PROVE  /\ k.scope = "root" /\ k.path = Append(c.path, key)
         /\ k.rules = Resolved(KidRules(c.rules, key), value, <<>>)
         /\ IsTable(k.rules) /\ k.before = p /\ k.after = q
<1>1. PICK rs : rs = Resolved(KidRules(c.rules, key), value, <<>>)
  OBVIOUS
<1>2. IsTable(rs)
  BY <1>1, KidRulesAreTables, ResolvedIsTable
<1>3. PICK keys, path : /\ path = Append(c.path, key)
                        /\ ChildContext(c, p, q, key) = Item(rs, p, q, keys, "root", path)
  BY <1>1 DEF ChildContext
<1>4. QED
  BY <1>1, <1>2, <1>3 DEF Item

LEMMA RemovedKids ==
  ASSUME IsDdl, NEW c, GoodParent(c, asked), IsDocument(asked.before), IsDocument(asked.after),
         NEW key, NEW k, k = RemovedKid(c, key)
  PROVE  /\ k.scope = "root" /\ k.path = Append(c.path, key) /\ IsTable(k.rules)
         /\ k.rules = Resolved(KidRules(c.rules, key),
                              Definition(asked.before.defs, Kid(c.before.node, key)), <<>>)
         /\ k.before.at = Append(c.before.home, key) /\ k.after.at = <<>>
<1>1. PICK N, F, M, G : /\ N = NodesOf(asked.before)[1] /\ F = NodesOf(asked.before)[2]
                        /\ M = NodesOf(asked.after)[1] /\ G = NodesOf(asked.after)[2]
  OBVIOUS
<1>2. /\ DocumentOf(asked.before, N, F)
      /\ GoodSide(c.before, N, F) /\ GoodSide(c.after, M, G) /\ c.scope = "root" /\ IsTable(c.rules)
  BY <1>1, NodesOfParents DEF GoodParent, GoodItem, GoodSideOf
<1>3. PICK b, na : b = KidSide(asked.before.defs, c.before, key) /\ na = NoSide(c.after)
  OBVIOUS
<1>4. IsKidSide(b, asked.before, N, F, c.before, key)
  BY <1>2, <1>3, KidSidesAreGood
<1>5. na.at = <<>> /\ na.node.is = "undefined"
  <2>1. Absent.is = "undefined"
    BY DEF Absent
  <2>2. QED
    BY <1>2, <1>3, <2>1, NoSides
<1>6. k = ChildContext(c, b, na, key)
  BY <1>3 DEF RemovedKid
<1>7. PICK value : value = IF na.node.is = "undefined" THEN b.node ELSE na.node
  OBVIOUS
<1>8. /\ k.scope = "root" /\ k.path = Append(c.path, key)
      /\ k.rules = Resolved(KidRules(c.rules, key), value, <<>>)
      /\ IsTable(k.rules) /\ k.before = b /\ k.after = na
  BY <1>2, <1>6, <1>7, ChildContexts
<1>9. value = Definition(asked.before.defs, Kid(c.before.node, key)) /\ b.at = Append(c.before.home, key)
  BY <1>4, <1>5, <1>7 DEF IsKidSide
<1>10. QED
  BY <1>5, <1>8, <1>9

LEMMA AddedKids ==
  ASSUME IsDdl, NEW c, GoodParent(c, asked), IsDocument(asked.before), IsDocument(asked.after),
         NEW key, NEW k, k = AddedKid(c, key)
  PROVE  /\ k.scope = "root" /\ k.path = Append(c.path, key) /\ IsTable(k.rules)
         /\ k.after.at = Append(c.after.home, key) /\ k.before.at = <<>>
<1>1. PICK N, F, M, G : /\ N = NodesOf(asked.before)[1] /\ F = NodesOf(asked.before)[2]
                        /\ M = NodesOf(asked.after)[1] /\ G = NodesOf(asked.after)[2]
  OBVIOUS
<1>2. /\ DocumentOf(asked.after, M, G)
      /\ GoodSide(c.before, N, F) /\ GoodSide(c.after, M, G) /\ c.scope = "root" /\ IsTable(c.rules)
  BY <1>1, NodesOfParents DEF GoodParent, GoodItem, GoodSideOf
<1>3. PICK nb, a : nb = NoSide(c.before) /\ a = KidSide(asked.after.defs, c.after, key)
  OBVIOUS
<1>4. IsKidSide(a, asked.after, M, G, c.after, key)
  BY <1>2, <1>3, KidSidesAreGood
<1>5. nb.at = <<>>
  BY <1>2, <1>3, NoSides
<1>6. k = ChildContext(c, nb, a, key)
  BY <1>3 DEF AddedKid
<1>7. PICK value : value = IF a.node.is = "undefined" THEN nb.node ELSE a.node
  OBVIOUS
<1>8. /\ k.scope = "root" /\ k.path = Append(c.path, key)
      /\ k.rules = Resolved(KidRules(c.rules, key), value, <<>>)
      /\ IsTable(k.rules) /\ k.before = nb /\ k.after = a
  BY <1>2, <1>6, <1>7, ChildContexts
<1>9. a.at = Append(c.after.home, key)
  BY <1>4 DEF IsKidSide
<1>10. QED
  BY <1>5, <1>8, <1>9

-----------------------------------------------------------------------------
(***************************************************************************)
(* The crawl: what is still to be entered is good, and a replacement or a  *)
(* renaming is told of a pair that is known.                               *)
(***************************************************************************)
CrawlInv ==
  /\ IsSequence(todo)
  /\ \A n \in DOMAIN todo : GoodItem(todo[n], asked) /\ (todo[n].entered => GoodParent(todo[n], asked))

TellInv ==
  \A d \in diffs :
    /\ d.scope = "root"
    /\ d.action \in {"rename", "replace"} => <<d.before, d.after, "root">> \in DOMAIN compared

DocumentsGiven == \A x \in Input : IsDocument(x.before) /\ IsDocument(x.after)

\* The head of the crawl.
LEMMA CurrentIsGood ==
  ASSUME IsDdl, CrawlInv, NEW c \in Current
  PROVE  /\ todo # <<>> /\ GoodItem(c, asked)
         /\ c.entered => c = Head(todo) /\ GoodParent(c, asked)
         /\ ~c.entered => /\ ~Head(todo).entered /\ c = Context(Head(todo)) /\ c.rules.lazy = None
                          /\ GoodItem(Head(todo), asked)
<1>1. todo # <<>> /\ c = IF Head(todo).entered THEN Head(todo) ELSE Context(Head(todo))
  BY DEF Current
<1>2. 1 \in DOMAIN todo /\ Head(todo) = todo[1]
  BY <1>1 DEF CrawlInv, IsSequence
<1>3. PICK h : h = Head(todo) /\ GoodItem(h, asked) /\ (h.entered => GoodParent(h, asked))
  BY <1>2 DEF CrawlInv
<1>4. CASE h.entered
  BY <1>1, <1>3, <1>4
<1>5. CASE ~h.entered
  <2>1. c = Context(h)
    BY <1>1, <1>3, <1>5
  <2>2. GoodItem(c, asked) /\ ~c.entered /\ c.rules.lazy = None
    BY <1>3, <1>5, <2>1, ContextsAreGood
  <2>3. QED
    BY <1>1, <1>3, <1>5, <2>1, <2>2
<1>6. QED
  BY <1>4, <1>5

\* The rest of the crawl.
LEMMA TailIsGood ==
  ASSUME CrawlInv, todo # <<>>
  PROVE  /\ IsSequence(Tail(todo))
         /\ \A n \in DOMAIN Tail(todo) : \E m \in DOMAIN todo : m # 1 /\ Tail(todo)[n] = todo[m]
<1>1. PICK S : todo \in Seq(S)
  BY DEF CrawlInv, IsSequence
<1>2. Tail(todo) \in Seq(S)
  BY <1>1
<1>3. \A n \in DOMAIN Tail(todo) : n + 1 \in DOMAIN todo /\ n + 1 # 1 /\ Tail(todo)[n] = todo[n + 1]
  BY <1>1
<1>4. QED
  BY <1>2, <1>3 DEF IsSequence

\* A pair of containers that is entered: now a parent.
LEMMA EnteredIsGood ==
  ASSUME IsDdl, CrawlInv, NEW c \in Current, ~c.entered, ~Replaced(c), IsContainer(c.before.node)
  PROVE  /\ GoodParent(c, asked) /\ GoodParent([c EXCEPT !.entered = TRUE], asked)
         /\ \E e : /\ e = [c EXCEPT !.entered = TRUE] /\ e.entered /\ e.rules = c.rules
                   /\ e.before = c.before /\ e.after = c.after /\ e.keys = c.keys /\ e.path = c.path
<1>1. GoodItem(c, asked) /\ c.rules.lazy = None
  BY CurrentIsGood
<1>2. GoodParent(c, asked)
  BY <1>1 DEF GoodParent, Replaced
<1>3. PICK r, b, a, k, p, f :
        c = [rules |-> r, before |-> b, after |-> a, keys |-> k, scope |-> "root", path |-> p, entered |-> f]
  BY <1>1 DEF GoodItem
<1>4. PICK e, v : v = TRUE /\ e = [c EXCEPT !.entered = v]
  OBVIOUS
<1>5. e = [rules |-> r, before |-> b, after |-> a, keys |-> k, scope |-> "root", path |-> p, entered |-> v]
  BY <1>3, <1>4
<1>6. GoodParent(e, asked)
  BY <1>2, <1>3, <1>4, <1>5 DEF GoodParent, GoodItem
<1>7. QED
  BY <1>2, <1>3, <1>4, <1>5, <1>6

LEMMA CrawlInit ==
  ASSUME IsDdl, DocumentsGiven, Init
  PROVE  CrawlInv /\ TellInv /\ IsDocument(asked.before) /\ IsDocument(asked.after)
<1>1. asked \in Input /\ todo = <<Start(asked)>> /\ diffs = {}
  BY DEF Init
<1>2. IsDocument(asked.before) /\ IsDocument(asked.after)
  BY <1>1 DEF DocumentsGiven
<1>3. /\ DocumentOf(asked.before, NodesOf(asked.before)[1], NodesOf(asked.before)[2])
      /\ DocumentOf(asked.after, NodesOf(asked.after)[1], NodesOf(asked.after)[2])
  BY <1>2, NodesAreThere
<1>4. PICK b, a, ks, p, r : /\ b = RootSide(asked.before) /\ a = RootSide(asked.after)
                            /\ ks = <<<<"#", "#">>>> /\ p = <<>> /\ r = ddlRules
  OBVIOUS
<1>5. IsSequence(p) /\ IsSequence(ks)
  <2>1. p \in Seq({}) /\ ks \in Seq({<<"#", "#">>})
    BY <1>4
  <2>2. QED
    BY <2>1 DEF IsSequence
<1>6. \A d : d.root.is = "object" => Definition(d.defs, d.root).is = "object"
  BY DEF Definition
<1>7. ASSUME NEW d, NEW N, NEW F, DocumentOf(d, N, F)
      PROVE  GoodSide(RootSide(d), N, F) /\ RootSide(d).node.is = "object"
  <2>1. d.root \in N /\ d.root.is = "object"
    BY <1>7 DEF DocumentOf
  <2>2. PICK e, q : e = Nothing /\ q = p
    OBVIOUS
  <2>3. RootSide(d) = Side(d.defs, d.root, q, q, e)
    BY <1>4, <2>2 DEF RootSide
  <2>4. IsSequence(q)
    BY <1>5, <2>2
  <2>5. GoodSide(Side(d.defs, d.root, q, q, e), N, F)
        /\ Side(d.defs, d.root, q, q, e).node = Definition(d.defs, d.root)
    BY <1>7, <2>1, <2>2, <2>4, SidesAreGood
  <2>6. QED
    BY <1>6, <2>1, <2>3, <2>5
<1>8. /\ GoodSideOf(b, asked.before) /\ b.node.is = "object"
      /\ GoodSideOf(a, asked.after) /\ a.node.is = "object"
  BY <1>3, <1>4, <1>7 DEF GoodSideOf
<1>9. IsTable(r) /\ r.mapping = "default"
  BY <1>4, SchemaTables
<1>10. Start(asked) = [rules |-> r, before |-> b, after |-> a, keys |-> ks, scope |-> "root",
                       path |-> p, entered |-> FALSE]
  BY <1>4 DEF Start, Item, IsDdl
<1>11. PICK i : i = Start(asked)
  OBVIOUS
<1>12. GoodItem(i, asked) /\ ~i.entered
  BY <1>5, <1>8, <1>9, <1>10, <1>11 DEF GoodItem, ArraysFit
<1>13. todo \in Seq({i}) /\ \A n \in DOMAIN todo : todo[n] = i
  BY <1>1, <1>11
<1>14. CrawlInv
  BY <1>12, <1>13 DEF CrawlInv, IsSequence
<1>15. TellInv
  BY <1>1 DEF TellInv
<1>16. QED
  BY <1>2, <1>14, <1>15

\* The elements of a concatenation.
LEMMA Concatenated ==
  ASSUME NEW U, NEW p \in Seq(U), NEW q \in Seq(U)
  PROVE  /\ p \o q \in Seq(U) /\ DOMAIN (p \o q) = 1 .. (Len(p) + Len(q))
         /\ DOMAIN p = 1 .. Len(p) /\ Len(p) \in Nat /\ DOMAIN q = 1 .. Len(q) /\ Len(q) \in Nat
         /\ \A n \in DOMAIN p : (p \o q)[n] = p[n]
         /\ \A n \in DOMAIN q : (p \o q)[Len(p) + n] = q[n]
<1>1. p \o q \in Seq(U) /\ Len(p \o q) = Len(p) + Len(q)
  OBVIOUS
<1>2. DOMAIN (p \o q) = 1 .. (Len(p) + Len(q))
  BY <1>1
<1>3. DOMAIN p = 1 .. Len(p) /\ Len(p) \in Nat /\ DOMAIN q = 1 .. Len(q) /\ Len(q) \in Nat
  OBVIOUS
<1>4. \A n \in DOMAIN p : (p \o q)[n] = p[n]
  OBVIOUS
<1>5. \A n \in DOMAIN q : (p \o q)[Len(p) + n] = q[n]
  OBVIOUS
<1>6. QED
  BY <1>1, <1>2, <1>3, <1>4, <1>5

\* A parent that is entered: its children, itself, and the rest.
LEMMA EnteredCrawl ==
  ASSUME IsDdl, CrawlInv, IsDocument(asked.before), IsDocument(asked.after),
         NEW c \in Current, Enter(c), NEW e, e = [c EXCEPT !.entered = TRUE],
         NEW mapped, mapped = MappingData(c).mapped
  PROVE  /\ IsSequence(todo')
         /\ \A n \in DOMAIN todo' :
              \/ \E key \in DOMAIN mapped : todo'[n] = MappedKid(c, key, mapped[key])
              \/ todo'[n] = e
              \/ \E m \in DOMAIN todo : m # 1 /\ todo'[n] = todo[m]
         /\ \A key \in DOMAIN mapped : \E n \in DOMAIN todo' : todo'[n] = MappedKid(c, key, mapped[key])
         /\ \E n \in DOMAIN todo' : todo'[n] = e
         /\ \A m \in DOMAIN todo : m # 1 => \E n \in DOMAIN todo' : todo'[n] = todo[m]
<1>1. ~c.entered /\ ~Replaced(c) /\ IsContainer(c.before.node) /\ todo' = Kids(c) \o <<e>> \o Tail(todo)
  BY DEF Enter, Fresh
<1>2. GoodParent(c, asked)
  BY <1>1, EnteredIsGood
<1>3. todo # <<>>
  BY CurrentIsGood
<1>4. PICK ks, t : ks = Kids(c) /\ t = Tail(todo)
  OBVIOUS
<1>5. /\ IsSequence(ks)
      /\ \A i \in DOMAIN ks : \E key \in DOMAIN mapped : ks[i] = MappedKid(c, key, mapped[key])
      /\ \A key \in DOMAIN mapped : \E i \in DOMAIN ks : ks[i] = MappedKid(c, key, mapped[key])
  <2>1. /\ IsSequence(Kids(c))
        /\ \A i \in DOMAIN Kids(c) :
             \E key \in DOMAIN mapped : Kids(c)[i] = MappedKid(c, key, mapped[key])
        /\ \A key \in DOMAIN mapped :
             \E i \in DOMAIN Kids(c) : Kids(c)[i] = MappedKid(c, key, mapped[key])
    BY <1>2, KidsAreGood
  <2>2. QED
    BY <1>4, <2>1
<1>6. PICK S : todo \in Seq(S)
  BY DEF CrawlInv, IsSequence
<1>7. t \in Seq(S) /\ (\A n \in DOMAIN t : n + 1 \in DOMAIN todo /\ n + 1 # 1 /\ t[n] = todo[n + 1])
        /\ \A m \in DOMAIN todo : m # 1 => m - 1 \in DOMAIN t /\ t[m - 1] = todo[m]
  BY <1>3, <1>4, <1>6
<1>8. PICK R : ks \in Seq(R)
  BY <1>5 DEF IsSequence
<1>9. PICK U, s : U = S \cup R \cup {e} /\ s = <<e>>
  OBVIOUS
<1>10. ks \in Seq(U) /\ s \in Seq(U) /\ t \in Seq(U) /\ DOMAIN s = {1} /\ s[1] = e
  BY <1>7, <1>8, <1>9
<1>11. PICK q : q = ks \o s \o t
  OBVIOUS
<1>12. /\ q \in Seq(U)
       /\ \A n \in DOMAIN q : \/ n \in DOMAIN ks /\ q[n] = ks[n]
                              \/ n = Len(ks) + 1 /\ q[n] = s[1]
                              \/ n - Len(ks) - 1 \in DOMAIN t /\ q[n] = t[n - Len(ks) - 1]
       /\ \A n \in DOMAIN ks : n \in DOMAIN q /\ q[n] = ks[n]
       /\ Len(ks) + 1 \in DOMAIN q /\ q[Len(ks) + 1] = s[1]
       /\ \A n \in DOMAIN t : Len(ks) + 1 + n \in DOMAIN q /\ q[Len(ks) + 1 + n] = t[n]
  <2>1. PICK u : u = ks \o s
    OBVIOUS
  <2>2. /\ u \in Seq(U) /\ Len(u) = Len(ks) + 1 /\ u[Len(ks) + 1] = s[1]
        /\ \A n \in DOMAIN ks : u[n] = ks[n]
    <3>1. u \in Seq(U) /\ DOMAIN u = 1 .. (Len(ks) + Len(s)) /\ Len(ks) \in Nat
          /\ \A n \in DOMAIN ks : u[n] = ks[n]
      BY <1>10, <2>1, Concatenated
    <3>2. \A n \in DOMAIN s : u[Len(ks) + n] = s[n]
      BY <1>10, <2>1, Concatenated
    <3>3. Len(s) = 1
      BY <1>9
    <3>4. Len(u) = Len(ks) + 1
      BY <3>1, <3>3
    <3>5. u[Len(ks) + 1] = s[1]
      BY <1>10, <3>2
    <3>6. QED
      BY <3>1, <3>4, <3>5
  <2>3. q = u \o t
    <3>1. ks \o s \o t = (ks \o s) \o t
      OBVIOUS
    <3>2. QED
      BY <1>11, <2>1, <3>1
  <2>4. /\ q \in Seq(U) /\ Len(q) = Len(u) + Len(t)
        /\ \A n \in DOMAIN u : q[n] = u[n]
        /\ \A n \in DOMAIN t : q[Len(u) + n] = t[n]
    <3>1. /\ q \in Seq(U) /\ DOMAIN q = 1 .. (Len(u) + Len(t)) /\ Len(u) \in Nat /\ Len(t) \in Nat
          /\ \A n \in DOMAIN u : q[n] = u[n]
          /\ \A n \in DOMAIN t : q[Len(u) + n] = t[n]
      <4>1. t \in Seq(U) /\ u \in Seq(U)
        BY <1>10, <2>2
      <4>2. /\ u \o t \in Seq(U) /\ DOMAIN (u \o t) = 1 .. (Len(u) + Len(t))
            /\ DOMAIN u = 1 .. Len(u) /\ Len(u) \in Nat /\ DOMAIN t = 1 .. Len(t) /\ Len(t) \in Nat
            /\ \A n \in DOMAIN u : (u \o t)[n] = u[n]
            /\ \A n \in DOMAIN t : (u \o t)[Len(u) + n] = t[n]
        BY <4>1, Concatenated
      <4>3. QED
        BY <2>3, <4>2
    <3>2. QED
      BY <3>1
  <2>5. /\ DOMAIN ks = 1 .. Len(ks) /\ Len(ks) \in Nat /\ DOMAIN t = 1 .. Len(t) /\ Len(t) \in Nat
        /\ DOMAIN u = 1 .. Len(u) /\ DOMAIN q = 1 .. Len(q)
    BY <1>10, <2>2, <2>4
  <2>6. \A n \in DOMAIN q : \/ n \in DOMAIN ks
                            \/ n = Len(ks) + 1
                            \/ n - Len(ks) - 1 \in DOMAIN t /\ n = Len(u) + (n - Len(ks) - 1)
    BY <2>2, <2>4, <2>5
  <2>7. \A n \in DOMAIN ks : n \in DOMAIN u /\ n \in DOMAIN q
    BY <2>2, <2>4, <2>5
  <2>8. Len(ks) + 1 \in DOMAIN u /\ Len(ks) + 1 \in DOMAIN q
    BY <2>2, <2>4, <2>5
  <2>9. \A n \in DOMAIN t : Len(ks) + 1 + n \in DOMAIN q /\ Len(ks) + 1 + n = Len(u) + n
    BY <2>2, <2>4, <2>5
  <2>10. QED
    BY <2>2, <2>4, <2>6, <2>7, <2>8, <2>9
<1>13. todo' = q
  BY <1>1, <1>4, <1>9, <1>11
<1>14. \A n \in DOMAIN q :
         \/ \E key \in DOMAIN mapped : q[n] = MappedKid(c, key, mapped[key])
         \/ q[n] = e
         \/ \E m \in DOMAIN todo : m # 1 /\ q[n] = todo[m]
  <2>1. ASSUME NEW n \in DOMAIN q
        PROVE  \/ \E key \in DOMAIN mapped : q[n] = MappedKid(c, key, mapped[key])
               \/ q[n] = e
               \/ \E m \in DOMAIN todo : m # 1 /\ q[n] = todo[m]
    <3>1. CASE n \in DOMAIN ks /\ q[n] = ks[n]
      BY <1>5, <3>1
    <3>2. CASE n = Len(ks) + 1 /\ q[n] = s[1]
      BY <1>10, <3>2
    <3>3. CASE n - Len(ks) - 1 \in DOMAIN t /\ q[n] = t[n - Len(ks) - 1]
      <4>1. PICK m : m = n - Len(ks) - 1
        OBVIOUS
      <4>2. m \in DOMAIN t /\ q[n] = t[m]
        BY <3>3, <4>1
      <4>3. QED
        BY <1>7, <4>2
    <3>4. QED
      BY <1>12, <3>1, <3>2, <3>3
  <2>2. QED
    BY <2>1
<1>15. \A key \in DOMAIN mapped : \E n \in DOMAIN q : q[n] = MappedKid(c, key, mapped[key])
  BY <1>5, <1>12
<1>16. \A m \in DOMAIN todo : m # 1 => \E n \in DOMAIN q : q[n] = todo[m]
  <2>1. ASSUME NEW m \in DOMAIN todo, m # 1 PROVE \E n \in DOMAIN q : q[n] = todo[m]
    <3>1. m - 1 \in DOMAIN t /\ t[m - 1] = todo[m]
      BY <1>7, <2>1
    <3>2. Len(ks) + 1 + (m - 1) \in DOMAIN q /\ q[Len(ks) + 1 + (m - 1)] = t[m - 1]
      BY <1>12, <3>1
    <3>3. QED
      BY <3>1, <3>2
  <2>2. QED
    BY <2>1
<1>17. IsSequence(q)
  BY <1>12 DEF IsSequence
<1>18. \E n \in DOMAIN q : q[n] = e
  BY <1>10, <1>12
<1>19. QED
  BY <1>13, <1>14, <1>15, <1>16, <1>17, <1>18

LEMMA CrawlStep ==
  ASSUME IsDdl, CrawlInv, IsDocument(asked.before), IsDocument(asked.after), [Next]_vars
  PROVE  CrawlInv' /\ asked' = asked
<1>1. CASE UNCHANGED vars
  BY <1>1 DEF vars, CrawlInv
<1>2. ASSUME NEW c \in Current, Ignore(c) \/ Reuse(c) \/ Settle(c) \/ Leave(c)
      PROVE  CrawlInv' /\ asked' = asked
  <2>1. todo' = Tail(todo) /\ asked' = asked
    BY <1>2 DEF Ignore, Reuse, Settle, Leave
  <2>2. todo # <<>>
    BY CurrentIsGood
  <2>3. QED
    BY <2>1, <2>2, TailIsGood DEF CrawlInv
<1>3. ASSUME NEW c \in Current, Enter(c) PROVE CrawlInv' /\ asked' = asked
  <2>1. asked' = asked
    BY <1>3 DEF Enter
  <2>2. ~c.entered /\ ~Replaced(c) /\ IsContainer(c.before.node)
    BY <1>3 DEF Enter, Fresh
  <2>3. PICK e, mapped : e = [c EXCEPT !.entered = TRUE] /\ mapped = MappingData(c).mapped
    OBVIOUS
  <2>4. GoodParent(c, asked) /\ GoodParent(e, asked)
    BY <2>2, <2>3, EnteredIsGood
  <2>5. \A key \in DOMAIN mapped : GoodItem(MappedKid(c, key, mapped[key]), asked)
                                     /\ ~MappedKid(c, key, mapped[key]).entered
    <3>1. \A key \in DOMAIN mapped : c.before.node.is = "object" => mapped[key] = key
      BY <2>3, <2>4, MappingContract
    <3>2. QED
      BY <2>4, <3>1, MappedKidIsGood
  <2>6. \A n \in DOMAIN todo' :
              \/ \E key \in DOMAIN mapped : todo'[n] = MappedKid(c, key, mapped[key])
              \/ todo'[n] = e
              \/ \E m \in DOMAIN todo : m # 1 /\ todo'[n] = todo[m]
    BY <1>3, <2>3, EnteredCrawl
  <2>7. IsSequence(todo')
    BY <1>3, <2>3, EnteredCrawl
  <2>8. GoodItem(e, asked)
    BY <2>4 DEF GoodParent
  <2>9. \A n \in DOMAIN todo' : GoodItem(todo'[n], asked) /\ (todo'[n].entered => GoodParent(todo'[n], asked))
    BY <2>4, <2>5, <2>6, <2>8 DEF CrawlInv
  <2>10. QED
    BY <2>1, <2>7, <2>9 DEF CrawlInv
<1>4. QED
  BY <1>1, <1>2, <1>3 DEF Next

-----------------------------------------------------------------------------
(***************************************************************************)
(* What is told is told once.                                              *)
(***************************************************************************)
LEMMA LastIsKept ==
  ASSUME NEW s, IsSequence(s), NEW e, NEW f, Append(s, e) = Append(s, f)
  PROVE  e = f
<1>1. PICK S : s \in Seq(S)
  BY DEF IsSequence
<1>2. PICK T : T = S \cup {e, f}
  OBVIOUS
<1>3. s \in Seq(T) /\ e \in T /\ f \in T
  BY <1>1, <1>2
<1>4. Append(s, e)[Len(s) + 1] = e /\ Append(s, f)[Len(s) + 1] = f
  BY <1>3
<1>5. QED
  BY <1>4

\* The difference of an item in the scope of the root.
DiffIs(d, k, action) ==
  /\ d.scope = "root"
  /\ d.action = action /\ d.before = k.before.at /\ d.after = k.after.at /\ d.path = k.path
  /\ d.type = Verdict(k, action)

LEMMA DiffsOfItems ==
  ASSUME NEW k, k.scope = "root", NEW action
  PROVE  DiffIs(DiffOf(k, action), k, action)
BY DEF DiffOf, DiffIs

\* What is told where a pair is met: at most one renaming and one replacement, of this pair.
Met(c, D) ==
  /\ \A d \in D : \E action \in {"rename", "replace"} : d = DiffOf(c, action) /\ DiffIs(d, c, action)

LEMMA MetDiffs ==
  ASSUME NEW c, GoodItem(c, asked)
  PROVE  /\ Footprint(c) = <<c.before.at, c.after.at, "root">>
         /\ Met(c, Renamed(c))
         /\ Met(c, Renamed(c) \cup (IF Replaced(c) THEN {DiffOf(c, "replace")} ELSE {}))
<1>1. c.scope = "root" /\ c.before.first = c.before.at /\ c.after.first = c.after.at
  BY DEF GoodItem, GoodSideOf, GoodSide
<1>2. \A action : DiffIs(DiffOf(c, action), c, action)
  BY <1>1, DiffsOfItems
<1>3. Renamed(c) \subseteq {DiffOf(c, "rename")}
  BY DEF Renamed
<1>4. QED
  BY <1>1, <1>2, <1>3 DEF Footprint, Met

\* A pair met for the first time.
LEMMA ToldWhenMet ==
  ASSUME TellInv, ToldOnce, NEW c, GoodItem(c, asked), Fresh(c), Remember(c),
         NEW D, Met(c, D), diffs' = diffs \cup D
  PROVE  TellInv' /\ ToldOnce'
<1>1. Footprint(c) = <<c.before.at, c.after.at, "root">> /\ Footprint(c) \notin DOMAIN compared
  BY MetDiffs DEF Fresh
<1>2. DOMAIN compared' = DOMAIN compared \cup {Footprint(c)}
  BY DEF Remember, Over
<1>3. \A d \in D :
        /\ d.scope = "root"
        /\ d.action \in {"rename", "replace"} /\ <<d.before, d.after, "root">> = Footprint(c)
        /\ d = DiffOf(c, d.action)
  BY <1>1 DEF Met, DiffIs
<1>4. TellInv'
  <2>1. ASSUME NEW d \in diffs'
        PROVE  /\ d.scope = "root"
               /\ d.action \in {"rename", "replace"} => <<d.before, d.after, "root">> \in DOMAIN compared'
    <3>1. CASE d \in diffs
      BY <1>2, <3>1 DEF TellInv
    <3>2. CASE d \in D
      BY <1>2, <1>3, <3>2
    <3>3. QED
      BY <3>1, <3>2
  <2>2. QED
    BY <2>1 DEF TellInv
<1>5. ASSUME NEW d \in diffs', NEW e \in diffs', d.action = e.action, d.before = e.before, d.after = e.after
      PROVE  d = e
  <2>1. CASE d \in diffs /\ e \in diffs
    BY <1>5, <2>1 DEF ToldOnce
  <2>2. CASE d \in D /\ e \in D
    <3>1. d = DiffOf(c, d.action) /\ e = DiffOf(c, e.action)
      BY <1>3, <2>2
    <3>2. QED
      BY <1>5, <3>1
  <2>3. \A o \in diffs, n \in D : o.action # n.action \/ o.before # n.before \/ o.after # n.after
    <3>1. ASSUME NEW o \in diffs, NEW n \in D, o.action = n.action, o.before = n.before, o.after = n.after
          PROVE FALSE
      <4>1. n.action \in {"rename", "replace"} /\ <<n.before, n.after, "root">> = Footprint(c)
        BY <1>3
      <4>2. <<o.before, o.after, "root">> \in DOMAIN compared
        BY <3>1, <4>1 DEF TellInv
      <4>3. QED
        BY <1>1, <3>1, <4>1, <4>2
    <3>2. QED
      BY <3>1
  <2>4. QED
    BY <1>5, <2>1, <2>2, <2>3
<1>6. QED
  BY <1>4, <1>5 DEF ToldOnce

\* The children that only one side has.
LEMMA LoneDiffs ==
  ASSUME IsDdl, NEW c, GoodParent(c, asked), IsDocument(asked.before), IsDocument(asked.after),
         NEW removed, NEW added
  PROVE  /\ \A d \in Removals(c, removed) :
              \E key \in removed : /\ d = DiffOf(RemovedKid(c, key), "remove")
                                   /\ DiffIs(d, RemovedKid(c, key), "remove")
                                   /\ ~AlreadyTold("remove", RemovedKid(c, key))
                                   /\ RemovedKid(c, key).scope = "root"
                                   /\ d.before = Append(c.before.home, key) /\ d.after = <<>>
         /\ \A d \in Additions(c, added) :
              \E key \in added : /\ d = DiffOf(AddedKid(c, key), "add")
                                 /\ DiffIs(d, AddedKid(c, key), "add")
                                 /\ ~AlreadyTold("add", AddedKid(c, key))
                                 /\ AddedKid(c, key).scope = "root"
                                 /\ d.after = Append(c.after.home, key) /\ d.before = <<>>
<1>1. ASSUME NEW d \in Removals(c, removed)
      PROVE  \E key \in removed : /\ d = DiffOf(RemovedKid(c, key), "remove")
                                  /\ DiffIs(d, RemovedKid(c, key), "remove")
                                  /\ ~AlreadyTold("remove", RemovedKid(c, key))
                                  /\ RemovedKid(c, key).scope = "root"
                                  /\ d.before = Append(c.before.home, key) /\ d.after = <<>>
  <2>1. PICK key \in removed : /\ Tells("remove", RemovedKid(c, key))
                               /\ d = DiffOf(RemovedKid(c, key), "remove")
    BY DEF Removals
  <2>2. PICK k : k = RemovedKid(c, key)
    OBVIOUS
  <2>3. k.scope = "root" /\ k.before.at = Append(c.before.home, key) /\ k.after.at = <<>>
    BY <2>2, RemovedKids
  <2>4. DiffIs(d, k, "remove")
    BY <2>1, <2>2, <2>3, DiffsOfItems
  <2>5. d.before = k.before.at /\ d.after = k.after.at
    BY <2>4 DEF DiffIs
  <2>6. ~AlreadyTold("remove", k)
    BY <2>1, <2>2 DEF Tells
  <2>7. QED
    BY <2>1, <2>2, <2>3, <2>4, <2>5, <2>6
<1>2. ASSUME NEW d \in Additions(c, added)
      PROVE  \E key \in added : /\ d = DiffOf(AddedKid(c, key), "add")
                                /\ DiffIs(d, AddedKid(c, key), "add")
                                /\ ~AlreadyTold("add", AddedKid(c, key))
                                /\ AddedKid(c, key).scope = "root"
                                /\ d.after = Append(c.after.home, key) /\ d.before = <<>>
  <2>1. PICK key \in added : Tells("add", AddedKid(c, key)) /\ d = DiffOf(AddedKid(c, key), "add")
    BY DEF Additions
  <2>2. PICK k : k = AddedKid(c, key)
    OBVIOUS
  <2>3. k.scope = "root" /\ k.after.at = Append(c.after.home, key) /\ k.before.at = <<>>
    BY <2>2, AddedKids
  <2>4. DiffIs(d, k, "add")
    BY <2>1, <2>2, <2>3, DiffsOfItems
  <2>5. d.before = k.before.at /\ d.after = k.after.at
    BY <2>4 DEF DiffIs
  <2>6. ~AlreadyTold("add", k)
    BY <2>1, <2>2 DEF Tells
  <2>7. QED
    BY <2>1, <2>2, <2>3, <2>4, <2>5, <2>6
<1>3. QED
  BY <1>1, <1>2

LEMMA ToldWhenLeft ==
  ASSUME IsDdl, TellInv, ToldOnce, NEW c, GoodParent(c, asked),
         IsDocument(asked.before), IsDocument(asked.after), Leave(c)
  PROVE  TellInv' /\ ToldOnce'
<1>1. PICK removed, added : diffs' = diffs \cup Removals(c, removed) \cup Additions(c, added)
  BY DEF Leave
<1>2. PICK R, A : R = Removals(c, removed) /\ A = Additions(c, added)
  OBVIOUS
<1>3. diffs' = diffs \cup R \cup A /\ compared' = compared
  BY <1>1, <1>2 DEF Leave
<1>4. \A d \in R :
        \E key \in removed : /\ d = DiffOf(RemovedKid(c, key), "remove")
                             /\ DiffIs(d, RemovedKid(c, key), "remove")
                             /\ ~AlreadyTold("remove", RemovedKid(c, key))
                             /\ RemovedKid(c, key).scope = "root"
                             /\ d.before = Append(c.before.home, key) /\ d.after = <<>>
  BY <1>2, LoneDiffs
<1>5. \A d \in A :
        \E key \in added : /\ d = DiffOf(AddedKid(c, key), "add")
                           /\ DiffIs(d, AddedKid(c, key), "add")
                           /\ ~AlreadyTold("add", AddedKid(c, key))
                           /\ AddedKid(c, key).scope = "root"
                           /\ d.after = Append(c.after.home, key) /\ d.before = <<>>
  BY <1>2, LoneDiffs
<1>6. IsSequence(c.before.home) /\ IsSequence(c.after.home)
  BY DEF GoodParent, GoodItem, GoodSideOf, GoodSide
<1>7. \A o \in diffs : o.scope = "root"
  BY DEF TellInv
<1>8. /\ \A d \in R : d.action = "remove" /\ d.scope = "root"
      /\ \A d \in A : d.action = "add" /\ d.scope = "root"
  BY <1>4, <1>5 DEF DiffIs
<1>9. \A d, e \in R : d.before = e.before => d = e
  <2>1. ASSUME NEW d \in R, NEW e \in R, d.before = e.before PROVE d = e
    <3>1. PICK k : d = DiffOf(RemovedKid(c, k), "remove") /\ d.before = Append(c.before.home, k)
      BY <1>4
    <3>2. PICK l : e = DiffOf(RemovedKid(c, l), "remove") /\ e.before = Append(c.before.home, l)
      BY <1>4
    <3>3. k = l
      BY <1>6, <2>1, <3>1, <3>2, LastIsKept
    <3>4. QED
      BY <3>1, <3>2, <3>3
  <2>2. QED
    BY <2>1
<1>10. \A d, e \in A : d.after = e.after => d = e
  <2>1. ASSUME NEW d \in A, NEW e \in A, d.after = e.after PROVE d = e
    <3>1. PICK k : d = DiffOf(AddedKid(c, k), "add") /\ d.after = Append(c.after.home, k)
      BY <1>5
    <3>2. PICK l : e = DiffOf(AddedKid(c, l), "add") /\ e.after = Append(c.after.home, l)
      BY <1>5
    <3>3. k = l
      BY <1>6, <2>1, <3>1, <3>2, LastIsKept
    <3>4. QED
      BY <3>1, <3>2, <3>3
  <2>2. QED
    BY <2>1
<1>11. \A o \in diffs, n \in R \cup A : o.action # n.action \/ o.before # n.before \/ o.after # n.after
  <2>1. ASSUME NEW o \in diffs, NEW n \in R, o.action = n.action, o.before = n.before, o.after = n.after
        PROVE  FALSE
    <3>1. PICK key : /\ DiffIs(n, RemovedKid(c, key), "remove")
                     /\ ~AlreadyTold("remove", RemovedKid(c, key))
                     /\ RemovedKid(c, key).scope = "root"
      BY <1>4
    <3>2. /\ n.action = "remove" /\ n.before = RemovedKid(c, key).before.at
          /\ n.after = RemovedKid(c, key).after.at
      BY <3>1 DEF DiffIs
    <3>3. AlreadyTold("remove", RemovedKid(c, key))
      BY <1>7, <2>1, <3>1, <3>2 DEF AlreadyTold
    <3>4. QED
      BY <3>1, <3>3
  <2>2. ASSUME NEW o \in diffs, NEW n \in A, o.action = n.action, o.before = n.before, o.after = n.after
        PROVE  FALSE
    <3>1. PICK key : /\ DiffIs(n, AddedKid(c, key), "add")
                     /\ ~AlreadyTold("add", AddedKid(c, key))
                     /\ AddedKid(c, key).scope = "root"
      BY <1>5
    <3>2. /\ n.action = "add" /\ n.before = AddedKid(c, key).before.at
          /\ n.after = AddedKid(c, key).after.at
      BY <3>1 DEF DiffIs
    <3>3. AlreadyTold("add", AddedKid(c, key))
      BY <1>7, <2>2, <3>1, <3>2 DEF AlreadyTold
    <3>4. QED
      BY <3>1, <3>3
  <2>3. QED
    BY <2>1, <2>2
<1>12. ToldOnce'
  <2>1. ASSUME NEW d \in diffs', NEW e \in diffs', d.action = e.action, d.before = e.before, d.after = e.after
        PROVE  d = e
    <3>1. CASE d \in diffs /\ e \in diffs
      BY <2>1, <3>1 DEF ToldOnce
    <3>2. CASE d \in R \cup A /\ e \in R \cup A
      <4>1. (d \in R /\ e \in R) \/ (d \in A /\ e \in A)
        BY <1>8, <2>1, <3>2
      <4>2. QED
        BY <1>9, <1>10, <2>1, <4>1
    <3>3. QED
      BY <1>3, <1>11, <2>1, <3>1, <3>2
  <2>2. QED
    BY <2>1 DEF ToldOnce
<1>13. TellInv'
  <2>1. ASSUME NEW d \in diffs'
        PROVE  /\ d.scope = "root"
               /\ d.action \in {"rename", "replace"} => <<d.before, d.after, "root">> \in DOMAIN compared'
    <3>1. CASE d \in diffs
      BY <1>3, <3>1 DEF TellInv
    <3>2. CASE d \in R \cup A
      <4>1. d.action \notin {"rename", "replace"}
        BY <1>8, <3>2
      <4>2. d.scope = "root"
        <5>1. PICK k, action : DiffIs(d, k, action)
          BY <1>4, <1>5, <3>2
        <5>2. QED
          BY <5>1 DEF DiffIs
      <4>3. QED
        BY <4>1, <4>2
    <3>3. QED
      BY <1>3, <3>1, <3>2
  <2>2. QED
    BY <2>1 DEF TellInv
<1>14. QED
  BY <1>12, <1>13

LEMMA ToldStep ==
  ASSUME IsDdl, CrawlInv, TellInv, ToldOnce, IsDocument(asked.before), IsDocument(asked.after),
         [Next]_vars
  PROVE  TellInv' /\ ToldOnce'
<1>1. CASE UNCHANGED vars
  BY <1>1 DEF vars, TellInv, ToldOnce
<1>2. ASSUME NEW c \in Current, Ignore(c) \/ Reuse(c) PROVE TellInv' /\ ToldOnce'
  BY <1>2 DEF Ignore, Reuse, TellInv, ToldOnce
<1>3. ASSUME NEW c \in Current, Settle(c) PROVE TellInv' /\ ToldOnce'
  <2>1. PICK D : D = Renamed(c) \cup (IF Replaced(c) THEN {DiffOf(c, "replace")} ELSE {})
    OBVIOUS
  <2>2. Fresh(c) /\ Remember(c) /\ diffs' = diffs \cup D
    BY <1>3, <2>1 DEF Settle
  <2>3. GoodItem(c, asked) /\ Met(c, D)
    BY <2>1, CurrentIsGood, MetDiffs
  <2>4. QED
    BY <2>2, <2>3, ToldWhenMet
<1>4. ASSUME NEW c \in Current, Enter(c) PROVE TellInv' /\ ToldOnce'
  <2>1. PICK D : D = Renamed(c)
    OBVIOUS
  <2>2. Fresh(c) /\ Remember(c) /\ diffs' = diffs \cup D
    BY <1>4, <2>1 DEF Enter
  <2>3. GoodItem(c, asked) /\ Met(c, D)
    BY <2>1, CurrentIsGood, MetDiffs
  <2>4. QED
    BY <2>2, <2>3, ToldWhenMet
<1>5. ASSUME NEW c \in Current, Leave(c) PROVE TellInv' /\ ToldOnce'
  <2>1. GoodParent(c, asked)
    BY <1>5, CurrentIsGood DEF Leave
  <2>2. QED
    BY <1>5, <2>1, ToldWhenLeft
<1>6. QED
  BY <1>1, <1>2, <1>3, <1>4, <1>5 DEF Next

(***************************************************************************)
(* What is done to a declaration is told once, however many references     *)
(* lead to it (compare.ts: the footprint of a pair; createDiff.ts: the     *)
(* difference that a declaration already has).                             *)
(***************************************************************************)
THEOREM EachToldOnce ==
  ASSUME IsDdl, DocumentsGiven
  PROVE  Spec => []ToldOnce
<1> DEFINE Inv == /\ CrawlInv /\ TellInv /\ ToldOnce
                  /\ IsDocument(asked.before) /\ IsDocument(asked.after)
<1>1. Init => Inv
  <2>1. ASSUME Init PROVE ToldOnce
    BY <2>1 DEF Init, ToldOnce
  <2>2. QED
    BY <2>1, CrawlInit
<1>2. Inv /\ [Next]_vars => Inv'
  BY CrawlStep, ToldStep
<1>3. Inv => ToldOnce
  OBVIOUS
<1>4. QED
  BY <1>1, <1>2, <1>3, PTL DEF Spec

-----------------------------------------------------------------------------
(***************************************************************************)
(* The tables on the way from a realm to the name of a type: all others    *)
(* have no verdict that is breaking.                                       *)
(***************************************************************************)
SchemasRules == Each(schemaRules, "nameMappingResolver")
TablesRules == Each(Lazy("tableRules"), "nameMappingResolver")
ColumnsRules == Each(columnRules, "nameMappingResolver")
TypeName == Leaf("typeNameClassifier")

LEMMA CalmSmall ==
  /\ IsCalm(NoRules) /\ IsCalm(SUPPRESS) /\ IsCalm(attrsArrayRule)
  /\ IsCalm(indexRules) /\ IsCalm(foreignKeyRules) /\ IsCalm(checkRules) /\ IsCalm(namedDefaultRules)
  /\ IsCalm(Lazy("exprRules"))
  /\ \A c \in Calm : IsCalm(Leaf(c))
  /\ IsCalm(Flagged(NoRules, "ignoreAddRemove"))
  /\ IsCalm(Flagged(Each(Leaf(enumValueClassifier), "enumValuesMappingResolver"), "ignoreAddRemove"))
  /\ IsCalm(Each(indexRules, "indexMappingResolver"))
  /\ IsCalm(Each(foreignKeyRules, "foreignKeyMappingResolver"))
<1> DEFINE C == Calm
           L == CalmLazy
<1>1. Calm \subseteq C /\ CalmLazy \subseteq L /\ "exprRules" \in L /\ "allNonBreaking" \in C
        /\ "allUnclassified" \in C
  BY DEF Calm, CalmLazy
<1> HIDE DEF C, L
<1>2. /\ \A r : Depth0(r, C, L) \/ Depth1(r, C, L) => Depth2(r, C, L)
      /\ \A r : Depth2(r, C, L) \/ Depth3(r, C, L) => Depth5(r, C, L)
      /\ \A r : Depth4(r, C, L) \/ Depth5(r, C, L) => Depth6(r, C, L)
  BY Deeper
<1>3. /\ Depth0(NoRules, C, L) /\ Depth0(SUPPRESS, C, L) /\ Depth1(attrsArrayRule, C, L)
      /\ \A c \in C : Depth0(Leaf(c), C, L) /\ Bare(Leaf(c))
      /\ Depth0(Lazy("exprRules"), C, L)
  BY <1>1, FlatTables
<1>4. /\ Depth2(foreignKeyRules, C, L) /\ Depth2(checkRules, C, L) /\ Depth2(namedDefaultRules, C, L)
      /\ Depth4(indexRules, C, L) /\ indexRules.mapping = "default"
      /\ foreignKeyRules.mapping = "default"
  BY <1>1, CalmTables
<1>5. Depth0(Flagged(NoRules, "ignoreAddRemove"), C, L)
  BY <1>3, FlaggedDepth
<1>6. Depth1(Each(Leaf(enumValueClassifier), "enumValuesMappingResolver"), C, L)
  BY <1>1, <1>3, EachDepth DEF enumValueClassifier, Bare
<1>7. PICK e : e = Each(Leaf(enumValueClassifier), "enumValuesMappingResolver")
  OBVIOUS
<1>8. Depth1(Flagged(e, "ignoreAddRemove"), C, L)
  BY <1>6, <1>7, FlaggedDepth
<1>9. /\ Depth3(Each(foreignKeyRules, "foreignKeyMappingResolver"), C, L)
      /\ Depth5(Each(indexRules, "indexMappingResolver"), C, L)
  BY <1>1, <1>4, EachDepth
<1>10. QED
  BY <1>2, <1>3, <1>4, <1>5, <1>7, <1>8, <1>9 DEF IsCalm, C, L

\* The rules of an array are those of its elements.
LEMMA EachRules ==
  ASSUME NEW r, NEW resolver, NEW e, e = Each(r, resolver)
  PROVE  /\ e.classify = "allUnclassified" /\ e.mapping = resolver /\ e.compare = "default"
         /\ e.lazy = None
         /\ \A key : KidRules(e, key) = asElement(r)
<1>1. PICK a, kids : a = asElement(r) /\ kids = [any |-> a]
  OBVIOUS
<1>2. e = Mapped(Node("allUnclassified", kids), resolver)
  BY <1>1 DEF Each
<1>3. e = [classify |-> "allUnclassified", kids |-> kids, mapping |-> resolver,
           compare |-> "default", adapters |-> <<>>, scope |-> None, flags |-> {}, lazy |-> None]
  BY <1>2 DEF Mapped, Node
<1>4. e.kids = kids /\ DOMAIN kids = {"any"} /\ kids["any"] = a
  BY <1>1, <1>3
<1>5. \A key : KidRules(e, key) = a
  BY <1>4 DEF KidRules
<1>6. /\ e.classify = "allUnclassified" /\ e.mapping = resolver /\ e.compare = "default"
      /\ e.lazy = None
  BY <1>3
<1>7. QED
  BY <1>1, <1>5, <1>6

\* Rules as those of another table, whatever flags are set.
Like(r, t) ==
  /\ r.classify = t.classify /\ r.kids = t.kids /\ r.mapping = t.mapping /\ r.compare = t.compare
  /\ r.lazy = t.lazy

LEMMA LikeFlagged ==
  ASSUME NEW r, IsTable(r), NEW more, NEW q, q = [r EXCEPT !.flags = @ \cup more]
  PROVE  Like(q, r) /\ more \subseteq q.flags
<1>1. Heads(r, ClassifyNames, LazyNames)
  BY DEF IsTable, Depth6
<1>2. QED
  BY <1>1, MoreFlags DEF Like

LEMMA LikeElement ==
  ASSUME NEW r, IsTable(r)
  PROVE  Like(asElement(r), r) /\ "ignoreKeyDifference" \in asElement(r).flags
<1>1. PICK more, q : more = {"ignoreKeyDifference"} /\ q = [r EXCEPT !.flags = @ \cup more]
  OBVIOUS
<1>2. asElement(r) = q
  BY <1>1 DEF asElement, Flagged
<1>3. QED
  BY <1>1, <1>2, LikeFlagged

\* What a name stands for.
LEMMA LikeResolved ==
  ASSUME IsDdl, NEW r, r.lazy # None, NEW value, NEW path, NEW found, found = ddlRulesOf(r, value, path),
         IsTable(found)
  PROVE  Like(Resolved(r, value, path), found) /\ r.flags \subseteq Resolved(r, value, path).flags
<1>1. PICK q : q = [found EXCEPT !.flags = @ \cup r.flags]
  OBVIOUS
<1>2. Resolved(r, value, path) = q
  BY <1>1 DEF Resolved, IsDdl
<1>3. QED
  BY <1>1, <1>2, LikeFlagged

\* Only one child may have verdicts that are breaking, or this one and the objects.
Way(r, to, rules) ==
  \A key : IsCalm(KidRules(r, key)) \/ (key = to /\ KidRules(r, key) = rules)

WayAndObjects(r, to, rules) ==
  \A key : \/ IsCalm(KidRules(r, key))
           \/ key = to /\ KidRules(r, key) = rules
           \/ key = "objects" /\ KidRules(r, key) = objectsArrayRule

LEMMA WayOfKids ==
  ASSUME NEW r, NEW to, NEW rules
  PROVE  /\ (\A key \in DOMAIN r.kids :
               /\ key # "any"
               /\ IsCalm(r.kids[key]) \/ (key = to /\ r.kids[key] = rules)) => Way(r, to, rules)
         /\ (\A key \in DOMAIN r.kids :
               /\ key # "any"
               /\ \/ IsCalm(r.kids[key])
                  \/ key = to /\ r.kids[key] = rules
                  \/ key = "objects" /\ r.kids[key] = objectsArrayRule) => WayAndObjects(r, to, rules)
<1>1. IsCalm(NoRules)
  BY CalmSmall
<1>2. QED
  BY <1>1, KidRulesAre DEF Way, WayAndObjects

\* Other flags, and the same ways.
LEMMA LikeWays ==
  ASSUME NEW r, NEW t, Like(r, t)
  PROVE  \A key : KidRules(r, key) = KidRules(t, key)
  BY DEF Like, KidRules

LEMMA Ways ==
  /\ WayAndObjects(ddlRules, "schemas", SchemasRules)
  /\ WayAndObjects(schemaRules, "tables", TablesRules)
  /\ WayAndObjects(tableRules, "columns", ColumnsRules)
  /\ Way(columnRules, "type", columnTypeRules)
  /\ Way(columnTypeRules, "type", Lazy("schemaTypeRules"))
  /\ Way(scalarTypeRules, "type", TypeName)
  /\ Way(enumTypeRules, "type", TypeName)
<1>1. \A c, kids : Node(c, kids).kids = kids
  BY DEF Node
<1>2. IsCalm(attrsArrayRule) /\ IsCalm(SUPPRESS) /\ IsCalm(indexRules) /\ IsCalm(Lazy("exprRules"))
        /\ IsCalm(Each(indexRules, "indexMappingResolver"))
        /\ IsCalm(Each(foreignKeyRules, "foreignKeyMappingResolver"))
        /\ IsCalm(Leaf("allNonBreaking"))
  BY CalmSmall DEF Calm
<1>3. WayAndObjects(ddlRules, "schemas", SchemasRules)
  <2>1. PICK s : s = SchemasRules
    OBVIOUS
  <2>2. ddlRules.kids = [schemas |-> s, attrs |-> attrsArrayRule, objects |-> objectsArrayRule]
    BY <1>1, <2>1 DEF ddlRules, SchemasRules
  <2>3. QED
    BY <1>2, <2>1, <2>2, WayOfKids
<1>4. WayAndObjects(schemaRules, "tables", TablesRules)
  <2>1. PICK s : s = TablesRules
    OBVIOUS
  <2>2. schemaRules.kids = [tables |-> s, attrs |-> attrsArrayRule, objects |-> objectsArrayRule]
    BY <1>1, <2>1 DEF schemaRules, TablesRules
  <2>3. QED
    BY <1>2, <2>1, <2>2, WayOfKids
<1>5. WayAndObjects(tableRules, "columns", ColumnsRules)
  <2>1. PICK c, i, f, kids :
          /\ c = ColumnsRules /\ i = Each(indexRules, "indexMappingResolver")
          /\ f = Each(foreignKeyRules, "foreignKeyMappingResolver")
          /\ kids = [columns |-> c, indexes |-> i, primaryKey |-> indexRules, foreignKeys |-> f,
                     attrs |-> attrsArrayRule, objects |-> objectsArrayRule]
    OBVIOUS
  <2>2. tableRules.kids = Suppressed(kids)
    BY <1>1, <2>1 DEF tableRules, ColumnsRules
  <2>3. \A key \in DOMAIN kids : /\ key # "any"
                                 /\ \/ IsCalm(kids[key])
                                    \/ key = "columns" /\ kids[key] = c
                                    \/ key = "objects" /\ kids[key] = objectsArrayRule
    BY <1>2, <2>1
  <2>4. \A key \in DOMAIN Suppressed(kids) :
          \/ key = "kind" /\ Suppressed(kids)[key] = SUPPRESS
          \/ key \in DOMAIN kids /\ Suppressed(kids)[key] = kids[key]
    BY SuppressedKids
  <2>5. QED
    BY <1>2, <2>1, <2>2, <2>3, <2>4, WayOfKids
<1>6. Way(columnRules, "type", columnTypeRules)
  <2>1. columnRules.kids = [type |-> columnTypeRules, default |-> Lazy("exprRules"), attrs |-> attrsArrayRule]
    BY <1>1 DEF columnRules
  <2>2. QED
    BY <1>2, <2>1, WayOfKids
<1>7. Way(columnTypeRules, "type", Lazy("schemaTypeRules"))
  <2>1. columnTypeRules.kids
          = [type |-> Lazy("schemaTypeRules"), raw |-> SUPPRESS, null |-> Leaf("allNonBreaking")]
    BY <1>1 DEF columnTypeRules, nullabilityClassifier
  <2>2. QED
    BY <1>2, <2>1, WayOfKids
<1>8. \A key \in DOMAIN typeFieldRules :
         key # "any" /\ (IsCalm(typeFieldRules[key]) \/ (key = "type" /\ typeFieldRules[key] = TypeName))
  <2>1. PICK v, n, t : /\ v = Flagged(NoRules, "ignoreAddRemove") /\ n = Leaf("allNonBreaking")
                       /\ t = TypeName
    OBVIOUS
  <2>2. typeFieldRules = [kind |-> SUPPRESS, unsigned |-> SUPPRESS, values |-> v, type |-> t,
                          size |-> n, precision |-> n, scale |-> n]
    BY <2>1 DEF typeFieldRules, TypeName
  <2>3. IsCalm(v) /\ IsCalm(n)
    BY <1>2, <2>1, CalmSmall
  <2>4. QED
    BY <1>2, <2>1, <2>2, <2>3
<1>9. Way(scalarTypeRules, "type", TypeName)
  <2>1. scalarTypeRules.kids = typeFieldRules
    BY <1>1 DEF scalarTypeRules
  <2>2. QED
    BY <1>8, <2>1, WayOfKids
<1>10. Way(enumTypeRules, "type", TypeName)
  <2>1. PICK v, more, kids :
          /\ v = Flagged(Each(Leaf(enumValueClassifier), "enumValuesMappingResolver"), "ignoreAddRemove")
          /\ more = [values |-> v, attrs |-> attrsArrayRule] /\ kids = Over(more, typeFieldRules)
    OBVIOUS
  <2>2. enumTypeRules.kids = kids
    BY <1>1, <2>1 DEF enumTypeRules
  <2>3. \A k \in DOMAIN kids : (k \in {"values", "attrs"} /\ kids[k] = more[k])
                                \/ (k \in DOMAIN typeFieldRules /\ kids[k] = typeFieldRules[k])
    BY <2>1 DEF Over
  <2>4. IsCalm(v)
    BY <2>1, CalmSmall
  <2>5. IsCalm(more["values"]) /\ IsCalm(more["attrs"])
    BY <1>2, <2>1, <2>4
  <2>6. QED
    BY <1>8, <2>2, <2>3, <2>5, WayOfKids
<1>11. QED
  BY <1>3, <1>4, <1>5, <1>6, <1>7, <1>9, <1>10

\* The rules of a type: its name alone may have a verdict that is breaking.
TypeLike(r) == r.lazy = None /\ r.classify \in Calm /\ Way(r, "type", TypeName)

LEMMA TypesAre ==
  ASSUME IsDdl, NEW value, NEW path
  PROVE  /\ TypeLike(Resolved(Lazy("schemaTypeRules"), value, path))
         /\ readKind(value) # "Table" =>
              LET q == Resolved(asElement(Lazy("objectRules")), value, path)
              IN  \/ IsCalm(q)
                  \/ readKind(value) = "EnumType" /\ TypeLike(q)
<1>1. /\ Lazy("schemaTypeRules").lazy = "schemaTypeRules" /\ Lazy("objectRules").lazy = "objectRules"
  BY DEF Lazy, NoRules, Leaf, Node
<1>2. /\ TypeLike(scalarTypeRules) /\ TypeLike(enumTypeRules) /\ TypeLike(NoRules)
  <2>1. \A kids : /\ Node("allUnclassified", kids).lazy = None
                  /\ Node("allUnclassified", kids).classify = "allUnclassified"
                  /\ Node("allUnclassified", kids).kids = kids
    BY DEF Node
  <2>2. Way(NoRules, "type", TypeName)
    <3>1. DOMAIN NoRules.kids = {}
      BY DEF NoRules, Leaf, Node, NoKids, Nothing
    <3>2. QED
      BY <3>1, WayOfKids
  <2>3. QED
    BY <2>1, <2>2, Ways DEF TypeLike, scalarTypeRules, enumTypeRules, NoRules, Leaf, Calm
<1>3. \A r, t : Like(r, t) /\ TypeLike(t) => TypeLike(r)
  BY LikeWays DEF TypeLike, Like, Way
<1>4. \A name \in LazyNames : name # None
  BY DdlRulesAssumption
<1>5. TypeLike(Resolved(Lazy("schemaTypeRules"), value, path))
  <2>1. PICK r, found : r = Lazy("schemaTypeRules") /\ found = schemaTypeRules(readKind(value))
    OBVIOUS
  <2>2. r.lazy = "schemaTypeRules" /\ r.lazy # None
    BY <1>1, <1>4, <2>1 DEF LazyNames
  <2>3. found = ddlRulesOf(r, value, path)
    BY <2>1, <2>2 DEF ddlRulesOf
  <2>4. IsTable(found)
    BY <2>1, LateTables
  <2>5. Like(Resolved(r, value, path), found)
    BY <2>2, <2>3, <2>4, LikeResolved
  <2>6. TypeLike(found)
    BY <1>2, <2>1 DEF schemaTypeRules
  <2>7. QED
    BY <1>3, <2>1, <2>5, <2>6
<1>6. ASSUME readKind(value) # "Table"
      PROVE  LET q == Resolved(asElement(Lazy("objectRules")), value, path)
             IN  IsCalm(q) \/ (readKind(value) = "EnumType" /\ TypeLike(q))
  <2>1. PICK r, found, q : /\ r = asElement(Lazy("objectRules")) /\ found = objectRules(readKind(value))
                           /\ q = Resolved(r, value, path)
    OBVIOUS
  <2>2. IsTable(Lazy("objectRules"))
    <3>1. "allUnclassified" \in ClassifyNames /\ "objectRules" \in LazyNames
      BY DEF ClassifyNames, Calm, LazyNames
    <3>2. Depth0(Lazy("objectRules"), ClassifyNames, LazyNames)
      BY <3>1, LazyDepth
    <3>3. \A t : Depth0(t, ClassifyNames, LazyNames) => Depth2(t, ClassifyNames, LazyNames)
      BY Deeper
    <3>4. QED
      BY <3>2, <3>3, Deeper DEF IsTable
  <2>3. Like(r, Lazy("objectRules"))
    BY <2>1, <2>2, LikeElement
  <2>4. r.lazy = "objectRules" /\ r.lazy # None
    BY <1>1, <1>4, <2>3 DEF Like, LazyNames
  <2>5. found = ddlRulesOf(r, value, path)
    BY <2>1, <2>4 DEF ddlRulesOf
  <2>6. IsTable(found)
    BY <2>1, LateTables
  <2>7. Like(q, found)
    BY <2>1, <2>4, <2>5, <2>6, LikeResolved
  <2>8. CASE readKind(value) = "EnumType"
    <3>1. found = asElement(enumTypeRules)
      BY <2>1, <2>8 DEF objectRules, enumObjectRules
    <3>2. Like(found, enumTypeRules)
      BY <3>1, LikeElement, SchemaTables
    <3>3. QED
      BY <1>2, <1>3, <2>1, <2>7, <2>8, <3>2
  <2>9. CASE readKind(value) # "EnumType"
    <3>1. PICK t \in {indexRules, foreignKeyRules, checkRules, namedDefaultRules, NoRules} : found = asElement(t)
      BY <1>6, <2>1, <2>9 DEF objectRules
    <3>2. IsCalm(t)
      BY CalmSmall
    <3>3. IsCalm(found)
      BY <3>1, <3>2, FlaggedDepth DEF IsCalm, asElement
    <3>4. IsCalm(q)
      <4>1. PICK g : g = [found EXCEPT !.flags = @ \cup r.flags]
        OBVIOUS
      <4>2. q = g
        BY <2>1, <2>4, <2>5, <4>1 DEF Resolved, IsDdl
      <4>3. QED
        BY <3>3, <4>1, <4>2, FlagsDepth DEF IsCalm
    <3>5. QED
      BY <2>1, <3>4
  <2>10. QED
    BY <2>8, <2>9
<1>7. QED
  BY <1>5, <1>6

-----------------------------------------------------------------------------
(***************************************************************************)
(* Schemas, tables and columns that are compared: p, q and r are where     *)
(* they are before, and they have the same names.                          *)
(***************************************************************************)
Named(n, property, p, k) == p \in DOMAIN Elements(n, property) /\ k = Elements(n, property)[p]

SchemaPair(x, p, s, u) ==
  /\ Named(x.before.root, "schemas", p, s) /\ u \in ElementsOf(Elements(x.after.root, "schemas"))
  /\ nameKey(s) = nameKey(u)

TablePair(x, p, q, s, u, t, v) ==
  /\ SchemaPair(x, p, s, u)
  /\ Named(s, "tables", q, t) /\ v \in ElementsOf(Elements(u, "tables"))
  /\ nameKey(t) = nameKey(v)

ColumnPair(x, p, q, r, s, u, t, v, c, w) ==
  /\ TablePair(x, p, q, s, u, t, v)
  /\ Named(t, "columns", r, c) /\ w \in ElementsOf(Elements(v, "columns"))
  /\ nameKey(c) = nameKey(w)

TypeOf(d, c) == Definition(d.defs, Kid(Kid(c, "type"), "type"))

\* A path as far as it tells of a table or a column.
Route(path, n, p, q, r) ==
  /\ IsSequence(path) /\ n \in Nat /\ Len(path) = n
  /\ n >= 1 => path[1] = "schemas"
  /\ n >= 2 => path[2] = p
  /\ n >= 3 => path[3] = "tables"
  /\ n >= 4 => path[4] = q
  /\ n >= 5 => path[5] = "columns"
  /\ n >= 6 => path[6] = r

LEMMA RouteGrows ==
  ASSUME NEW path, NEW n, NEW p, NEW q, NEW r, Route(path, n, p, q, r), NEW key, NEW i, NEW j, NEW k,
         n = 0 => key = "schemas", n = 1 => key = i, n >= 2 => i = p,
         n = 2 => key = "tables", n = 3 => key = j, n >= 4 => j = q,
         n = 4 => key = "columns", n = 5 => key = k, n >= 6 => k = r
  PROVE  Route(Append(path, key), n + 1, i, j, k)
<1>1. PICK S : path \in Seq(S)
  BY DEF Route, IsSequence
<1>2. PICK T : T = S \cup {key}
  OBVIOUS
<1>3. path \in Seq(T) /\ key \in T /\ n \in Nat /\ Len(path) = n
  BY <1>1, <1>2 DEF Route
<1>4. PICK a : a = Append(path, key)
  OBVIOUS
<1>5. a \in Seq(T) /\ Len(a) = n + 1 /\ a[n + 1] = key
  BY <1>3, <1>4
<1>6. \A m \in 1 .. n : a[m] = path[m]
  BY <1>3, <1>4
<1>7. /\ n >= 1 => a[1] = "schemas"
      /\ n >= 2 => a[2] = p
      /\ n >= 3 => a[3] = "tables"
      /\ n >= 4 => a[4] = q
      /\ n >= 5 => a[5] = "columns"
      /\ n >= 6 => a[6] = r
  BY <1>3, <1>6 DEF Route
<1>8. IsSequence(a)
  BY <1>5 DEF IsSequence
<1>9. a[1] = "schemas"
  BY <1>3, <1>5, <1>7
<1>10. n + 1 >= 2 => a[2] = i
  BY <1>3, <1>5, <1>7
<1>11. n + 1 >= 3 => a[3] = "tables"
  BY <1>3, <1>5, <1>7
<1>12. n + 1 >= 4 => a[4] = j
  BY <1>3, <1>5, <1>7
<1>13. n + 1 >= 5 => a[5] = "columns"
  BY <1>3, <1>5, <1>7
<1>14. n + 1 >= 6 => a[6] = k
  BY <1>3, <1>5, <1>7
<1>15. QED
  BY <1>3, <1>4, <1>5, <1>8, <1>9, <1>10, <1>11, <1>12, <1>13, <1>14 DEF Route

\* The queries, with the elements they are of.
QueryOf(defs, s, t, query) ==
  \/ query = <<nameKey(s), nameKey(t)>>
  \/ \E c \in ElementsOf(Elements(t, "columns")) :
       \/ query = <<nameKey(s), nameKey(t)>> \o <<nameKey(c)>>
       \/ query = <<nameKey(s), nameKey(t)>>
                    \o <<nameKey(c), OperationOf(defs, Kid(Kid(c, "type"), "type"))>>

LEMMA QueriesAre ==
  ASSUME NEW d, NEW query
  PROVE  query \in Queries(d) <=>
           \E s \in ElementsOf(Elements(d.root, "schemas")) :
             \E t \in ElementsOf(Elements(s, "tables")) : QueryOf(d.defs, s, t, query)
<1> DEFINE at(s, t) == <<nameKey(s), nameKey(t)>>
           Q(s, t) == QueriesOfTable(d.defs, s, t)
           U(s) == UNION {Q(s, t) : t \in ElementsOf(Elements(s, "tables"))}
           C(s, t, c) == QueriesOfColumn(d.defs, at(s, t), c)
           V(s, t) == UNION {C(s, t, c) : c \in ElementsOf(Elements(t, "columns"))}
<1>1. Queries(d) = UNION {U(s) : s \in ElementsOf(Elements(d.root, "schemas"))}
  BY DEF Queries
<1>2. \A s, t : Q(s, t) = {at(s, t)} \cup V(s, t)
  BY DEF QueriesOfTable
<1>3. \A s, t, c :
        query \in C(s, t, c) <=>
          \/ query = at(s, t) \o <<nameKey(c)>>
          \/ query = at(s, t) \o <<nameKey(c), OperationOf(d.defs, Kid(Kid(c, "type"), "type"))>>
  BY Zenon DEF QueriesOfColumn
<1> HIDE DEF Q, C, at
<1>4. \A s : query \in U(s) <=> \E t \in ElementsOf(Elements(s, "tables")) : query \in Q(s, t)
  OBVIOUS
<1>5. \A s, t : query \in V(s, t) <=> \E c \in ElementsOf(Elements(t, "columns")) : query \in C(s, t, c)
  OBVIOUS
<1> HIDE DEF U, V
<1>6. query \in Queries(d) <=> \E s \in ElementsOf(Elements(d.root, "schemas")) : query \in U(s)
  BY <1>1
<1>7. \A s, t : query \in Q(s, t) <=> query = at(s, t) \/ query \in V(s, t)
  BY <1>2
<1>8. query \in Queries(d) <=>
        \E s \in ElementsOf(Elements(d.root, "schemas")) :
          \E t \in ElementsOf(Elements(s, "tables")) :
            \/ query = at(s, t)
            \/ \E c \in ElementsOf(Elements(t, "columns")) : query \in C(s, t, c)
  BY <1>4, <1>5, <1>6, <1>7, Zenon
<1>9. \A s, t :
        (\E c \in ElementsOf(Elements(t, "columns")) : query \in C(s, t, c)) <=>
           \E c \in ElementsOf(Elements(t, "columns")) :
             \/ query = at(s, t) \o <<nameKey(c)>>
             \/ query = at(s, t) \o <<nameKey(c), OperationOf(d.defs, Kid(Kid(c, "type"), "type"))>>
  BY <1>3, Zenon DEF at
<1>10. query \in Queries(d) <=>
        \E s \in ElementsOf(Elements(d.root, "schemas")) :
          \E t \in ElementsOf(Elements(s, "tables")) :
            \/ query = at(s, t)
            \/ \E c \in ElementsOf(Elements(t, "columns")) :
                 \/ query = at(s, t) \o <<nameKey(c)>>
                 \/ query = at(s, t) \o <<nameKey(c), OperationOf(d.defs, Kid(Kid(c, "type"), "type"))>>
  BY <1>8, <1>9, Zenon
<1>11. QED
  BY <1>10, Zenon DEF at, QueryOf

\* What a query is, by its length.
LEMMA QueryParts ==
  ASSUME NEW a, NEW b, NEW c, NEW e
  PROVE  /\ Len(<<a, b>>) = 2 /\ <<a, b>>[1] = a /\ <<a, b>>[2] = b
         /\ LET q == <<a, b>> \o <<c>> IN Len(q) = 3 /\ q[1] = a /\ q[2] = b /\ q[3] = c
         /\ LET q == <<a, b>> \o <<c, e>>
            IN  Len(q) = 4 /\ q[1] = a /\ q[2] = b /\ q[3] = c /\ q[4] = e
<1>1. PICK S : S = {a, b, c, e}
  OBVIOUS
<1>2. <<a, b>> \in Seq(S) /\ <<c>> \in Seq(S) /\ <<c, e>> \in Seq(S)
  BY <1>1
<1>3. Len(<<a, b>>) = 2 /\ Len(<<c>>) = 1 /\ Len(<<c, e>>) = 2
  OBVIOUS
<1>4. LET q == <<a, b>> \o <<c>> IN Len(q) = 3 /\ q[1] = a /\ q[2] = b /\ q[3] = c
  BY <1>2, <1>3
<1>5. LET q == <<a, b>> \o <<c, e>>
      IN  Len(q) = 4 /\ q[1] = a /\ q[2] = b /\ q[3] = c /\ q[4] = e
  BY <1>2, <1>3
<1>6. QED
  BY <1>4, <1>5

\* A table or a column as a prefix of its queries.
LEMMA PlacePrefixes ==
  ASSUME NEW a, NEW b, NEW c, NEW e
  PROVE  /\ IsPrefix(<<a, b>>, <<a, b>>)
         /\ IsPrefix(<<a, b, c>>, <<a, b>> \o <<c>>)
         /\ IsPrefix(<<a, b, c>>, <<a, b>> \o <<c, e>>)
<1>1. PICK S : S = {a, b, c, e}
  OBVIOUS
<1>2. PICK k, l, m : k = <<a, b, c>> /\ l = <<a, b>> \o <<c>> /\ m = <<a, b>> \o <<c, e>>
  OBVIOUS
<1>3. /\ k \in Seq(S) /\ l \in Seq(S) /\ m \in Seq(S) /\ Len(k) = 3 /\ Len(l) = 3 /\ Len(m) = 4
      /\ k[1] = a /\ k[2] = b /\ k[3] = c
  BY <1>1, <1>2
<1>4. l[1] = a /\ l[2] = b /\ l[3] = c /\ m[1] = a /\ m[2] = b /\ m[3] = c
  BY <1>2, QueryParts
<1>5. /\ SubSeq(k, 1, 3) = [i \in 1 .. 3 |-> k[i]]
      /\ SubSeq(l, 1, 3) = [i \in 1 .. 3 |-> l[i]]
      /\ SubSeq(m, 1, 3) = [i \in 1 .. 3 |-> m[i]]
  BY <1>3
<1>6. \A i \in 1 .. 3 : k[i] = l[i] /\ k[i] = m[i]
  BY <1>3, <1>4
<1>7. SubSeq(k, 1, 3) = SubSeq(l, 1, 3) /\ SubSeq(k, 1, 3) = SubSeq(m, 1, 3)
  BY <1>5, <1>6
<1>8. IsPrefix(k, l) /\ IsPrefix(k, m)
  BY <1>3, <1>7 DEF IsPrefix
<1>9. IsPrefix(<<a, b>>, <<a, b>>)
  BY DEF IsPrefix
<1>10. QED
  BY <1>2, <1>8, <1>9

-----------------------------------------------------------------------------
(***************************************************************************)
(* Queries that are lost.                                                  *)
(***************************************************************************)
LEMMA NamesTell ==
  ASSUME NEW n, NEW property, NamedOnce(n, property),
         NEW e \in ElementsOf(Elements(n, property)), NEW f \in ElementsOf(Elements(n, property)),
         nameKey(e) = nameKey(f)
  PROVE  e = f
<1>1. PICK l : l = Elements(n, property)
  OBVIOUS
<1>2. \A i, j \in DOMAIN l : nameKey(l[i]) = nameKey(l[j]) => i = j
  BY <1>1 DEF NamedOnce
<1>3. PICK i \in DOMAIN l, j \in DOMAIN l : e = l[i] /\ f = l[j]
  BY <1>1 DEF ElementsOf
<1>4. QED
  BY <1>2, <1>3

LEMMA NamedElement ==
  ASSUME NEW n, NEW property, NEW p, NEW k, Named(n, property, p, k)
  PROVE  k \in ElementsOf(Elements(n, property))
BY DEF Named, ElementsOf

\* The schema and the table that a query of after is of.
LEMMA TableOfQuery ==
  ASSUME NEW d, IsRealm(d), NEW u \in ElementsOf(Elements(d.root, "schemas")),
         NEW query \in Queries(d), query[1] = nameKey(u)
  PROVE  \E v \in ElementsOf(Elements(u, "tables")) :
           /\ query[2] = nameKey(v)
           /\ \/ Len(query) = 2
              \/ \E c \in ElementsOf(Elements(v, "columns")) :
                   /\ query[3] = nameKey(c)
                   /\ \/ Len(query) = 3
                      \/ /\ Len(query) = 4
                         /\ query[4] = OperationOf(d.defs, Kid(Kid(c, "type"), "type"))
<1>0. PICK s \in ElementsOf(Elements(d.root, "schemas")) :
        \E t \in ElementsOf(Elements(s, "tables")) : QueryOf(d.defs, s, t, query)
  BY QueriesAre
<1>1. PICK t \in ElementsOf(Elements(s, "tables")) : QueryOf(d.defs, s, t, query)
  BY <1>0
<1>2. /\ t \in ElementsOf(Elements(s, "tables"))
      /\ \/ query = <<nameKey(s), nameKey(t)>>
         \/ \E c \in ElementsOf(Elements(t, "columns")) :
               \/ query = <<nameKey(s), nameKey(t)>> \o <<nameKey(c)>>
               \/ query = <<nameKey(s), nameKey(t)>>
                            \o <<nameKey(c), OperationOf(d.defs, Kid(Kid(c, "type"), "type"))>>
  BY <1>1 DEF QueryOf
<1>3. ASSUME query[1] = nameKey(s)  PROVE s = u
  BY <1>3, NamesTell DEF IsRealm
<1>4. CASE query = <<nameKey(s), nameKey(t)>>
  <2>1. Len(query) = 2 /\ query[1] = nameKey(s) /\ query[2] = nameKey(t)
    BY <1>4, QueryParts
  <2>2. QED
    BY <1>2, <1>3, <2>1
<1>5. ASSUME NEW c \in ElementsOf(Elements(t, "columns")),
             query = <<nameKey(s), nameKey(t)>> \o <<nameKey(c)>>
      PROVE  /\ Len(query) = 3 /\ query[2] = nameKey(t) /\ query[3] = nameKey(c) /\ s = u
  <2>1. Len(query) = 3 /\ query[1] = nameKey(s) /\ query[2] = nameKey(t) /\ query[3] = nameKey(c)
    BY <1>5, QueryParts
  <2>2. QED
    BY <1>3, <2>1
<1>6. ASSUME NEW c \in ElementsOf(Elements(t, "columns")), NEW op,
             query = <<nameKey(s), nameKey(t)>> \o <<nameKey(c), op>>
      PROVE  Len(query) = 4 /\ query[2] = nameKey(t) /\ query[3] = nameKey(c) /\ query[4] = op /\ s = u
  <2>1. /\ Len(query) = 4 /\ query[1] = nameKey(s) /\ query[2] = nameKey(t) /\ query[3] = nameKey(c)
        /\ query[4] = op
    BY <1>6, QueryParts
  <2>2. QED
    BY <1>3, <2>1
<1>7. CASE \E c \in ElementsOf(Elements(t, "columns")) :
               \/ query = <<nameKey(s), nameKey(t)>> \o <<nameKey(c)>>
               \/ query = <<nameKey(s), nameKey(t)>>
                            \o <<nameKey(c), OperationOf(d.defs, Kid(Kid(c, "type"), "type"))>>
  <2>1. PICK c \in ElementsOf(Elements(t, "columns")) :
               \/ query = <<nameKey(s), nameKey(t)>> \o <<nameKey(c)>>
               \/ query = <<nameKey(s), nameKey(t)>>
                            \o <<nameKey(c), OperationOf(d.defs, Kid(Kid(c, "type"), "type"))>>
    BY <1>7
  <2>2. CASE query = <<nameKey(s), nameKey(t)>> \o <<nameKey(c)>>
    <3>1. Len(query) = 3 /\ query[2] = nameKey(t) /\ query[3] = nameKey(c) /\ s = u
      BY <1>5, <2>2
    <3>2. QED
      BY <1>2, <2>1, <3>1
  <2>3. CASE query = <<nameKey(s), nameKey(t)>>
                            \o <<nameKey(c), OperationOf(d.defs, Kid(Kid(c, "type"), "type"))>>
    <3>1. PICK op : op = OperationOf(d.defs, Kid(Kid(c, "type"), "type"))
      OBVIOUS
    <3>2. Len(query) = 4 /\ query[2] = nameKey(t) /\ query[3] = nameKey(c) /\ query[4] = op /\ s = u
      BY <1>6, <2>3, <3>1
    <3>3. QED
      BY <1>2, <2>1, <3>1, <3>2
  <2>4. QED
    BY <2>1, <2>2, <2>3
<1>8. QED
  BY <1>2, <1>4, <1>7

\* A table, a column or an operation that a query of before is of, and no query of after.
LEMMA TableGone ==
  ASSUME NEW x, IsRealm(x.after), NEW p, NEW s, NEW u, SchemaPair(x, p, s, u),
         NEW t \in ElementsOf(Elements(s, "tables")),
         \A v \in ElementsOf(Elements(u, "tables")) : nameKey(v) # nameKey(t)
  PROVE  <<nameKey(s), nameKey(t)>> \in Lost(x)
<1>1. PICK query : query = <<nameKey(s), nameKey(t)>>
  OBVIOUS
<1>2. s \in ElementsOf(Elements(x.before.root, "schemas"))
  BY NamedElement DEF SchemaPair
<1>3. query \in Queries(x.before)
  BY <1>1, <1>2, QueriesAre DEF QueryOf
<1>4. query[1] = nameKey(s) /\ query[2] = nameKey(t)
  BY <1>1, QueryParts
<1>5. ASSUME query \in Queries(x.after) PROVE FALSE
  <2>1. u \in ElementsOf(Elements(x.after.root, "schemas")) /\ query[1] = nameKey(u)
    BY <1>4 DEF SchemaPair
  <2>2. \E v \in ElementsOf(Elements(u, "tables")) : query[2] = nameKey(v)
    BY <1>5, <2>1, TableOfQuery
  <2>3. QED
    BY <1>4, <2>2
<1>6. QED
  BY <1>1, <1>3, <1>5 DEF Lost

LEMMA ColumnGone ==
  ASSUME NEW x, IsRealm(x.after), NEW p, NEW q, NEW s, NEW u, NEW t, NEW v, TablePair(x, p, q, s, u, t, v),
         NEW c \in ElementsOf(Elements(t, "columns")),
         \A w \in ElementsOf(Elements(v, "columns")) : nameKey(w) # nameKey(c)
  PROVE  <<nameKey(s), nameKey(t)>> \o <<nameKey(c)>> \in Lost(x)
<1>1. PICK query : query = <<nameKey(s), nameKey(t)>> \o <<nameKey(c)>>
  OBVIOUS
<1>2. s \in ElementsOf(Elements(x.before.root, "schemas")) /\ t \in ElementsOf(Elements(s, "tables"))
  BY NamedElement DEF SchemaPair, TablePair
<1>3. query \in Queries(x.before)
  BY <1>1, <1>2, QueriesAre DEF QueryOf
<1>4. Len(query) = 3 /\ query[1] = nameKey(s) /\ query[2] = nameKey(t) /\ query[3] = nameKey(c)
  BY <1>1, QueryParts
<1>5. ASSUME query \in Queries(x.after) PROVE FALSE
  <2>1. u \in ElementsOf(Elements(x.after.root, "schemas")) /\ query[1] = nameKey(u)
    BY <1>4 DEF SchemaPair, TablePair
  <2>2. PICK y \in ElementsOf(Elements(u, "tables")) :
           /\ query[2] = nameKey(y)
           /\ \/ Len(query) = 2
              \/ \E w \in ElementsOf(Elements(y, "columns")) :
                   /\ query[3] = nameKey(w)
                   /\ \/ Len(query) = 3
                      \/ /\ Len(query) = 4
                         /\ query[4] = OperationOf(x.after.defs, Kid(Kid(w, "type"), "type"))
    BY <1>5, <2>1, TableOfQuery
  <2>3. v \in ElementsOf(Elements(u, "tables")) /\ nameKey(v) = nameKey(y) /\ NamedOnce(u, "tables")
    BY <1>4, <2>1, <2>2 DEF TablePair, IsRealm
  <2>4. y = v
    BY <2>3, NamesTell
  <2>5. \E w \in ElementsOf(Elements(v, "columns")) : query[3] = nameKey(w)
    BY <1>4, <2>2, <2>4
  <2>6. QED
    BY <1>4, <2>5
<1>6. QED
  BY <1>1, <1>3, <1>5 DEF Lost

LEMMA OperationGone ==
  ASSUME NEW x, IsRealm(x.after), NEW p, NEW q, NEW r, NEW s, NEW u, NEW t, NEW v, NEW c, NEW w,
         ColumnPair(x, p, q, r, s, u, t, v, c, w), NEW op,
         op = OperationOf(x.before.defs, Kid(Kid(c, "type"), "type")),
         op # OperationOf(x.after.defs, Kid(Kid(w, "type"), "type"))
  PROVE  <<nameKey(s), nameKey(t)>> \o <<nameKey(c), op>> \in Lost(x)
<1>1. PICK query : query = <<nameKey(s), nameKey(t)>> \o <<nameKey(c), op>>
  OBVIOUS
<1>2. /\ s \in ElementsOf(Elements(x.before.root, "schemas")) /\ t \in ElementsOf(Elements(s, "tables"))
      /\ c \in ElementsOf(Elements(t, "columns"))
  BY NamedElement DEF SchemaPair, TablePair, ColumnPair
<1>3. query \in Queries(x.before)
  BY <1>1, <1>2, QueriesAre DEF QueryOf
<1>4. /\ Len(query) = 4 /\ query[1] = nameKey(s) /\ query[2] = nameKey(t) /\ query[3] = nameKey(c)
      /\ query[4] = op
  BY <1>1, QueryParts
<1>5. ASSUME query \in Queries(x.after) PROVE FALSE
  <2>1. u \in ElementsOf(Elements(x.after.root, "schemas")) /\ query[1] = nameKey(u)
    BY <1>4 DEF SchemaPair, TablePair, ColumnPair
  <2>2. PICK y \in ElementsOf(Elements(u, "tables")) :
           /\ query[2] = nameKey(y)
           /\ \/ Len(query) = 2
              \/ \E z \in ElementsOf(Elements(y, "columns")) :
                   /\ query[3] = nameKey(z)
                   /\ \/ Len(query) = 3
                      \/ /\ Len(query) = 4
                         /\ query[4] = OperationOf(x.after.defs, Kid(Kid(z, "type"), "type"))
    BY <1>5, <2>1, TableOfQuery
  <2>3. v \in ElementsOf(Elements(u, "tables")) /\ nameKey(v) = nameKey(y) /\ NamedOnce(u, "tables")
    BY <1>4, <2>1, <2>2 DEF TablePair, ColumnPair, IsRealm
  <2>4. y = v
    BY <2>3, NamesTell
  <2>5. PICK z \in ElementsOf(Elements(v, "columns")) :
          /\ query[3] = nameKey(z)
          /\ query[4] = OperationOf(x.after.defs, Kid(Kid(z, "type"), "type"))
    BY <1>4, <2>2, <2>4
  <2>6. w \in ElementsOf(Elements(v, "columns")) /\ nameKey(w) = nameKey(z) /\ NamedOnce(v, "columns")
    BY <1>4, <2>1, <2>3, <2>5 DEF ColumnPair, IsRealm
  <2>7. z = w
    BY <2>6, NamesTell
  <2>8. QED
    BY <1>4, <2>5, <2>7
<1>6. QED
  BY <1>1, <1>3, <1>5 DEF Lost

\* Types that are read differently have other operations.
LEMMA OperationsDiffer ==
  ASSUME NEW x, NEW b, NEW a, OperationFits(x.before.defs, b), OperationFits(x.after.defs, a),
         NEW tb, NEW ta, tb = Definition(x.before.defs, b), ta = Definition(x.after.defs, a),
         readTypeName(tb) # readTypeName(ta), ~sameConsumptionFamily(tb, ta)
  PROVE  OperationOf(x.before.defs, b) # OperationOf(x.after.defs, a)
<1>1. SUFFICES ASSUME OperationOf(x.before.defs, b) = OperationOf(x.after.defs, a)  PROVE FALSE
  OBVIOUS
<1>2. PICK op, m, n : /\ op = OperationOf(x.before.defs, b) /\ m = readTypeName(tb) /\ n = readTypeName(ta)
  OBVIOUS
<1>3. /\ op = IF readKind(tb) = "EnumType" THEN "enum label"
              ELSE IF m \in DOMAIN SqlOperation THEN SqlOperation[m] ELSE m
      /\ op = IF readKind(ta) = "EnumType" THEN "enum label"
              ELSE IF n \in DOMAIN SqlOperation THEN SqlOperation[n] ELSE n
  BY <1>1, <1>2, Zenon DEF OperationOf
<1>4. /\ op = "sum" => consumptionFamily(tb) = "numeric" /\ consumptionFamily(ta) = "numeric"
      /\ op = "lower" => consumptionFamily(tb) = "textual" /\ consumptionFamily(ta) = "textual"
      /\ readKind(tb) # "EnumType" =>
           \/ m \in DOMAIN SqlOperation
           \/ op # "enum label" /\ \A name \in DOMAIN SqlOperation : op # SqlOperation[name]
      /\ readKind(ta) # "EnumType" =>
           \/ n \in DOMAIN SqlOperation
           \/ op # "enum label" /\ \A name \in DOMAIN SqlOperation : op # SqlOperation[name]
  <2>1. /\ op = "sum" => /\ readKind(tb) \in {"IntegerType", "DecimalType", "FloatType"}
                         /\ readKind(ta) \in {"IntegerType", "DecimalType", "FloatType"}
        /\ op = "lower" => readKind(tb) = "StringType" /\ readKind(ta) = "StringType"
        /\ readKind(tb) # "EnumType" =>
             \/ m \in DOMAIN SqlOperation
             \/ op # "enum label" /\ \A name \in DOMAIN SqlOperation : op # SqlOperation[name]
        /\ readKind(ta) # "EnumType" =>
             \/ n \in DOMAIN SqlOperation
             \/ op # "enum label" /\ \A name \in DOMAIN SqlOperation : op # SqlOperation[name]
    BY <1>1, <1>2, Zenon DEF OperationFits
  <2>2. \A t : /\ readKind(t) \in {"IntegerType", "DecimalType", "FloatType"} =>
                    consumptionFamily(t) = "numeric"
               /\ readKind(t) = "StringType" => consumptionFamily(t) = "textual"
    BY DEF consumptionFamily
  <2>3. QED
    BY <2>1, <2>2
<1>5. op # "sum" /\ op # "lower"
  BY <1>4 DEF sameConsumptionFamily
<1>6. /\ \A name \in DOMAIN SqlOperation : SqlOperation[name] # "enum label"
      /\ \A k, l \in DOMAIN SqlOperation :
           SqlOperation[k] = SqlOperation[l] =>
             k = l \/ SqlOperation[k] = "sum" \/ SqlOperation[k] = "lower"
  <2>1. PICK f : f = SqlOperation
    OBVIOUS
  <2>2. DOMAIN f = {"boolean", "smallint", "integer", "numeric", "real", "varchar", "text", "bytea",
                    "uuid", "json", "date", "time", "timestamp"}
    BY <2>1 DEF SqlOperation
  <2>3. /\ f["boolean"] = "and" /\ f["smallint"] = "sum" /\ f["integer"] = "sum" /\ f["numeric"] = "sum"
        /\ f["real"] = "sum" /\ f["varchar"] = "lower" /\ f["text"] = "lower" /\ f["bytea"] = "encode"
        /\ f["uuid"] = "uuid" /\ f["json"] = "json path" /\ f["date"] = "days" /\ f["time"] = "hours"
        /\ f["timestamp"] = "date and hours"
    BY <2>1 DEF SqlOperation
  <2>4. \A name \in DOMAIN f : f[name] # "enum label"
    BY <2>2, <2>3
  <2>5. \A k, l \in DOMAIN f : f[k] = f[l] => k = l \/ f[k] = "sum" \/ f[k] = "lower"
    <3>1. PICK back : back = [k \in {f[name] : name \in DOMAIN f} |->
                                IF k = "and" THEN "boolean" ELSE IF k = "encode" THEN "bytea"
                                ELSE IF k = "uuid" THEN "uuid" ELSE IF k = "json path" THEN "json"
                                ELSE IF k = "days" THEN "date" ELSE IF k = "hours" THEN "time"
                                ELSE "timestamp"]
      OBVIOUS
    <3>2. \A k \in DOMAIN f : back[f[k]] = k \/ f[k] = "sum" \/ f[k] = "lower"
      BY <2>2, <2>3, <3>1
    <3>3. QED
      BY <3>2
  <2>6. QED
    BY <2>1, <2>4, <2>5
<1>7. CASE readKind(tb) = "EnumType" /\ readKind(ta) = "EnumType"
  BY <1>7 DEF sameConsumptionFamily, consumptionFamily
<1>8. CASE readKind(tb) = "EnumType" /\ readKind(ta) # "EnumType"
  BY <1>3, <1>4, <1>6, <1>8
<1>9. CASE readKind(tb) # "EnumType" /\ readKind(ta) = "EnumType"
  BY <1>3, <1>4, <1>6, <1>9
<1>10. CASE readKind(tb) # "EnumType" /\ readKind(ta) # "EnumType"
  BY <1>2, <1>3, <1>4, <1>5, <1>6, <1>10
<1>11. QED
  BY <1>7, <1>8, <1>9, <1>10

-----------------------------------------------------------------------------
(***************************************************************************)
(* Elements with names are compared with those of the same name, and       *)
(* removed when there is none.                                             *)
(***************************************************************************)
LEMMA NamedArray ==
  ASSUME NEW d, NEW N, NEW F, DocumentOf(d, N, F), NEW n \in N, NEW owner, NEW property,
         NamedOnce(owner, property),
         n = Definition(d.defs, Kid(owner, property)), n.is = "array",
         NEW keys, keys = KeysOf("nameMappingResolver", Seen(d.defs, n).kids)
  PROVE  /\ Elements(owner, property) = n.kids /\ Len(n.kids) \in Nat /\ DOMAIN n.kids = 1 .. Len(n.kids)
         /\ DOMAIN keys = 1 .. Len(n.kids)
         /\ \A i \in DOMAIN n.kids : /\ keys[i] = nameKey(n.kids[i]) /\ keys[i] # None
                                     /\ Definition(d.defs, Kid(n, i)) = n.kids[i]
         /\ KeyedOnce(keys, None)
<1>1. Kid(owner, property).is # "ref"
  BY DEF NamedOnce
<1>2. n = Kid(owner, property)
  BY <1>1 DEF Definition
<1>3. Has(owner, property)
  <2>1. Absent.is # "array"
    BY DEF Absent
  <2>2. QED
    BY <1>2, <2>1 DEF Kid
<1>4. Elements(owner, property) = n.kids
  BY <1>2, <1>3 DEF Elements
<1>5. NodeOf(d, n)
  BY DEF DocumentOf
<1>6. Len(n.kids) \in Nat /\ DOMAIN n.kids = 1 .. Len(n.kids)
  BY <1>5 DEF NodeOf
<1>7. /\ \A i \in DOMAIN n.kids : n.kids[i].is = "object" /\ nameKey(n.kids[i]) # None
      /\ \A i, j \in DOMAIN n.kids : nameKey(n.kids[i]) = nameKey(n.kids[j]) => i = j
  BY <1>4, Zenon DEF NamedOnce
<1>8. \A i \in DOMAIN n.kids : Definition(d.defs, n.kids[i]) = n.kids[i] /\ Kid(n, i) = n.kids[i]
  BY <1>7 DEF Definition, Kid, Has, IsContainer
<1>9. PICK s : s = Seen(d.defs, n).kids
  OBVIOUS
<1>10. DOMAIN s = DOMAIN n.kids /\ \A i \in DOMAIN n.kids : s[i] = n.kids[i]
  BY <1>5, <1>8, <1>9, SeenNodes
<1>11. keys = [i \in DOMAIN s |-> nameKey(s[i])]
  BY <1>9 DEF KeysOf
<1>12. \A i \in DOMAIN n.kids : keys[i] = nameKey(n.kids[i])
  BY <1>10, <1>11
<1>13. DOMAIN keys = DOMAIN n.kids
  BY <1>10, <1>11
<1>14. KeyedOnce(keys, None)
  BY <1>7, <1>12, <1>13 DEF KeyedOnce
<1>15. QED
  BY <1>4, <1>6, <1>7, <1>8, <1>12, <1>13, <1>14

LEMMA NamesPaired ==
  ASSUME IsDdl, IsDocument(asked.before), IsDocument(asked.after),
         NEW c, GoodParent(c, asked), c.rules.mapping = "nameMappingResolver",
         NEW b, NEW a, NEW property, NamedOnce(b, property), NamedOnce(a, property),
         c.before.node = Definition(asked.before.defs, Kid(b, property)),
         c.after.node = Definition(asked.after.defs, Kid(a, property)),
         NEW r, r = MappingData(c), NEW eb, NEW ea,
         eb = Elements(b, property), ea = Elements(a, property)
  PROVE  /\ \A key \in DOMAIN r.mapped :
              /\ key \in DOMAIN eb /\ r.mapped[key] \in DOMAIN ea
              /\ nameKey(eb[key]) = nameKey(ea[r.mapped[key]])
              /\ Definition(asked.before.defs, Kid(c.before.node, key)) = eb[key]
              /\ Definition(asked.after.defs, Kid(c.after.node, r.mapped[key])) = ea[r.mapped[key]]
         /\ \A key \in r.removed :
              /\ key \in DOMAIN eb
              /\ \A f \in ElementsOf(ea) : nameKey(f) # nameKey(eb[key])
<1>1. PICK n, m : n = c.before.node /\ m = c.after.node
  OBVIOUS
<1>2. n.is = "array" /\ m.is = "array"
  BY <1>1 DEF GoodParent, GoodItem, ArraysFit, IsContainer
<1>3. /\ n \in NodesOf(asked.before)[1] /\ m \in NodesOf(asked.after)[1]
      /\ DocumentOf(asked.before, NodesOf(asked.before)[1], NodesOf(asked.before)[2])
      /\ DocumentOf(asked.after, NodesOf(asked.after)[1], NodesOf(asked.after)[2])
  BY <1>1, NodesOfParents
<1>4. PICK kb, ka : kb = KeysSeen(c, asked.before, n) /\ ka = KeysSeen(c, asked.after, m)
  OBVIOUS
<1>5. /\ kb = KeysOf("nameMappingResolver", Seen(asked.before.defs, n).kids)
      /\ ka = KeysOf("nameMappingResolver", Seen(asked.after.defs, m).kids)
  BY <1>4 DEF KeysSeen
<1>6. PICK p, q : p = Len(n.kids) /\ q = Len(m.kids)
  OBVIOUS
<1>7. /\ eb = n.kids /\ p \in Nat /\ DOMAIN n.kids = 1 .. p /\ DOMAIN kb = 1 .. p
      /\ \A i \in DOMAIN n.kids : /\ kb[i] = nameKey(n.kids[i]) /\ kb[i] # None
                                  /\ Definition(asked.before.defs, Kid(n, i)) = n.kids[i]
      /\ KeyedOnce(kb, None)
  BY <1>1, <1>2, <1>3, <1>5, <1>6, NamedArray
<1>8. /\ ea = m.kids /\ q \in Nat /\ DOMAIN m.kids = 1 .. q /\ DOMAIN ka = 1 .. q
      /\ \A i \in DOMAIN m.kids : /\ ka[i] = nameKey(m.kids[i]) /\ ka[i] # None
                                  /\ Definition(asked.after.defs, Kid(m, i)) = m.kids[i]
      /\ KeyedOnce(ka, None)
  BY <1>1, <1>2, <1>3, <1>5, <1>6, NamedArray
<1>9. PICK related : related = KeyedItems(kb, ka, None)
  OBVIOUS
<1>10. Looped(r, p, q, related)
  <2>1. c.rules.mapping \notin {"default", "enumValuesMappingResolver"} =>
           Looped(r, Len(c.before.node.kids), Len(c.after.node.kids),
                     KeyedItems(KeysSeen(c, asked.before, c.before.node),
                                KeysSeen(c, asked.after, c.after.node), None))
    BY MappingContract
  <2>2. Looped(r, Len(c.before.node.kids), Len(c.after.node.kids),
                     KeyedItems(KeysSeen(c, asked.before, c.before.node),
                                KeysSeen(c, asked.after, c.after.node), None))
    BY <2>1
  <2>3. QED
    BY <1>1, <1>4, <1>6, <1>9, <2>2
<1>11. /\ EachKeyOnce(r, 1 .. p, 1 .. q)
       /\ \A i \in DOMAIN r.mapped : <<i, r.mapped[i]>> \in related
       /\ \A i \in r.removed : \A j \in 1 .. q :
             <<i, j>> \in related => \E l \in DOMAIN r.mapped : l < i /\ r.mapped[l] = j
  BY <1>10, LoopContract
<1>12. /\ DOMAIN r.mapped \subseteq 1 .. p /\ r.removed \subseteq 1 .. p
       /\ \A i \in DOMAIN r.mapped : r.mapped[i] \in 1 .. q
  BY <1>11 DEF EachKeyOnce, MappedTo
<1>13. \A i \in 1 .. p, j \in 1 .. q : <<i, j>> \in related <=> kb[i] = ka[j]
  <2>1. ASSUME NEW i \in 1 .. p, NEW j \in 1 .. q PROVE <<i, j>> \in related <=> kb[i] = ka[j]
    <3>1. /\ <<i, j>> \in KeyedItems(kb, ka, None) => kb[i] = ka[j] /\ kb[i] # None
          /\ KeyedOnce(ka, None) /\ kb[i] = ka[j] /\ ka[j] # None
               => <<i, j>> \in KeyedItems(kb, ka, None)
      BY <1>7, <1>8, KeyedItemsShareKeys
    <3>2. QED
      BY <1>8, <1>9, <3>1
  <2>2. QED
    BY <2>1
<1>14. ASSUME NEW key \in DOMAIN r.mapped
       PROVE  /\ key \in DOMAIN eb /\ r.mapped[key] \in DOMAIN ea
              /\ nameKey(eb[key]) = nameKey(ea[r.mapped[key]])
              /\ Definition(asked.before.defs, Kid(c.before.node, key)) = eb[key]
              /\ Definition(asked.after.defs, Kid(c.after.node, r.mapped[key])) = ea[r.mapped[key]]
  <2>1. PICK to : to = r.mapped[key]
    OBVIOUS
  <2>2. key \in 1 .. p /\ to \in 1 .. q /\ kb[key] = ka[to]
    BY <1>11, <1>12, <1>13, <1>14, <2>1
  <2>3. QED
    BY <1>1, <1>7, <1>8, <2>1, <2>2
<1>15. ASSUME NEW key \in r.removed
       PROVE  /\ key \in DOMAIN eb
              /\ \A f \in ElementsOf(ea) : nameKey(f) # nameKey(eb[key])
  <2>1. key \in 1 .. p
    BY <1>12
  <2>2. ASSUME NEW j \in 1 .. q, nameKey(ea[j]) = nameKey(eb[key]) PROVE FALSE
    <3>1. <<key, j>> \in related
      BY <1>7, <1>8, <1>13, <2>1, <2>2
    <3>2. PICK l \in DOMAIN r.mapped : l < key /\ r.mapped[l] = j
      BY <1>11, <3>1
    <3>3. l \in 1 .. p /\ kb[l] = ka[j] /\ kb[key] = ka[j]
      BY <1>11, <1>12, <1>13, <2>1, <3>1, <3>2
    <3>4. l = key
      BY <1>7, <2>1, <3>3 DEF KeyedOnce
    <3>5. QED
      BY <2>1, <3>2, <3>4
  <2>3. QED
    BY <1>7, <1>8, <2>1, <2>2 DEF ElementsOf
<1>16. QED
  BY <1>14, <1>15

-----------------------------------------------------------------------------
(***************************************************************************)
(* The way from the realm to the name of a type, and to the objects.       *)
(***************************************************************************)
\* What a path leads to: y has the positions, and the elements that are compared there.
Placed(n, path, x, y) ==
  /\ Route(path, n, y.p, y.q, y.r)
  /\ n >= 2 => SchemaPair(x, y.p, y.s, y.u)
  /\ n >= 4 => TablePair(x, y.p, y.q, y.s, y.u, y.t, y.v)
  /\ n >= 6 => ColumnPair(x, y.p, y.q, y.r, y.s, y.u, y.t, y.v, y.c, y.w)

LEMMA DeeperPlace ==
  ASSUME NEW n \in {0, 2, 4, 6, 7, 8}, NEW path, NEW x, NEW y, Placed(n, path, x, y), NEW key,
         n = 0 => key = "schemas", n = 2 => key = "tables", n = 4 => key = "columns"
  PROVE  Placed(n + 1, Append(path, key), x, y)
<1>1. PICK p, q, r : p = y.p /\ q = y.q /\ r = y.r
  OBVIOUS
<1>2. Route(path, n, p, q, r)
  BY <1>1 DEF Placed
<1>3. /\ n = 1 => key = p
      /\ n = 3 => key = q
      /\ n = 5 => key = r
      /\ n >= 2 => p = p
      /\ n >= 4 => q = q
      /\ n >= 6 => r = r
  OBVIOUS
<1>4. Route(Append(path, key), n + 1, p, q, r)
  BY <1>2, <1>3, RouteGrows
<1>5. (n + 1 >= 2 => n >= 2) /\ (n + 1 >= 4 => n >= 4) /\ (n + 1 >= 6 => n >= 6)
  OBVIOUS
<1>6. QED
  BY <1>1, <1>4, <1>5 DEF Placed

LEMMA SchemaPlace ==
  ASSUME NEW path, NEW x, NEW y, Placed(1, path, x, y), NEW key, NEW s, NEW u, SchemaPair(x, key, s, u)
  PROVE  \E z : Placed(2, Append(path, key), x, z) /\ z.s = s /\ z.u = u
<1>1. PICK z : z = [p |-> key, q |-> 0, r |-> 0, s |-> s, u |-> u, t |-> 0, v |-> 0, c |-> 0, w |-> 0]
  OBVIOUS
<1>2. z.p = key /\ z.s = s /\ z.u = u
  BY <1>1
<1>3. PICK p, q, r, i, j : p = y.p /\ q = y.q /\ r = y.r /\ i = z.q /\ j = z.r
  OBVIOUS
<1>4. Route(path, 1, p, q, r)
  BY <1>3 DEF Placed
<1>5. Route(Append(path, key), 1 + 1, key, i, j)
  BY <1>4, RouteGrows
<1>6. 1 + 1 = 2
  OBVIOUS
<1>7. Route(Append(path, key), 2, key, i, j)
  BY <1>5, <1>6
<1>8. QED
  BY <1>2, <1>3, <1>7 DEF Placed

LEMMA TablePlace ==
  ASSUME NEW path, NEW x, NEW y, Placed(3, path, x, y), NEW key, NEW t, NEW v,
         TablePair(x, y.p, key, y.s, y.u, t, v)
  PROVE  \E z : Placed(4, Append(path, key), x, z) /\ z.t = t /\ z.v = v
<1>1. PICK p, q, r, s, u : p = y.p /\ q = y.q /\ r = y.r /\ s = y.s /\ u = y.u
  OBVIOUS
<1>2. PICK z : z = [p |-> p, q |-> key, r |-> 0, s |-> s, u |-> u, t |-> t, v |-> v, c |-> 0, w |-> 0]
  OBVIOUS
<1>3. z.p = p /\ z.q = key /\ z.s = s /\ z.u = u /\ z.t = t /\ z.v = v
  BY <1>2
<1>4. PICK j : j = z.r
  OBVIOUS
<1>5. Route(path, 3, p, q, r)
  BY <1>1 DEF Placed
<1>6. Route(Append(path, key), 3 + 1, p, key, j)
  BY <1>5, RouteGrows
<1>7. 3 + 1 = 4
  OBVIOUS
<1>8. Route(Append(path, key), 4, p, key, j)
  BY <1>6, <1>7
<1>9. TablePair(x, p, key, s, u, t, v)
  BY <1>1
<1>10. SchemaPair(x, p, s, u)
  BY <1>9 DEF TablePair
<1>11. QED
  BY <1>3, <1>4, <1>8, <1>9, <1>10 DEF Placed

LEMMA RouteToColumn ==
  ASSUME NEW path, NEW p, NEW q, NEW r, Route(path, 5, p, q, r), NEW key
  PROVE  Route(Append(path, key), 6, p, q, key)
<1>1. Route(Append(path, key), 5 + 1, p, q, key)
  BY RouteGrows
<1>2. 5 + 1 = 6
  OBVIOUS
<1>3. QED
  BY <1>1, <1>2

LEMMA ColumnPlace ==
  ASSUME NEW path, NEW x, NEW y, Placed(5, path, x, y), NEW key, NEW c, NEW w,
         ColumnPair(x, y.p, y.q, key, y.s, y.u, y.t, y.v, c, w)
  PROVE  \E z : Placed(6, Append(path, key), x, z) /\ z.c = c /\ z.w = w
<1>1. PICK p, q, r, s, u, t, v :
        p = y.p /\ q = y.q /\ r = y.r /\ s = y.s /\ u = y.u /\ t = y.t /\ v = y.v
  OBVIOUS
<1>2. PICK z : z = [p |-> p, q |-> q, r |-> key, s |-> s, u |-> u, t |-> t, v |-> v, c |-> c, w |-> w]
  OBVIOUS
<1>3. /\ z.p = p /\ z.q = q /\ z.r = key /\ z.s = s /\ z.u = u /\ z.t = t /\ z.v = v /\ z.c = c
      /\ z.w = w
  BY <1>2
<1>4. Route(path, 5, p, q, r)
  BY <1>1 DEF Placed
<1>5. Route(Append(path, key), 6, p, q, key)
  BY <1>4, RouteToColumn
<1>6. ColumnPair(x, p, q, key, s, u, t, v, c, w)
  BY <1>1
<1>7. TablePair(x, p, q, s, u, t, v)
  BY <1>6 DEF ColumnPair
<1>8. SchemaPair(x, p, s, u)
  BY <1>7 DEF TablePair
<1>9. QED
  BY <1>3, <1>5, <1>6, <1>7, <1>8 DEF Placed

\* An item on this way; all others are under rules without a verdict that is breaking.
Nodes(i, b, a) == i.before.node = b /\ i.after.node = a
KidNodes(i, x, b, a, key) ==
  Nodes(i, Definition(x.before.defs, Kid(b, key)), Definition(x.after.defs, Kid(a, key)))

AtRealm(i, x, y) ==
  Placed(0, i.path, x, y) /\ Like(i.rules, ddlRules) /\ Nodes(i, x.before.root, x.after.root)

AtSchemas(i, x, y) ==
  /\ Placed(1, i.path, x, y) /\ i.rules = SchemasRules
  /\ KidNodes(i, x, x.before.root, x.after.root, "schemas")

AtSchema(i, x, y) == Placed(2, i.path, x, y) /\ Like(i.rules, schemaRules) /\ Nodes(i, y.s, y.u)

AtTables(i, x, y) ==
  Placed(3, i.path, x, y) /\ i.rules = TablesRules /\ KidNodes(i, x, y.s, y.u, "tables")

AtTable(i, x, y) ==
  /\ Placed(4, i.path, x, y) /\ Nodes(i, y.t, y.v)
  /\ i.rules = asElement(Lazy("tableRules")) \/ Like(i.rules, tableRules)
  /\ "ignoreKeyDifference" \in i.rules.flags

AtColumns(i, x, y) ==
  Placed(5, i.path, x, y) /\ i.rules = ColumnsRules /\ KidNodes(i, x, y.t, y.v, "columns")

AtColumn(i, x, y) ==
  /\ Placed(6, i.path, x, y) /\ Nodes(i, y.c, y.w)
  /\ Like(i.rules, columnRules) /\ "ignoreKeyDifference" \in i.rules.flags

AtColumnType(i, x, y) ==
  Placed(7, i.path, x, y) /\ i.rules = columnTypeRules /\ KidNodes(i, x, y.c, y.w, "type")

AtType(i, x, y) ==
  /\ Placed(8, i.path, x, y) /\ Nodes(i, TypeOf(x.before, y.c), TypeOf(x.after, y.w))
  /\ i.rules = Lazy("schemaTypeRules") \/ TypeLike(i.rules)

\* The name of a type: a scalar, right below the type.
NameOf(i, b, a) ==
  /\ i.rules = TypeName /\ Nodes(i, Kid(b, "type"), Kid(a, "type"))
  /\ Kid(b, "type").is = "scalar" /\ Kid(a, "type").is = "scalar"
  /\ i.before.above[1] = b /\ i.after.above[1] = a
  /\ Head(i.keys)[1] = Head(i.keys)[2]

AtTypeName(i, x, y) ==
  Placed(9, i.path, x, y) /\ NameOf(i, TypeOf(x.before, y.c), TypeOf(x.after, y.w))

AtObjects(i, x) ==
  /\ i.rules = objectsArrayRule
  /\ \A k \in DOMAIN i.before.node.kids : PlainObject(Definition(x.before.defs, i.before.node.kids[k]))
  /\ \A k \in DOMAIN i.after.node.kids : PlainObject(Definition(x.after.defs, i.after.node.kids[k]))

AtObject(i) ==
  /\ PlainObject(i.before.node) /\ PlainObject(i.after.node)
  /\ attrIdentityKey(i.before.node) = attrIdentityKey(i.after.node)
  /\ attrIdentityKey(i.before.node) # None
  /\ \/ i.rules = asElement(Lazy("objectRules"))
     \/ readKind(i.before.node) = "EnumType" /\ TypeLike(i.rules)

AtObjectName(i) == \E b, a : NameOf(i, b, a) /\ Kid(b, "type").of = Kid(a, "type").of

OnWay(i, x, y) ==
  \/ AtRealm(i, x, y) \/ AtSchemas(i, x, y) \/ AtSchema(i, x, y)
  \/ AtTables(i, x, y) \/ AtTable(i, x, y) \/ AtColumns(i, x, y) \/ AtColumn(i, x, y)
  \/ AtColumnType(i, x, y) \/ AtType(i, x, y) \/ AtTypeName(i, x, y)

OnChain(i, x) ==
  IsCalm(i.rules) \/ (\E y : OnWay(i, x, y)) \/ AtObjects(i, x) \/ AtObject(i) \/ AtObjectName(i)

\* Where an item is does not depend on its scope, and not on whether it is entered.
LEMMA SameChain ==
  ASSUME NEW i, NEW j, NEW x, OnChain(i, x), i.rules = j.rules, i.before = j.before, i.after = j.after,
         i.keys = j.keys, i.path = j.path
  PROVE  OnChain(j, x)
<1>1. CASE IsCalm(i.rules)
  BY <1>1 DEF OnChain
<1>2. CASE \E y : OnWay(i, x, y)
  <2>1. PICK y : OnWay(i, x, y)
    BY <1>2
  <2>2. OnWay(j, x, y)
    BY <2>1 DEF OnWay, AtRealm, AtSchemas, AtSchema, AtTables, AtTable, AtColumns, AtColumn,
                AtColumnType, AtType, AtTypeName, NameOf, Nodes, KidNodes
  <2>3. QED
    BY <2>2 DEF OnChain
<1>3. CASE AtObjects(i, x)
  BY <1>3 DEF OnChain, AtObjects
<1>4. CASE AtObject(i)
  BY <1>4 DEF OnChain, AtObject
<1>5. CASE AtObjectName(i)
  BY <1>5 DEF OnChain, AtObjectName, NameOf, Nodes
<1>6. QED
  BY <1>1, <1>2, <1>3, <1>4, <1>5 DEF OnChain

\* What the rules by a name stand for: of a table, a type and an object.
LEMMA NamedRules ==
  ASSUME IsDdl, NEW r, IsTable(r), NEW value, NEW path
  PROVE  /\ r.lazy = None => Resolved(r, value, path) = r
         /\ r = asElement(Lazy("tableRules")) =>
              Like(Resolved(r, value, path), tableRules) /\ r.flags \subseteq Resolved(r, value, path).flags
<1>1. r.lazy = None => Resolved(r, value, path) = r
  BY ResolvedIsTable
<1>2. ASSUME r = asElement(Lazy("tableRules"))
      PROVE  Like(Resolved(r, value, path), tableRules) /\ r.flags \subseteq Resolved(r, value, path).flags
  <2>1. IsTable(Lazy("tableRules"))
    <3>1. "allUnclassified" \in ClassifyNames /\ "tableRules" \in LazyNames
      BY DEF ClassifyNames, Calm, LazyNames
    <3>2. Depth0(Lazy("tableRules"), ClassifyNames, LazyNames)
      BY <3>1, LazyDepth
    <3>3. \A t : Depth0(t, ClassifyNames, LazyNames) => Depth2(t, ClassifyNames, LazyNames)
      BY Deeper
    <3>4. QED
      BY <3>2, <3>3, Deeper DEF IsTable
  <2>2. Like(r, Lazy("tableRules"))
    BY <1>2, <2>1, LikeElement
  <2>3. Lazy("tableRules").lazy = "tableRules"
    BY DEF Lazy, NoRules, Leaf, Node
  <2>4. r.lazy = "tableRules" /\ r.lazy # None
    BY <2>2, <2>3, DdlRulesAssumption DEF Like, LazyNames
  <2>5. ddlRulesOf(r, value, path) = tableRules
    BY <2>4 DEF ddlRulesOf
  <2>6. IsTable(tableRules)
    BY SchemaTables
  <2>7. QED
    BY <2>4, <2>5, <2>6, LikeResolved
<1>3. QED
  BY <1>1, <1>2

LEMMA ChainOfContext ==
  ASSUME IsDdl, NEW x, NEW i, GoodItem(i, x), ~i.entered, OnChain(i, x), NEW c, c = Context(i)
  PROVE  OnChain(c, x)
<1>1. /\ c.rules = Resolved(i.rules, i.before.node, i.path) /\ c.before = i.before /\ c.after = i.after
      /\ c.keys = i.keys /\ c.path = i.path
  BY ContextsAreGood
<1>2. IsTable(i.rules)
  BY DEF GoodItem
<1>3. CASE IsCalm(i.rules)
  BY <1>1, <1>3, ResolvedIsTable DEF OnChain
<1>4. CASE i.rules.lazy = None
  BY <1>1, <1>2, <1>4, NamedRules, SameChain
<1>5. CASE \E y : AtTable(i, x, y) /\ i.rules = asElement(Lazy("tableRules"))
  <2>1. PICK y : AtTable(i, x, y) /\ i.rules = asElement(Lazy("tableRules"))
    BY <1>5
  <2>2. Like(c.rules, tableRules) /\ i.rules.flags \subseteq c.rules.flags
    BY <1>1, <1>2, <2>1, NamedRules
  <2>3. AtTable(c, x, y)
    BY <1>1, <2>1, <2>2 DEF AtTable, Nodes
  <2>4. QED
    BY <2>3 DEF OnChain, OnWay
<1>6. CASE \E y : AtType(i, x, y) /\ i.rules = Lazy("schemaTypeRules")
  <2>1. PICK y : AtType(i, x, y) /\ i.rules = Lazy("schemaTypeRules")
    BY <1>6
  <2>2. TypeLike(c.rules)
    BY <1>1, <2>1, TypesAre
  <2>3. AtType(c, x, y)
    BY <1>1, <2>1, <2>2 DEF AtType, Nodes
  <2>4. QED
    BY <2>3 DEF OnChain, OnWay
<1>7. CASE AtObject(i) /\ i.rules = asElement(Lazy("objectRules"))
  <2>1. readKind(i.before.node) # "Table"
    BY <1>7 DEF AtObject, PlainObject
  <2>2. IsCalm(c.rules) \/ (readKind(i.before.node) = "EnumType" /\ TypeLike(c.rules))
    BY <1>1, <1>7, <2>1, TypesAre
  <2>3. QED
    BY <1>1, <1>7, <2>2 DEF OnChain, AtObject
<1>8. /\ ddlRules.lazy = None /\ schemaRules.lazy = None /\ tableRules.lazy = None /\ columnRules.lazy = None
      /\ columnTypeRules.lazy = None /\ TypeName.lazy = None
  BY DEF ddlRules, schemaRules, tableRules, columnRules, columnTypeRules, TypeName, Leaf, Node
<1>9. SchemasRules.lazy = None /\ TablesRules.lazy = None /\ ColumnsRules.lazy = None
        /\ objectsArrayRule.lazy = None
  BY EachRules DEF SchemasRules, TablesRules, ColumnsRules, objectsArrayRule
<1>10. CASE \E y : OnWay(i, x, y)
  <2>1. PICK y : OnWay(i, x, y)
    BY <1>10
  <2>2. \/ i.rules.lazy = None
        \/ AtTable(i, x, y) /\ i.rules = asElement(Lazy("tableRules"))
        \/ AtType(i, x, y) /\ i.rules = Lazy("schemaTypeRules")
    BY <1>8, <1>9, <2>1 DEF OnWay, AtRealm, AtSchemas, AtSchema, AtTables, AtTable, AtColumns, AtColumn,
                AtColumnType, AtType, AtTypeName, NameOf, Like, TypeLike
  <2>3. QED
    BY <1>4, <1>5, <1>6, <2>2
<1>11. CASE AtObjects(i, x) \/ AtObjectName(i)
  BY <1>4, <1>8, <1>9, <1>11 DEF AtObjects, AtObjectName, NameOf
<1>12. CASE AtObject(i)
  BY <1>4, <1>7, <1>12 DEF AtObject, TypeLike
<1>13. QED
  BY <1>3, <1>10, <1>11, <1>12 DEF OnChain

\* What a realm says of the elements that are compared.
LEMMA RealmParts ==
  ASSUME NEW x, IsRealm(x.before), IsRealm(x.after), NEW n \in Nat, NEW path, NEW y, Placed(n, path, x, y)
  PROVE  /\ NamedOnce(x.before.root, "schemas") /\ NamedOnce(x.after.root, "schemas")
         /\ PlainObjects(x.before, x.before.root) /\ PlainObjects(x.after, x.after.root)
         /\ n >= 2 => /\ y.s.is = "object" /\ NamedOnce(y.s, "tables") /\ PlainObjects(x.before, y.s)
                      /\ y.u.is = "object" /\ NamedOnce(y.u, "tables") /\ PlainObjects(x.after, y.u)
         /\ n >= 4 => /\ y.t.is = "object" /\ NamedOnce(y.t, "columns") /\ PlainObjects(x.before, y.t)
                      /\ y.v.is = "object" /\ NamedOnce(y.v, "columns") /\ PlainObjects(x.after, y.v)
         /\ n >= 6 => /\ y.c.is = "object" /\ TypedColumn(x.before, y.c)
                      /\ y.w.is = "object" /\ TypedColumn(x.after, y.w)
<1>1. \A o, property, e : NamedOnce(o, property) /\ e \in ElementsOf(Elements(o, property)) => e.is = "object"
  BY DEF NamedOnce, ElementsOf
<1>2. /\ NamedOnce(x.before.root, "schemas") /\ NamedOnce(x.after.root, "schemas")
      /\ PlainObjects(x.before, x.before.root) /\ PlainObjects(x.after, x.after.root)
  BY DEF IsRealm
<1>3. n >= 2 => y.s \in ElementsOf(Elements(x.before.root, "schemas"))
                /\ y.u \in ElementsOf(Elements(x.after.root, "schemas"))
  BY NamedElement DEF Placed, SchemaPair
<1>4. n >= 4 => y.t \in ElementsOf(Elements(y.s, "tables")) /\ y.v \in ElementsOf(Elements(y.u, "tables"))
  BY NamedElement DEF Placed, TablePair
<1>5. n >= 6 => y.c \in ElementsOf(Elements(y.t, "columns")) /\ y.w \in ElementsOf(Elements(y.v, "columns"))
  BY NamedElement DEF Placed, ColumnPair
<1>6. n >= 2 => /\ NamedOnce(y.s, "tables") /\ PlainObjects(x.before, y.s)
                /\ NamedOnce(y.u, "tables") /\ PlainObjects(x.after, y.u)
  BY <1>3 DEF IsRealm
<1>7. n >= 4 => n >= 2
  OBVIOUS
<1>8. n >= 6 => n >= 4
  OBVIOUS
<1>9. n >= 4 => /\ NamedOnce(y.t, "columns") /\ PlainObjects(x.before, y.t)
                /\ NamedOnce(y.v, "columns") /\ PlainObjects(x.after, y.v)
  BY <1>3, <1>4, <1>7 DEF IsRealm
<1>10. n >= 6 => TypedColumn(x.before, y.c) /\ TypedColumn(x.after, y.w)
  BY <1>3, <1>4, <1>5, <1>7, <1>8 DEF IsRealm
<1>11. n >= 2 => y.s.is = "object" /\ y.u.is = "object"
  BY <1>1, <1>2, <1>3
<1>12. n >= 4 => y.t.is = "object" /\ y.v.is = "object"
  BY <1>1, <1>4, <1>6, <1>7
<1>13. n >= 6 => y.c.is = "object" /\ y.w.is = "object"
  BY <1>1, <1>5, <1>8, <1>9
<1>14. QED
  BY <1>2, <1>6, <1>9, <1>10, <1>11, <1>12, <1>13

\* What a mapped child has of its parent.
IsKid(i, c, key, to) ==
  /\ i.rules = KidRules(c.rules, key) /\ i.path = Append(c.path, key) /\ Head(i.keys) = <<key, to>>
  /\ i.before.node = Definition(asked.before.defs, Kid(c.before.node, key))
  /\ i.after.node = Definition(asked.after.defs, Kid(c.after.node, to))
  /\ i.before.above[1] = c.before.node /\ i.after.above[1] = c.after.node

LEMMA KidsAre ==
  ASSUME IsDdl, IsDocument(asked.before), IsDocument(asked.after),
         NEW c, GoodParent(c, asked), NEW key, NEW to, c.before.node.is = "object" => to = key
  PROVE  IsKid(MappedKid(c, key, to), c, key, to)
<1>1. PICK i : i = MappedKid(c, key, to)
  OBVIOUS
<1>2. /\ i.rules = KidRules(c.rules, key)
      /\ i.before = KidSide(asked.before.defs, c.before, key)
      /\ i.after = KidSide(asked.after.defs, c.after, to)
      /\ Head(i.keys) = <<key, to>> /\ i.path = Append(c.path, key)
  BY <1>1, MappedKidIsGood
<1>3. PICK N, F, M, G : /\ N = NodesOf(asked.before)[1] /\ F = NodesOf(asked.before)[2]
                        /\ M = NodesOf(asked.after)[1] /\ G = NodesOf(asked.after)[2]
  OBVIOUS
<1>4. DocumentOf(asked.before, N, F) /\ DocumentOf(asked.after, M, G)
  BY <1>3, NodesAreThere
<1>5. GoodSide(c.before, N, F) /\ GoodSide(c.after, M, G)
  BY <1>3 DEF GoodParent, GoodItem, GoodSideOf
<1>6. IsKidSide(KidSide(asked.before.defs, c.before, key), asked.before, N, F, c.before, key)
  BY <1>4, <1>5, KidSidesAreGood
<1>7. IsKidSide(KidSide(asked.after.defs, c.after, to), asked.after, M, G, c.after, to)
  BY <1>4, <1>5, KidSidesAreGood
<1>8. QED
  BY <1>1, <1>2, <1>6, <1>7 DEF IsKid, IsKidSide

\* Below an element that has objects: on the way, or in these objects.
LEMMA ObjectsBelow ==
  ASSUME NEW i, NEW c, NEW key, IsKid(i, c, key, key), i.rules = objectsArrayRule, key = "objects",
         PlainObjects(asked.before, c.before.node), PlainObjects(asked.after, c.after.node)
  PROVE  OnChain(i, asked)
<1>1. \A d, n : PlainObjects(d, n) =>
         \A k \in DOMAIN Definition(d.defs, Kid(n, "objects")).kids :
            PlainObject(Definition(d.defs, Definition(d.defs, Kid(n, "objects")).kids[k]))
  BY DEF PlainObjects
<1>2. AtObjects(i, asked)
  BY <1>1 DEF AtObjects, IsKid
<1>3. QED
  BY <1>2 DEF OnChain

LEMMA BelowRealm ==
  ASSUME IsRealm(asked.before), IsRealm(asked.after), NEW y, NEW c, AtRealm(c, asked, y),
         NEW key, NEW i, IsKid(i, c, key, key)
  PROVE  OnChain(i, asked)
<1>1. i.rules = KidRules(ddlRules, key)
  BY LikeWays DEF AtRealm, IsKid
<1>2. CASE IsCalm(i.rules)
  BY <1>2 DEF OnChain
<1>3. CASE key = "schemas" /\ i.rules = SchemasRules
  <2>1. Placed(1, i.path, asked, y)
    <3>1. Placed(0 + 1, Append(c.path, key), asked, y)
      BY <1>3, DeeperPlace DEF AtRealm
    <3>2. QED
      BY <3>1 DEF IsKid
  <2>2. AtSchemas(i, asked, y)
    BY <1>3, <2>1 DEF AtSchemas, AtRealm, IsKid, Nodes, KidNodes
  <2>3. QED
    BY <2>2 DEF OnChain, OnWay
<1>4. CASE key = "objects" /\ i.rules = objectsArrayRule
  BY <1>4, ObjectsBelow DEF AtRealm, Nodes, IsRealm
<1>5. QED
  BY <1>1, <1>2, <1>3, <1>4, Ways DEF WayAndObjects

LEMMA BelowSchema ==
  ASSUME IsRealm(asked.before), IsRealm(asked.after), NEW y, NEW c, AtSchema(c, asked, y),
         NEW key, NEW i, IsKid(i, c, key, key)
  PROVE  OnChain(i, asked)
<1>1. i.rules = KidRules(schemaRules, key)
  BY LikeWays DEF AtSchema, IsKid
<1>2. CASE IsCalm(i.rules)
  BY <1>2 DEF OnChain
<1>3. CASE key = "tables" /\ i.rules = TablesRules
  <2>1. Placed(3, i.path, asked, y)
    <3>1. Placed(2 + 1, Append(c.path, key), asked, y)
      BY <1>3, DeeperPlace DEF AtSchema
    <3>2. QED
      BY <3>1 DEF IsKid
  <2>2. AtTables(i, asked, y)
    BY <1>3, <2>1 DEF AtTables, AtSchema, IsKid, Nodes, KidNodes
  <2>3. QED
    BY <2>2 DEF OnChain, OnWay
<1>4. CASE key = "objects" /\ i.rules = objectsArrayRule
  <2>1. PlainObjects(asked.before, y.s) /\ PlainObjects(asked.after, y.u)
    BY RealmParts DEF AtSchema
  <2>2. QED
    BY <1>4, <2>1, ObjectsBelow DEF AtSchema, Nodes
<1>5. QED
  BY <1>1, <1>2, <1>3, <1>4, Ways DEF WayAndObjects

LEMMA BelowTable ==
  ASSUME IsRealm(asked.before), IsRealm(asked.after), NEW y, NEW c, AtTable(c, asked, y),
         Like(c.rules, tableRules), NEW key, NEW i, IsKid(i, c, key, key)
  PROVE  OnChain(i, asked)
<1>1. i.rules = KidRules(tableRules, key)
  BY LikeWays DEF IsKid
<1>2. CASE IsCalm(i.rules)
  BY <1>2 DEF OnChain
<1>3. CASE key = "columns" /\ i.rules = ColumnsRules
  <2>1. Placed(5, i.path, asked, y)
    <3>1. Placed(4 + 1, Append(c.path, key), asked, y)
      BY <1>3, DeeperPlace DEF AtTable
    <3>2. QED
      BY <3>1 DEF IsKid
  <2>2. AtColumns(i, asked, y)
    BY <1>3, <2>1 DEF AtColumns, AtTable, IsKid, Nodes, KidNodes
  <2>3. QED
    BY <2>2 DEF OnChain, OnWay
<1>4. CASE key = "objects" /\ i.rules = objectsArrayRule
  <2>1. PlainObjects(asked.before, y.t) /\ PlainObjects(asked.after, y.v)
    BY RealmParts DEF AtTable
  <2>2. QED
    BY <1>4, <2>1, ObjectsBelow DEF AtTable, Nodes
<1>5. QED
  BY <1>1, <1>2, <1>3, <1>4, Ways DEF WayAndObjects

LEMMA BelowColumn ==
  ASSUME NEW y, NEW c, NEW key, NEW i, IsKid(i, c, key, key),
         AtColumn(c, asked, y) \/ AtColumnType(c, asked, y),
         IsRealm(asked.before), IsRealm(asked.after)
  PROVE  OnChain(i, asked)
<1>1. CASE AtColumn(c, asked, y)
  <2>1. i.rules = KidRules(columnRules, key)
    BY <1>1, LikeWays DEF IsKid, AtColumn
  <2>2. CASE IsCalm(i.rules)
    BY <2>2 DEF OnChain
  <2>3. CASE key = "type" /\ i.rules = columnTypeRules
    <3>1. Placed(7, i.path, asked, y)
      <4>1. Placed(6 + 1, Append(c.path, key), asked, y)
        BY <1>1, <2>3, DeeperPlace DEF AtColumn
      <4>2. QED
        BY <4>1 DEF IsKid
    <3>2. AtColumnType(i, asked, y)
      BY <1>1, <2>3, <3>1 DEF AtColumnType, AtColumn, IsKid, Nodes, KidNodes
    <3>3. QED
      BY <3>2 DEF OnChain, OnWay
  <2>4. QED
    BY <2>1, <2>2, <2>3, Ways DEF Way
<1>2. CASE AtColumnType(c, asked, y)
  <2>1. i.rules = KidRules(columnTypeRules, key)
    BY <1>2 DEF IsKid, AtColumnType
  <2>2. CASE IsCalm(i.rules)
    BY <2>2 DEF OnChain
  <2>3. CASE key = "type" /\ i.rules = Lazy("schemaTypeRules")
    <3>1. Placed(8, i.path, asked, y)
      <4>1. Placed(7 + 1, Append(c.path, key), asked, y)
        BY <1>2, <2>3, DeeperPlace DEF AtColumnType
      <4>2. QED
        BY <4>1 DEF IsKid
    <3>2. TypedColumn(asked.before, y.c) /\ TypedColumn(asked.after, y.w)
      BY <1>2, RealmParts DEF AtColumnType
    <3>3. Kid(y.c, "type").is = "object" /\ Kid(y.w, "type").is = "object"
      BY <3>2 DEF TypedColumn
    <3>4. c.before.node = Kid(y.c, "type") /\ c.after.node = Kid(y.w, "type")
      BY <1>2, <3>3 DEF AtColumnType, KidNodes, Nodes, Definition
    <3>5. Nodes(i, TypeOf(asked.before, y.c), TypeOf(asked.after, y.w))
      BY <2>3, <3>4 DEF IsKid, Nodes, TypeOf
    <3>6. AtType(i, asked, y)
      BY <2>3, <3>1, <3>5 DEF AtType
    <3>7. QED
      BY <3>6 DEF OnChain, OnWay
  <2>4. QED
    BY <2>1, <2>2, <2>3, Ways DEF Way
<1>3. QED
  BY <1>1, <1>2

LEMMA BelowType ==
  ASSUME NEW y, NEW c, AtType(c, asked, y), TypeLike(c.rules), NEW key, NEW i, IsKid(i, c, key, key),
         IsRealm(asked.before), IsRealm(asked.after)
  PROVE  OnChain(i, asked)
<1>1. CASE IsCalm(i.rules)
  BY <1>1 DEF OnChain
<1>2. CASE key = "type" /\ i.rules = TypeName
  <2>1. Placed(9, i.path, asked, y)
    <3>1. Placed(8 + 1, Append(c.path, key), asked, y)
      BY <1>2, DeeperPlace DEF AtType
    <3>2. QED
      BY <3>1 DEF IsKid
  <2>2. TypedColumn(asked.before, y.c) /\ TypedColumn(asked.after, y.w)
    BY RealmParts DEF AtType
  <2>3. PICK b, a : b = TypeOf(asked.before, y.c) /\ a = TypeOf(asked.after, y.w)
    OBVIOUS
  <2>4. Kid(b, "type").is = "scalar" /\ Kid(a, "type").is = "scalar"
    BY <2>2, <2>3 DEF TypedColumn, TypeOf
  <2>5. c.before.node = b /\ c.after.node = a
    BY <2>3 DEF AtType, Nodes
  <2>6. NameOf(i, b, a)
    BY <1>2, <2>4, <2>5 DEF NameOf, IsKid, Nodes, Definition
  <2>7. AtTypeName(i, asked, y)
    BY <2>1, <2>3, <2>6 DEF AtTypeName
  <2>8. QED
    BY <2>7 DEF OnChain, OnWay
<1>3. QED
  BY <1>1, <1>2 DEF TypeLike, Way, IsKid

LEMMA BelowSchemas ==
  ASSUME IsDdl, IsDocument(asked.before), IsDocument(asked.after),
         IsRealm(asked.before), IsRealm(asked.after), NEW y, NEW c, AtSchemas(c, asked, y),
         GoodParent(c, asked), NEW key \in DOMAIN MappingData(c).mapped, NEW i,
         IsKid(i, c, key, MappingData(c).mapped[key])
  PROVE  OnChain(i, asked)
<1>1. PICK b, a, r, to : /\ b = asked.before.root /\ a = asked.after.root
                         /\ r = MappingData(c) /\ to = r.mapped[key]
  OBVIOUS
<1>2. PICK eb, ea : eb = Elements(b, "schemas") /\ ea = Elements(a, "schemas")
  OBVIOUS
<1>3. c.rules.mapping = "nameMappingResolver" /\ i.rules = asElement(schemaRules)
  BY EachRules DEF AtSchemas, SchemasRules, IsKid
<1>4. NamedOnce(b, "schemas") /\ NamedOnce(a, "schemas")
  BY <1>1 DEF IsRealm
<1>5. /\ c.before.node = Definition(asked.before.defs, Kid(b, "schemas"))
      /\ c.after.node = Definition(asked.after.defs, Kid(a, "schemas"))
  BY <1>1 DEF AtSchemas, KidNodes, Nodes
<1>6. /\ key \in DOMAIN eb /\ to \in DOMAIN ea /\ nameKey(eb[key]) = nameKey(ea[to])
      /\ Definition(asked.before.defs, Kid(c.before.node, key)) = eb[key]
      /\ Definition(asked.after.defs, Kid(c.after.node, to)) = ea[to]
  BY <1>1, <1>2, <1>3, <1>4, <1>5, NamesPaired
<1>7. PICK s, u : s = eb[key] /\ u = ea[to]
  OBVIOUS
<1>8. SchemaPair(asked, key, s, u)
  BY <1>1, <1>2, <1>6, <1>7 DEF SchemaPair, Named, ElementsOf
<1>9. PICK z : Placed(2, Append(c.path, key), asked, z) /\ z.s = s /\ z.u = u
  BY <1>8, SchemaPlace DEF AtSchemas
<1>10. Like(i.rules, schemaRules)
  BY <1>3, LikeElement, SchemaTables
<1>11. AtSchema(i, asked, z)
  BY <1>1, <1>6, <1>7, <1>9, <1>10 DEF AtSchema, Nodes, IsKid
<1>12. QED
  BY <1>11 DEF OnChain, OnWay

LEMMA BelowTables ==
  ASSUME IsDdl, IsDocument(asked.before), IsDocument(asked.after),
         IsRealm(asked.before), IsRealm(asked.after), NEW y, NEW c, AtTables(c, asked, y),
         GoodParent(c, asked), NEW key \in DOMAIN MappingData(c).mapped, NEW i,
         IsKid(i, c, key, MappingData(c).mapped[key])
  PROVE  OnChain(i, asked)
<1>1. PICK b, a, r, to : b = y.s /\ a = y.u /\ r = MappingData(c) /\ to = r.mapped[key]
  OBVIOUS
<1>2. PICK eb, ea : eb = Elements(b, "tables") /\ ea = Elements(a, "tables")
  OBVIOUS
<1>3. c.rules.mapping = "nameMappingResolver" /\ i.rules = asElement(Lazy("tableRules"))
  BY EachRules DEF AtTables, TablesRules, IsKid
<1>4. NamedOnce(b, "tables") /\ NamedOnce(a, "tables")
  BY <1>1, RealmParts DEF AtTables
<1>5. /\ c.before.node = Definition(asked.before.defs, Kid(b, "tables"))
      /\ c.after.node = Definition(asked.after.defs, Kid(a, "tables"))
  BY <1>1 DEF AtTables, KidNodes, Nodes
<1>6. /\ key \in DOMAIN eb /\ to \in DOMAIN ea /\ nameKey(eb[key]) = nameKey(ea[to])
      /\ Definition(asked.before.defs, Kid(c.before.node, key)) = eb[key]
      /\ Definition(asked.after.defs, Kid(c.after.node, to)) = ea[to]
  BY <1>1, <1>2, <1>3, <1>4, <1>5, NamesPaired
<1>7. PICK t, v : t = eb[key] /\ v = ea[to]
  OBVIOUS
<1>8. SchemaPair(asked, y.p, y.s, y.u) /\ Placed(3, c.path, asked, y)
  BY DEF AtTables, Placed
<1>9. TablePair(asked, y.p, key, y.s, y.u, t, v)
  BY <1>1, <1>2, <1>6, <1>7, <1>8 DEF TablePair, Named, ElementsOf
<1>10. PICK z : Placed(4, Append(c.path, key), asked, z) /\ z.t = t /\ z.v = v
  BY <1>8, <1>9, TablePlace
<1>11. "ignoreKeyDifference" \in i.rules.flags
  <2>1. "allUnclassified" \in ClassifyNames /\ "tableRules" \in LazyNames
    BY DEF ClassifyNames, Calm, LazyNames
  <2>2. Depth0(Lazy("tableRules"), ClassifyNames, LazyNames)
    BY <2>1, LazyDepth
  <2>3. \A q : Depth0(q, ClassifyNames, LazyNames) => Depth2(q, ClassifyNames, LazyNames)
    BY Deeper
  <2>4. IsTable(Lazy("tableRules"))
    BY <2>2, <2>3, Deeper DEF IsTable
  <2>5. QED
    BY <1>3, <2>4, LikeElement
<1>12. AtTable(i, asked, z)
  BY <1>1, <1>3, <1>6, <1>7, <1>10, <1>11 DEF AtTable, Nodes, IsKid
<1>13. QED
  BY <1>12 DEF OnChain, OnWay

LEMMA BelowColumns ==
  ASSUME IsDdl, IsDocument(asked.before), IsDocument(asked.after),
         IsRealm(asked.before), IsRealm(asked.after), NEW y, NEW c, AtColumns(c, asked, y),
         GoodParent(c, asked), NEW key \in DOMAIN MappingData(c).mapped, NEW i,
         IsKid(i, c, key, MappingData(c).mapped[key])
  PROVE  OnChain(i, asked)
<1>1. PICK b, a, r, to : b = y.t /\ a = y.v /\ r = MappingData(c) /\ to = r.mapped[key]
  OBVIOUS
<1>2. PICK eb, ea : eb = Elements(b, "columns") /\ ea = Elements(a, "columns")
  OBVIOUS
<1>3. c.rules.mapping = "nameMappingResolver" /\ i.rules = asElement(columnRules)
  BY EachRules DEF AtColumns, ColumnsRules, IsKid
<1>4. NamedOnce(b, "columns") /\ NamedOnce(a, "columns")
  BY <1>1, RealmParts DEF AtColumns
<1>5. /\ c.before.node = Definition(asked.before.defs, Kid(b, "columns"))
      /\ c.after.node = Definition(asked.after.defs, Kid(a, "columns"))
  BY <1>1 DEF AtColumns, KidNodes, Nodes
<1>6. /\ key \in DOMAIN eb /\ to \in DOMAIN ea /\ nameKey(eb[key]) = nameKey(ea[to])
      /\ Definition(asked.before.defs, Kid(c.before.node, key)) = eb[key]
      /\ Definition(asked.after.defs, Kid(c.after.node, to)) = ea[to]
  BY <1>1, <1>2, <1>3, <1>4, <1>5, NamesPaired
<1>7. PICK k, w : k = eb[key] /\ w = ea[to]
  OBVIOUS
<1>8. TablePair(asked, y.p, y.q, y.s, y.u, y.t, y.v) /\ Placed(5, c.path, asked, y)
  BY DEF AtColumns, Placed
<1>9. ColumnPair(asked, y.p, y.q, key, y.s, y.u, y.t, y.v, k, w)
  BY <1>1, <1>2, <1>6, <1>7, <1>8 DEF ColumnPair, Named, ElementsOf
<1>10. PICK z : Placed(6, Append(c.path, key), asked, z) /\ z.c = k /\ z.w = w
  BY <1>8, <1>9, ColumnPlace
<1>11. Like(i.rules, columnRules) /\ "ignoreKeyDifference" \in i.rules.flags
  BY <1>3, LikeElement, SchemaTables
<1>12. AtColumn(i, asked, z)
  BY <1>1, <1>6, <1>7, <1>10, <1>11 DEF AtColumn, Nodes, IsKid
<1>13. QED
  BY <1>12 DEF OnChain, OnWay

\* The node of an element of an array.
LEMMA ElementIs ==
  ASSUME NEW d, NEW n, NodeOf(d, n), n.is = "array", NEW k \in DOMAIN n.kids
  PROVE  Definition(d.defs, Kid(n, k)) = Definition(d.defs, n.kids[k])
BY DEF Kid, Has, IsContainer

LEMMA BelowObjects ==
  ASSUME IsDdl, IsDocument(asked.before), IsDocument(asked.after), NEW c, AtObjects(c, asked),
         GoodParent(c, asked), NEW key \in DOMAIN MappingData(c).mapped, NEW i,
         IsKid(i, c, key, MappingData(c).mapped[key])
  PROVE  OnChain(i, asked)
<1>1. PICK n, m, r, to : n = c.before.node /\ m = c.after.node /\ r = MappingData(c) /\ to = r.mapped[key]
  OBVIOUS
<1>2. c.rules.mapping = "attrsMappingResolver" /\ i.rules = asElement(Lazy("objectRules"))
  BY EachRules DEF AtObjects, objectsArrayRule, IsKid
<1>3. n.is = "array" /\ m.is = "array"
  BY <1>1, <1>2 DEF GoodParent, GoodItem, ArraysFit, IsContainer
<1>4. NodeOf(asked.before, n) /\ NodeOf(asked.after, m)
  BY <1>1, NodesOfParents
<1>5. PICK p, q : p = Len(n.kids) /\ q = Len(m.kids)
  OBVIOUS
<1>6. p \in Nat /\ DOMAIN n.kids = 1 .. p /\ q \in Nat /\ DOMAIN m.kids = 1 .. q
  BY <1>3, <1>4, <1>5 DEF NodeOf
<1>7. PICK sb, sa : sb = Seen(asked.before.defs, n).kids /\ sa = Seen(asked.after.defs, m).kids
  OBVIOUS
<1>8. /\ DOMAIN sb = 1 .. p /\ \A k \in 1 .. p : sb[k] = Definition(asked.before.defs, n.kids[k])
      /\ DOMAIN sa = 1 .. q /\ \A k \in 1 .. q : sa[k] = Definition(asked.after.defs, m.kids[k])
  BY <1>4, <1>6, <1>7, SeenNodes
<1>9. PICK kb, ka : kb = KeysSeen(c, asked.before, n) /\ ka = KeysSeen(c, asked.after, m)
  OBVIOUS
<1>10. kb = KeysOf("attrsMappingResolver", sb) /\ ka = KeysOf("attrsMappingResolver", sa)
  BY <1>2, <1>7, <1>9 DEF KeysSeen
<1>11. kb = [k \in 1 .. p |-> attrIdentityKey(sb[k])] /\ ka = [k \in 1 .. q |-> attrIdentityKey(sa[k])]
  BY <1>8, <1>10 DEF KeysOf
<1>12. Looped(r, p, q, KeyedItems(kb, ka, None))
  <2>1. c.rules.mapping \notin {"default", "enumValuesMappingResolver"} =>
           Looped(r, Len(c.before.node.kids), Len(c.after.node.kids),
                     KeyedItems(KeysSeen(c, asked.before, c.before.node),
                                KeysSeen(c, asked.after, c.after.node), None))
    BY <1>1, MappingContract
  <2>2. Looped(r, Len(c.before.node.kids), Len(c.after.node.kids),
                     KeyedItems(KeysSeen(c, asked.before, c.before.node),
                                KeysSeen(c, asked.after, c.after.node), None))
    BY <1>2, <2>1
  <2>3. QED
    BY <1>1, <1>5, <1>9, <2>2
<1>13. <<key, to>> \in KeyedItems(kb, ka, None)
  BY <1>1, <1>12, LoopContract
<1>14. key \in 1 .. p /\ to \in 1 .. q
  <2>1. EachKeyOnce(r, 1 .. p, 1 .. q)
    BY <1>12, LoopContract
  <2>2. QED
    BY <1>1, <2>1 DEF EachKeyOnce, MappedTo
<1>15. kb[key] = ka[to] /\ kb[key] # None
  <2>1. DOMAIN kb = 1 .. p /\ DOMAIN ka = 1 .. q
    BY <1>11
  <2>2. <<key, to>> \in KeyedItems(kb, ka, None) => kb[key] = ka[to] /\ kb[key] # None
    BY <1>6, <1>14, <2>1, KeyedItemsShareKeys
  <2>3. QED
    BY <1>13, <2>2
<1>16. kb[key] = attrIdentityKey(sb[key]) /\ ka[to] = attrIdentityKey(sa[to])
  BY <1>11, <1>14
<1>17. i.before.node = sb[key] /\ i.after.node = sa[to]
  <2>1. /\ Definition(asked.before.defs, Kid(n, key)) = Definition(asked.before.defs, n.kids[key])
        /\ Definition(asked.after.defs, Kid(m, to)) = Definition(asked.after.defs, m.kids[to])
    BY <1>3, <1>4, <1>6, <1>14, ElementIs
  <2>2. QED
    BY <1>1, <1>8, <1>14, <2>1 DEF IsKid
<1>18. PlainObject(sb[key]) /\ PlainObject(sa[to])
  BY <1>1, <1>6, <1>8, <1>14 DEF AtObjects
<1>19. AtObject(i)
  BY <1>2, <1>15, <1>16, <1>17, <1>18 DEF AtObject
<1>20. QED
  BY <1>19 DEF OnChain

\* Two enums that are paired have the same name, which is that of their type.
LEMMA EnumsPaired ==
  ASSUME NEW b, NEW a, PlainObject(b), PlainObject(a), attrIdentityKey(b) = attrIdentityKey(a),
         attrIdentityKey(b) # None, readKind(b) = "EnumType"
  PROVE  /\ Kid(b, "type").is = "scalar" /\ Kid(a, "type").is = "scalar"
         /\ Kid(b, "type").of = Kid(a, "type").of /\ Has(a, "type")
<1>1. \A n : PlainObject(n) /\ readKind(n) = "EnumType" =>
         ~Has(n, "name") /\ ~Has(n, "symbol") /\ PropertyOf(n, "type") # None
  BY DEF PlainObject
<1>2. \A n : PropertyOf(n, "type") # None =>
         Kid(n, "type").is = "scalar" /\ PropertyOf(n, "type") = Kid(n, "type").of
  BY DEF PropertyOf
<1>3. \A n : attrIdentityKey(n) # None => attrIdentityKey(n)[1] = readKind(n)
  BY DEF attrIdentityKey
<1>4. readKind(a) = "EnumType"
  BY <1>3
<1>5. \A n : PlainObject(n) /\ readKind(n) = "EnumType" /\ attrIdentityKey(n) # None =>
         attrIdentityKey(n) = <<"EnumType", PropertyOf(n, "type")>>
  BY <1>1 DEF attrIdentityKey
<1>6. PropertyOf(b, "type") = PropertyOf(a, "type")
  <2>1. <<"EnumType", PropertyOf(b, "type")>> = <<"EnumType", PropertyOf(a, "type")>>
    BY <1>4, <1>5
  <2>2. QED
    BY <2>1
<1>7. Has(a, "type")
  <2>1. Absent.is # "scalar"
    BY DEF Absent
  <2>2. QED
    BY <1>1, <1>2, <1>4, <2>1 DEF Kid
<1>8. QED
  BY <1>1, <1>2, <1>4, <1>6, <1>7

LEMMA BelowObject ==
  ASSUME NEW c, AtObject(c), TypeLike(c.rules), readKind(c.before.node) = "EnumType",
         NEW key, NEW i, IsKid(i, c, key, key)
  PROVE  OnChain(i, asked)
<1>1. CASE IsCalm(i.rules)
  BY <1>1 DEF OnChain
<1>2. CASE key = "type" /\ i.rules = TypeName
  <2>1. PICK b, a : b = c.before.node /\ a = c.after.node
    OBVIOUS
  <2>2. /\ Kid(b, "type").is = "scalar" /\ Kid(a, "type").is = "scalar"
        /\ Kid(b, "type").of = Kid(a, "type").of
    BY <2>1, EnumsPaired DEF AtObject
  <2>3. NameOf(i, b, a)
    BY <1>2, <2>1, <2>2 DEF NameOf, IsKid, Nodes, Definition
  <2>4. AtObjectName(i)
    BY <2>2, <2>3 DEF AtObjectName
  <2>5. QED
    BY <2>4 DEF OnChain
<1>3. QED
  BY <1>1, <1>2 DEF TypeLike, Way, IsKid

\* The rules of a pair on the way that is looked into are not named only.
LEMMA TablesNamed ==
  ASSUME NEW r, r.lazy = None
  PROVE  /\ r # asElement(Lazy("tableRules")) /\ r # Lazy("schemaTypeRules")
         /\ r # asElement(Lazy("objectRules"))
<1>1. \A name \in LazyNames : IsTable(Lazy(name))
  <2>1. ASSUME NEW name \in LazyNames PROVE IsTable(Lazy(name))
    <3>1. "allUnclassified" \in ClassifyNames
      BY DEF ClassifyNames, Calm
    <3>2. Depth0(Lazy(name), ClassifyNames, LazyNames)
      BY <3>1, LazyDepth
    <3>3. \A t : Depth0(t, ClassifyNames, LazyNames) => Depth2(t, ClassifyNames, LazyNames)
      BY Deeper
    <3>4. QED
      BY <3>2, <3>3, Deeper DEF IsTable
  <2>2. QED
    BY <2>1
<1>2. \A name : Lazy(name).lazy = name
  BY DEF Lazy, NoRules, Leaf, Node
<1>3. \A name \in LazyNames : asElement(Lazy(name)).lazy = name
  BY <1>1, <1>2, LikeElement DEF Like
<1>4. "tableRules" \in LazyNames /\ "schemaTypeRules" \in LazyNames /\ "objectRules" \in LazyNames
  BY DEF LazyNames
<1>5. asElement(Lazy("tableRules")).lazy = "tableRules"
  BY <1>3, <1>4
<1>6. asElement(Lazy("objectRules")).lazy = "objectRules"
  BY <1>3, <1>4
<1>7. Lazy("schemaTypeRules").lazy = "schemaTypeRules"
  BY <1>2
<1>8. "tableRules" # None /\ "schemaTypeRules" # None /\ "objectRules" # None
  BY <1>4, DdlRulesAssumption
<1>9. QED
  BY <1>5, <1>6, <1>7, <1>8

\* Names are scalars: nothing is below them.
LEMMA NamesAreLeaves ==
  ASSUME NEW i, NEW b, NEW a, NameOf(i, b, a)
  PROVE  ~IsContainer(i.before.node)
BY DEF NameOf, Nodes, IsContainer

\* The objects on the way.
LEMMA ObjectsOnWay ==
  ASSUME IsDocument(asked.before), IsRealm(asked.before), IsRealm(asked.after), NEW y, NEW c,
         \/ AtRealm(c, asked, y) \/ AtSchema(c, asked, y) \/ AtTable(c, asked, y) \/ AtColumn(c, asked, y)
         \/ AtColumnType(c, asked, y) \/ AtType(c, asked, y)
  PROVE  c.before.node.is = "object"
<1>1. CASE AtRealm(c, asked, y)
  <2>1. DocumentOf(asked.before, NodesOf(asked.before)[1], NodesOf(asked.before)[2])
    BY NodesAreThere
  <2>2. QED
    BY <1>1, <2>1 DEF AtRealm, Nodes, DocumentOf
<1>2. CASE AtSchema(c, asked, y)
  BY <1>2, RealmParts DEF AtSchema, Nodes
<1>3. CASE AtTable(c, asked, y)
  BY <1>3, RealmParts DEF AtTable, Nodes
<1>4. CASE AtColumn(c, asked, y)
  BY <1>4, RealmParts DEF AtColumn, Nodes
<1>5. CASE AtColumnType(c, asked, y)
  <2>1. TypedColumn(asked.before, y.c)
    BY <1>5, RealmParts DEF AtColumnType
  <2>2. Kid(y.c, "type").is = "object"
    BY <2>1 DEF TypedColumn
  <2>3. QED
    BY <1>5, <2>2 DEF AtColumnType, KidNodes, Nodes, Definition
<1>6. CASE AtType(c, asked, y)
  <2>1. TypedColumn(asked.before, y.c)
    BY <1>6, RealmParts DEF AtType
  <2>2. TypeOf(asked.before, y.c).is = "object"
    BY <2>1 DEF TypedColumn, TypeOf
  <2>3. QED
    BY <1>6, <2>2 DEF AtType, Nodes
<1>7. QED
  BY <1>1, <1>2, <1>3, <1>4, <1>5, <1>6

LEMMA KidOnChain ==
  ASSUME IsDdl, IsDocument(asked.before), IsDocument(asked.after),
         IsRealm(asked.before), IsRealm(asked.after),
         NEW c, GoodParent(c, asked), OnChain(c, asked), NEW key \in DOMAIN MappingData(c).mapped,
         NEW i, i = MappedKid(c, key, MappingData(c).mapped[key])
  PROVE  OnChain(i, asked)
<1>1. PICK to : to = MappingData(c).mapped[key]
  OBVIOUS
<1>2. c.before.node.is = "object" => to = key
  BY <1>1, MappingContract
<1>3. IsKid(i, c, key, to)
  BY <1>1, <1>2, KidsAre
<1>4. c.rules.lazy = None /\ IsContainer(c.before.node)
  BY DEF GoodParent
<1>5. CASE IsCalm(c.rules)
  <2>1. IsCalm(i.rules)
    BY <1>3, <1>5, KidRulesAreTables DEF IsKid
  <2>2. QED
    BY <2>1 DEF OnChain
<1>6. CASE \E y : OnWay(c, asked, y)
  <2>1. PICK y : OnWay(c, asked, y)
    BY <1>6
  <2>2. CASE AtRealm(c, asked, y)
    <3>1. to = key
      BY <1>2, <2>2, ObjectsOnWay
    <3>2. QED
      BY <1>3, <2>2, <3>1, BelowRealm
  <2>3. CASE AtSchema(c, asked, y)
    <3>1. to = key
      BY <1>2, <2>3, ObjectsOnWay
    <3>2. QED
      BY <1>3, <2>3, <3>1, BelowSchema
  <2>4. CASE AtTable(c, asked, y)
    <3>1. to = key
      BY <1>2, <2>4, ObjectsOnWay
    <3>2. Like(c.rules, tableRules)
      BY <1>4, <2>4, TablesNamed DEF AtTable
    <3>3. QED
      BY <1>3, <2>4, <3>1, <3>2, BelowTable
  <2>5. CASE AtColumn(c, asked, y) \/ AtColumnType(c, asked, y)
    <3>1. to = key
      BY <1>2, <2>5, ObjectsOnWay
    <3>2. QED
      BY <1>3, <2>5, <3>1, BelowColumn
  <2>6. CASE AtType(c, asked, y)
    <3>1. to = key
      BY <1>2, <2>6, ObjectsOnWay
    <3>2. TypeLike(c.rules)
      BY <1>4, <2>6, TablesNamed DEF AtType
    <3>3. QED
      BY <1>3, <2>6, <3>1, <3>2, BelowType
  <2>7. CASE AtSchemas(c, asked, y)
    BY <1>1, <1>3, <2>7, BelowSchemas
  <2>8. CASE AtTables(c, asked, y)
    BY <1>1, <1>3, <2>8, BelowTables
  <2>9. CASE AtColumns(c, asked, y)
    BY <1>1, <1>3, <2>9, BelowColumns
  <2>10. ~AtTypeName(c, asked, y)
    BY <1>4, NamesAreLeaves DEF AtTypeName
  <2>11. QED
    BY <2>1, <2>2, <2>3, <2>4, <2>5, <2>6, <2>7, <2>8, <2>9, <2>10 DEF OnWay
<1>7. CASE AtObjects(c, asked)
  BY <1>1, <1>3, <1>7, BelowObjects
<1>8. CASE AtObject(c)
  <2>1. readKind(c.before.node) = "EnumType" /\ TypeLike(c.rules)
    BY <1>4, <1>8, TablesNamed DEF AtObject
  <2>2. c.before.node.is = "object"
    BY <1>8, <2>1 DEF AtObject, PlainObject
  <2>3. QED
    BY <1>2, <1>3, <1>8, <2>1, <2>2, BelowObject
<1>9. ~AtObjectName(c)
  BY <1>4, NamesAreLeaves DEF AtObjectName
<1>10. QED
  BY <1>5, <1>6, <1>7, <1>8, <1>9 DEF OnChain

-----------------------------------------------------------------------------
(***************************************************************************)
(* Verdicts.                                                               *)
(***************************************************************************)
LEMMA VerdictsAre ==
  ASSUME IsDdl, NEW c, NEW action
  PROVE  /\ c.rules.classify \in Calm => Verdict(c, action) # "breaking"
         /\ c.rules.classify \in ClassifyNames => Verdict(c, "add") # "breaking"
         /\ c.rules.classify = "typeNameClassifier" /\ Verdict(c, "replace") = "breaking" =>
              ~sameConsumptionFamily(c.before.above[1], c.after.above[1])
<1>1. /\ SlotOf(action) \in {1, 2, 3} /\ SlotOf("add") = 1 /\ SlotOf("replace") = 3
  BY DEF SlotOf
<1>2. \A a : Verdict(c, a) = ddlClassifyRuleOf(c.rules.classify, c)[SlotOf(a)]
  BY DEF Verdict, IsDdl
<1>3. \A p, q, r : /\ ThreeSlots(p, q, r)[1] = p /\ ThreeSlots(p, q, r)[2] = q
                   /\ ThreeSlots(p, q, r)[3] = r
  BY DEF ThreeSlots
<1>4. /\ ddlClassifyRules.allNonBreaking = ThreeSlots("nonBreaking", "nonBreaking", "nonBreaking")
      /\ ddlClassifyRules.allAnnotation = ThreeSlots("annotation", "annotation", "annotation")
      /\ ddlClassifyRules.allUnclassified = ThreeSlots("unclassified", "unclassified", "unclassified")
      /\ ddlClassifyRules.addNonBreaking = ThreeSlots("nonBreaking", "breaking", "breaking")
  BY DEF ddlClassifyRules, allUnclassified
<1>5. \A name \in Calm : \A n \in {1, 2, 3} : ddlClassifyRuleOf(name, c)[n] # "breaking"
  BY <1>3, <1>4 DEF Calm, ddlClassifyRuleOf
<1>6. /\ ddlClassifyRuleOf("addNonBreaking", c)[1] # "breaking"
      /\ ddlClassifyRuleOf("typeNameClassifier", c)[1] # "breaking"
      /\ ddlClassifyRuleOf("typeNameClassifier", c)[3]
           = breakingIf(~sameConsumptionFamily(c.before.above[1], c.after.above[1]))
  BY <1>3, <1>4 DEF ddlClassifyRuleOf, typeNameClassifier
<1>7. c.rules.classify \in Calm => Verdict(c, action) # "breaking"
  BY <1>1, <1>2, <1>5
<1>8. c.rules.classify \in ClassifyNames => Verdict(c, "add") # "breaking"
  BY <1>1, <1>2, <1>5, <1>6 DEF ClassifyNames
<1>9. c.rules.classify = "typeNameClassifier" /\ Verdict(c, "replace") = "breaking" =>
        ~sameConsumptionFamily(c.before.above[1], c.after.above[1])
  BY <1>1, <1>2, <1>6 DEF breakingIf
<1>10. QED
  BY <1>7, <1>8, <1>9

LEMMA CalmHeads ==
  ASSUME NEW r
  PROVE  /\ IsCalm(r) => r.classify \in Calm
         /\ IsTable(r) => r.classify \in ClassifyNames
BY DEF IsCalm, IsTable, Depth6, Heads

\* A difference is not breaking, or tells of a query that is lost.
Justified(x, d) == d.type = "breaking" => \E q \in Lost(x) : IsPrefix(PlaceOf(x, d), q)

\* The rules on the way that have a verdict that is breaking.
LEMMA CalmOnWay ==
  ASSUME IsDdl, NEW c, c.rules.lazy = None, OnChain(c, asked)
  PROVE  \/ c.rules.classify \in Calm
         \/ \E y : AtTable(c, asked, y) \/ AtColumn(c, asked, y) \/ AtTypeName(c, asked, y)
         \/ AtObjectName(c)
<1>1. CASE IsCalm(c.rules)
  BY <1>1, CalmHeads
<1>2. "allUnclassified" \in Calm
  BY DEF Calm
<1>3. SchemasRules.classify \in Calm /\ TablesRules.classify \in Calm /\ ColumnsRules.classify \in Calm
        /\ objectsArrayRule.classify \in Calm
  BY <1>2, EachRules DEF SchemasRules, TablesRules, ColumnsRules, objectsArrayRule
<1>4. /\ ddlRules.classify \in Calm /\ schemaRules.classify \in Calm /\ columnTypeRules.classify \in Calm
  BY <1>2 DEF ddlRules, schemaRules, columnTypeRules, Node
<1>5. CASE AtObjects(c, asked)
  BY <1>3, <1>5 DEF AtObjects
<1>6. CASE AtObject(c)
  BY <1>6, TablesNamed DEF AtObject, TypeLike
<1>7. CASE \E y : OnWay(c, asked, y)
  <2>1. PICK y : OnWay(c, asked, y)
    BY <1>7
  <2>2. CASE AtType(c, asked, y)
    BY <2>2, TablesNamed DEF AtType, TypeLike
  <2>3. CASE AtRealm(c, asked, y) \/ AtSchema(c, asked, y) \/ AtColumnType(c, asked, y)
    BY <1>4, <2>3 DEF AtRealm, AtSchema, AtColumnType, Like
  <2>4. CASE AtSchemas(c, asked, y) \/ AtTables(c, asked, y) \/ AtColumns(c, asked, y)
    BY <1>3, <2>4 DEF AtSchemas, AtTables, AtColumns
  <2>5. QED
    BY <2>1, <2>2, <2>3, <2>4 DEF OnWay
<1>8. QED
  BY <1>1, <1>5, <1>6, <1>7 DEF OnChain

\* The pairs of tables, of columns and of names that are on the way.
LEMMA TablesKeepNames ==
  ASSUME IsDdl, IsDocument(asked.before), IsRealm(asked.before), IsRealm(asked.after), NEW y, NEW c,
         c.rules.lazy = None, AtTable(c, asked, y) \/ AtColumn(c, asked, y)
  PROVE  Renamed(c) = {} /\ ~Replaced(c)
<1>1. "ignoreKeyDifference" \in c.rules.flags
  BY DEF AtTable, AtColumn
<1>2. Renamed(c) = {}
  BY <1>1 DEF Renamed
<1>3. tableRules.compare = "default" /\ columnRules.compare = "default"
  BY DEF tableRules, columnRules, Node
<1>4. c.rules.compare = "default"
  BY <1>3, TablesNamed DEF AtTable, AtColumn, Like
<1>5. ~ReplacedAsWhole(c.rules.compare, c)
  BY <1>4 DEF IsDdl, ddlReplacedAsWhole
<1>6. c.before.node.is = "object"
  BY ObjectsOnWay
<1>7. c.after.node.is = "object"
  BY RealmParts DEF AtTable, AtColumn, Nodes
<1>8. QED
  BY <1>2, <1>5, <1>6, <1>7 DEF Replaced

LEMMA NamesReplaced ==
  ASSUME IsDdl, NEW c, NEW b, NEW a, NameOf(c, b, a)
  PROVE  /\ Renamed(c) = {}
         /\ Replaced(c) <=> Kid(b, "type").of # Kid(a, "type").of
         /\ c.rules.classify = "typeNameClassifier"
<1>1. Renamed(c) = {}
  BY DEF NameOf, Renamed
<1>2. c.rules.compare = "default" /\ c.rules.classify = "typeNameClassifier"
  BY DEF NameOf, TypeName, Leaf, Node
<1>3. ~ReplacedAsWhole(c.rules.compare, c)
  BY <1>2 DEF IsDdl, ddlReplacedAsWhole
<1>4. QED
  BY <1>1, <1>2, <1>3 DEF Replaced, NameOf, Nodes

\* What a path leads to in the realm before, from a table on.
LeadsTo(n, path, x, y) ==
  /\ Route(path, n, y.p, y.q, y.r) /\ n >= 4
  /\ Named(x.before.root, "schemas", y.p, y.s) /\ Named(y.s, "tables", y.q, y.t)
  /\ n >= 6 => Named(y.t, "columns", y.r, y.c)

\* The place of a difference is that of the item it is told of.
LEMMA PlacedAt ==
  ASSUME NEW x, NEW d, d.action # "add", NEW n, NEW y, LeadsTo(n, d.path, x, y)
  PROVE  /\ n = 4 => PlaceOf(x, d) = <<nameKey(y.s), nameKey(y.t)>>
         /\ n >= 6 => PlaceOf(x, d) = <<nameKey(y.s), nameKey(y.t), nameKey(y.c)>>
<1>1. PICK p, q, r, s, t, c : p = y.p /\ q = y.q /\ r = y.r /\ s = y.s /\ t = y.t /\ c = y.c
  OBVIOUS
<1>2. PICK path : path = d.path /\ Len(path) = n /\ n \in Nat
  BY DEF LeadsTo, Route
<1>3. /\ Route(path, n, p, q, r)
      /\ Named(x.before.root, "schemas", p, s) /\ Named(s, "tables", q, t)
      /\ n >= 6 => Named(t, "columns", r, c)
  BY <1>1, <1>2 DEF LeadsTo
<1>4. CASE n = 4
  <2>1. path[1] = "schemas" /\ path[2] = p /\ path[3] = "tables" /\ path[4] = q
    BY <1>3, <1>4 DEF Route
  <2>2. ~(Len(path) < 2) /\ ~(Len(path) < 4) /\ Len(path) < 6
    BY <1>2, <1>4
  <2>3. PlaceOf(x, d) = <<nameKey(s), nameKey(t)>>
    BY <1>2, <1>3, <2>1, <2>2 DEF PlaceOf, Named
  <2>4. QED
    BY <1>1, <1>4, <2>3
<1>5. CASE n >= 6
  <2>1. /\ path[1] = "schemas" /\ path[2] = p /\ path[3] = "tables" /\ path[4] = q
        /\ path[5] = "columns" /\ path[6] = r
    BY <1>2, <1>3, <1>5 DEF Route
  <2>2. ~(Len(path) < 2) /\ ~(Len(path) < 4) /\ ~(Len(path) < 6)
    BY <1>2, <1>5
  <2>3. PlaceOf(x, d) = <<nameKey(s), nameKey(t), nameKey(c)>>
    BY <1>2, <1>3, <1>5, <2>1, <2>2 DEF PlaceOf, Named
  <2>4. QED
    BY <1>1, <1>5, <2>3
<1>6. QED
  BY <1>4, <1>5

\* Where a pair is met.
LEMMA MetJustified ==
  ASSUME IsDdl, IsDocument(asked.before), IsRealm(asked.before), IsRealm(asked.after),
         NEW c, GoodItem(c, asked), c.rules.lazy = None, OnChain(c, asked), NEW d,
         d \in Renamed(c) \cup (IF Replaced(c) THEN {DiffOf(c, "replace")} ELSE {})
  PROVE  Justified(asked, d)
<1>1. PICK action : d = DiffOf(c, action) /\ action \in {"rename", "replace"}
  BY DEF Renamed
<1>2. DiffIs(d, c, action)
  BY <1>1, DiffsOfItems DEF GoodItem
<1>3. CASE c.rules.classify \in Calm
  BY <1>2, <1>3, VerdictsAre DEF DiffIs, Justified
<1>4. CASE \E y : AtTable(c, asked, y) \/ AtColumn(c, asked, y)
  BY <1>4, TablesKeepNames
<1>5. CASE AtObjectName(c)
  BY <1>5, NamesReplaced DEF AtObjectName
<1>6. CASE \E y : AtTypeName(c, asked, y)
  <2>1. PICK y : AtTypeName(c, asked, y)
    BY <1>6
  <2>2. PICK b, a : b = TypeOf(asked.before, y.c) /\ a = TypeOf(asked.after, y.w)
    OBVIOUS
  <2>3. NameOf(c, b, a)
    BY <2>1, <2>2 DEF AtTypeName
  <2>4. Kid(b, "type").of # Kid(a, "type").of /\ d = DiffOf(c, "replace")
    BY <2>3, NamesReplaced
  <2>5. DiffIs(d, c, "replace")
    BY <2>4, DiffsOfItems DEF GoodItem
  <2>6. SUFFICES ASSUME d.type = "breaking" PROVE \E q \in Lost(asked) : IsPrefix(PlaceOf(asked, d), q)
    BY DEF Justified
  <2>7. ~sameConsumptionFamily(b, a)
    <3>1. ~sameConsumptionFamily(c.before.above[1], c.after.above[1])
      BY <2>3, <2>5, <2>6, NamesReplaced, VerdictsAre DEF DiffIs
    <3>2. QED
      BY <2>3, <3>1 DEF NameOf
  <2>8. Placed(9, c.path, asked, y)
    BY <2>1 DEF AtTypeName
  <2>9. TypedColumn(asked.before, y.c) /\ TypedColumn(asked.after, y.w)
    BY <2>8, RealmParts
  <2>10. PICK kb, ka : kb = Kid(Kid(y.c, "type"), "type") /\ ka = Kid(Kid(y.w, "type"), "type")
    OBVIOUS
  <2>11. /\ OperationFits(asked.before.defs, kb) /\ OperationFits(asked.after.defs, ka)
         /\ b = Definition(asked.before.defs, kb) /\ a = Definition(asked.after.defs, ka)
    BY <2>2, <2>9, <2>10 DEF TypedColumn, TypeOf
  <2>12. readTypeName(b) # readTypeName(a)
    BY <2>3, <2>4 DEF NameOf, readTypeName
  <2>13. OperationOf(asked.before.defs, kb) # OperationOf(asked.after.defs, ka)
    BY <2>7, <2>11, <2>12, OperationsDiffer
  <2>14. PICK op : op = OperationOf(asked.before.defs, kb)
    OBVIOUS
  <2>15. ColumnPair(asked, y.p, y.q, y.r, y.s, y.u, y.t, y.v, y.c, y.w)
    BY <2>8 DEF Placed
  <2>16. <<nameKey(y.s), nameKey(y.t)>> \o <<nameKey(y.c), op>> \in Lost(asked)
    BY <2>10, <2>13, <2>14, <2>15, OperationGone
  <2>17. PlaceOf(asked, d) = <<nameKey(y.s), nameKey(y.t), nameKey(y.c)>>
    <3>1. d.action # "add" /\ d.path = c.path
      BY <2>5 DEF DiffIs
    <3>2. PICK n : n = 9
      OBVIOUS
    <3>3. LeadsTo(n, d.path, asked, y) /\ n >= 6
      BY <2>8, <3>1, <3>2 DEF Placed, LeadsTo, ColumnPair, TablePair, SchemaPair
    <3>4. QED
      BY <3>1, <3>3, PlacedAt
  <2>18. QED
    BY <2>16, <2>17, PlacePrefixes
<1>7. QED
  BY <1>3, <1>4, <1>5, <1>6, CalmOnWay

-----------------------------------------------------------------------------
(***************************************************************************)
(* What is removed: a table or a column, or nothing that a query is of.    *)
(***************************************************************************)
\* Rules of a child that are one of a few.
LEMMA ResolvedCalm ==
  ASSUME IsDdl, NEW r, IsTable(r), NEW value, NEW path,
         IsCalm(r) \/ (r.lazy = None /\ r.classify = "allUnclassified")
  PROVE  Resolved(r, value, path).classify \in Calm
<1>1. CASE IsCalm(r)
  BY <1>1, ResolvedIsTable, CalmHeads
<1>2. CASE r.lazy = None /\ r.classify = "allUnclassified"
  BY <1>2, ResolvedIsTable DEF Calm
<1>3. QED
  BY <1>1, <1>2

\* What the rules of a child that is removed are, below what is no array of tables or columns.
LEMMA RemovedCalm ==
  ASSUME IsDdl, IsDocument(asked.before), IsDocument(asked.after), IsRealm(asked.before), IsRealm(asked.after),
         NEW c, GoodParent(c, asked), OnChain(c, asked), NEW key \in MappingData(c).removed,
         NEW k, k = RemovedKid(c, key)
  PROVE  \/ k.rules.classify \in Calm
         \/ \E y : AtTables(c, asked, y) \/ AtColumns(c, asked, y)
<1>1. PICK r, value : r = KidRules(c.rules, key) /\ value = Definition(asked.before.defs, Kid(c.before.node, key))
  OBVIOUS
<1>2. k.rules = Resolved(r, value, <<>>)
  BY <1>1, RemovedKids
<1>3. IsTable(r)
  BY <1>1, KidRulesAreTables DEF GoodParent, GoodItem
<1>4. CASE IsCalm(r)
  BY <1>2, <1>3, <1>4, ResolvedCalm
<1>5. CASE r.lazy = None /\ r.classify = "allUnclassified"
  BY <1>2, <1>3, <1>5, ResolvedCalm
<1>6. CASE IsCalm(c.rules)
  BY <1>1, <1>4, <1>6, KidRulesAreTables
<1>7. c.rules.lazy = None /\ IsContainer(c.before.node)
  BY DEF GoodParent
<1>8. /\ \A q \in {SchemasRules, TablesRules, ColumnsRules, objectsArrayRule} :
            q.lazy = None /\ q.classify = "allUnclassified"
  BY EachRules DEF SchemasRules, TablesRules, ColumnsRules, objectsArrayRule
<1>9. columnTypeRules.lazy = None /\ columnTypeRules.classify = "allUnclassified"
  BY DEF columnTypeRules, Node
<1>10. ASSUME NEW t, NEW to, NEW rules \in {SchemasRules, TablesRules, ColumnsRules}, Like(c.rules, t),
              WayAndObjects(t, to, rules)
       PROVE  k.rules.classify \in Calm
  <2>1. r = KidRules(t, key)
    BY <1>1, <1>10, LikeWays
  <2>2. IsCalm(r) \/ r = rules \/ r = objectsArrayRule
    BY <1>10, <2>1 DEF WayAndObjects
  <2>3. IsCalm(r) \/ (r.lazy = None /\ r.classify = "allUnclassified")
    BY <1>8, <1>10, <2>2
  <2>4. QED
    BY <1>2, <1>3, <2>3, ResolvedCalm
<1>11. "type" \in DOMAIN c.after.node.kids /\ TypeLike(c.rules) /\ c.before.node.is = "object"
          => k.rules.classify \in Calm
  <2>1. ASSUME "type" \in DOMAIN c.after.node.kids, TypeLike(c.rules), c.before.node.is = "object"
        PROVE  IsCalm(r)
    <3>1. key \notin DOMAIN c.after.node.kids
      <4>1. PICK m : m = MappingData(c)
        OBVIOUS
      <4>2. c.before.node.is = "object" =>
              m.removed = DOMAIN c.before.node.kids \ DOMAIN c.after.node.kids
        BY <4>1, MappingContract
      <4>3. QED
        BY <2>1, <4>1, <4>2
    <3>2. QED
      BY <1>1, <2>1, <3>1 DEF TypeLike, Way
  <2>2. QED
    BY <1>2, <1>3, <2>1, ResolvedCalm
<1>12. CASE \E y : OnWay(c, asked, y)
  <2>1. PICK y : OnWay(c, asked, y)
    BY <1>12
  <2>2. CASE AtRealm(c, asked, y)
    BY <1>10, <2>2, Ways DEF AtRealm
  <2>3. CASE AtSchema(c, asked, y)
    BY <1>10, <2>3, Ways DEF AtSchema
  <2>4. CASE AtTable(c, asked, y)
    <3>1. Like(c.rules, tableRules)
      BY <1>7, <2>4, TablesNamed DEF AtTable
    <3>2. QED
      BY <1>10, <3>1, Ways
  <2>5. CASE AtColumn(c, asked, y)
    <3>1. r = KidRules(columnRules, key)
      BY <1>1, <2>5, LikeWays DEF AtColumn
    <3>2. IsCalm(r) \/ r = columnTypeRules
      BY <3>1, Ways DEF Way
    <3>3. QED
      BY <1>4, <1>5, <1>9, <3>2
  <2>6. CASE AtColumnType(c, asked, y)
    <3>1. r = KidRules(columnTypeRules, key)
      BY <1>1, <2>6 DEF AtColumnType
    <3>2. IsCalm(r) \/ r = Lazy("schemaTypeRules")
      BY <3>1, Ways DEF Way
    <3>3. QED
      BY <1>2, <1>4, <3>2, TypesAre DEF TypeLike
  <2>7. CASE AtType(c, asked, y)
    <3>1. TypeLike(c.rules)
      BY <1>7, <2>7, TablesNamed DEF AtType
    <3>2. c.before.node.is = "object"
      BY <2>7, ObjectsOnWay
    <3>3. TypedColumn(asked.after, y.w)
      BY <2>7, RealmParts DEF AtType
    <3>4. Kid(TypeOf(asked.after, y.w), "type").is = "scalar"
      BY <3>3 DEF TypedColumn, TypeOf
    <3>5. Kid(c.after.node, "type").is = "scalar"
      BY <2>7, <3>4 DEF AtType, Nodes
    <3>6. "type" \in DOMAIN c.after.node.kids
      <4>1. Absent.is # "scalar"
        BY DEF Absent
      <4>2. QED
        BY <3>5, <4>1 DEF Kid, Has
    <3>7. QED
      BY <1>11, <3>1, <3>2, <3>6
  <2>8. CASE AtSchemas(c, asked, y)
    <3>1. r = asElement(schemaRules)
      BY <1>1, <2>8, EachRules DEF AtSchemas, SchemasRules
    <3>2. Like(r, schemaRules)
      BY <3>1, LikeElement, SchemaTables
    <3>3. schemaRules.lazy = None /\ schemaRules.classify = "allUnclassified"
      BY DEF schemaRules, Node
    <3>4. QED
      BY <1>5, <3>2, <3>3 DEF Like
  <2>9. ~AtTypeName(c, asked, y)
    BY <1>7, NamesAreLeaves DEF AtTypeName
  <2>10. QED
    BY <2>1, <2>2, <2>3, <2>4, <2>5, <2>6, <2>7, <2>8, <2>9 DEF OnWay
<1>13. CASE AtObjects(c, asked)
  <2>1. r = asElement(Lazy("objectRules")) /\ c.rules.mapping = "attrsMappingResolver"
    BY <1>1, <1>13, EachRules DEF AtObjects, objectsArrayRule
  <2>2. PICK n : n = c.before.node
    OBVIOUS
  <2>3. n.is = "array"
    BY <2>1, <2>2 DEF GoodParent, GoodItem, ArraysFit, IsContainer
  <2>4. key \in DOMAIN n.kids
    <3>1. EachKeyOnce(MappingData(c), DOMAIN n.kids, DOMAIN c.after.node.kids)
      BY <2>2, MappingContract
    <3>2. QED
      BY <3>1 DEF EachKeyOnce
  <2>5. value = Definition(asked.before.defs, n.kids[key])
    BY <1>1, <2>2, <2>3, <2>4, NodesOfParents, ElementIs
  <2>6. PlainObject(value)
    BY <1>13, <2>2, <2>4, <2>5 DEF AtObjects
  <2>7. IsCalm(k.rules) \/ TypeLike(k.rules)
    BY <1>2, <2>1, <2>6, TypesAre DEF PlainObject
  <2>8. QED
    BY <2>7, CalmHeads DEF TypeLike
<1>14. CASE AtObject(c)
  <2>1. readKind(c.before.node) = "EnumType" /\ TypeLike(c.rules)
    BY <1>7, <1>14, TablesNamed DEF AtObject
  <2>2. c.before.node.is = "object" /\ Has(c.after.node, "type")
    BY <1>14, <2>1, EnumsPaired DEF AtObject, PlainObject
  <2>3. QED
    BY <1>11, <2>1, <2>2 DEF Has
<1>15. ~AtObjectName(c)
  BY <1>7, NamesAreLeaves DEF AtObjectName
<1>16. QED
  BY <1>6, <1>12, <1>13, <1>14, <1>15 DEF OnChain

LEMMA TableLeft ==
  ASSUME IsDdl, IsDocument(asked.before), IsDocument(asked.after), IsRealm(asked.before), IsRealm(asked.after),
         NEW y, NEW c, AtTables(c, asked, y), GoodParent(c, asked), NEW key \in MappingData(c).removed,
         NEW d, d.action # "add", d.path = Append(c.path, key)
  PROVE  Justified(asked, d)
<1>1. PICK p, q, r, s, u, m : p = y.p /\ q = y.q /\ r = y.r /\ s = y.s /\ u = y.u /\ m = MappingData(c)
  OBVIOUS
<1>2. PICK eb, ea : eb = Elements(s, "tables") /\ ea = Elements(u, "tables")
  OBVIOUS
<1>3. c.rules.mapping = "nameMappingResolver"
  BY EachRules DEF AtTables, TablesRules
<1>4. NamedOnce(s, "tables") /\ NamedOnce(u, "tables")
  BY <1>1, RealmParts DEF AtTables
<1>5. /\ c.before.node = Definition(asked.before.defs, Kid(s, "tables"))
      /\ c.after.node = Definition(asked.after.defs, Kid(u, "tables"))
  BY <1>1 DEF AtTables, KidNodes, Nodes
<1>6. key \in DOMAIN eb /\ \A f \in ElementsOf(ea) : nameKey(f) # nameKey(eb[key])
  BY <1>1, <1>2, <1>3, <1>4, <1>5, NamesPaired
<1>7. PICK t : t = eb[key]
  OBVIOUS
<1>8. SchemaPair(asked, p, s, u) /\ Route(c.path, 3, p, q, r)
  BY <1>1 DEF AtTables, Placed
<1>9. <<nameKey(s), nameKey(t)>> \in Lost(asked)
  <2>1. t \in ElementsOf(Elements(s, "tables"))
    BY <1>2, <1>6, <1>7 DEF ElementsOf
  <2>2. \A v \in ElementsOf(Elements(u, "tables")) : nameKey(v) # nameKey(t)
    BY <1>2, <1>6, <1>7
  <2>3. QED
    BY <1>8, <2>1, <2>2, TableGone
<1>10. PICK z : z = [p |-> p, q |-> key, r |-> 0, s |-> s, t |-> t]
  OBVIOUS
<1>11. z.p = p /\ z.q = key /\ z.s = s /\ z.t = t
  BY <1>10
<1>12. PICK j : j = z.r
  OBVIOUS
<1>13. Route(Append(c.path, key), 3 + 1, p, key, j)
  BY <1>8, RouteGrows
<1>14. PICK n : n = 4
  OBVIOUS
<1>15. Route(d.path, n, z.p, z.q, z.r)
  BY <1>11, <1>12, <1>13, <1>14
<1>16. LeadsTo(n, d.path, asked, z)
  <2>1. Named(asked.before.root, "schemas", z.p, z.s)
    BY <1>8, <1>11 DEF SchemaPair
  <2>2. Named(z.s, "tables", z.q, z.t)
    BY <1>2, <1>6, <1>7, <1>11 DEF Named
  <2>3. QED
    BY <1>14, <1>15, <2>1, <2>2 DEF LeadsTo
<1>17. PlaceOf(asked, d) = <<nameKey(s), nameKey(t)>>
  BY <1>11, <1>14, <1>16, PlacedAt
<1>18. QED
  BY <1>9, <1>17, PlacePrefixes DEF Justified

LEMMA ColumnLeft ==
  ASSUME IsDdl, IsDocument(asked.before), IsDocument(asked.after), IsRealm(asked.before), IsRealm(asked.after),
         NEW y, NEW c, AtColumns(c, asked, y), GoodParent(c, asked), NEW key \in MappingData(c).removed,
         NEW d, d.action # "add", d.path = Append(c.path, key)
  PROVE  Justified(asked, d)
<1>1. PICK p, q, r, s, u, t, v, m :
        /\ p = y.p /\ q = y.q /\ r = y.r /\ s = y.s /\ u = y.u /\ t = y.t /\ v = y.v
        /\ m = MappingData(c)
  OBVIOUS
<1>2. PICK eb, ea : eb = Elements(t, "columns") /\ ea = Elements(v, "columns")
  OBVIOUS
<1>3. c.rules.mapping = "nameMappingResolver"
  BY EachRules DEF AtColumns, ColumnsRules
<1>4. NamedOnce(t, "columns") /\ NamedOnce(v, "columns")
  BY <1>1, RealmParts DEF AtColumns
<1>5. /\ c.before.node = Definition(asked.before.defs, Kid(t, "columns"))
      /\ c.after.node = Definition(asked.after.defs, Kid(v, "columns"))
  BY <1>1 DEF AtColumns, KidNodes, Nodes
<1>6. key \in DOMAIN eb /\ \A f \in ElementsOf(ea) : nameKey(f) # nameKey(eb[key])
  BY <1>1, <1>2, <1>3, <1>4, <1>5, NamesPaired
<1>7. PICK k : k = eb[key]
  OBVIOUS
<1>8. TablePair(asked, p, q, s, u, t, v) /\ Route(c.path, 5, p, q, r)
  BY <1>1 DEF AtColumns, Placed
<1>9. <<nameKey(s), nameKey(t)>> \o <<nameKey(k)>> \in Lost(asked)
  <2>1. k \in ElementsOf(Elements(t, "columns"))
    BY <1>2, <1>6, <1>7 DEF ElementsOf
  <2>2. \A w \in ElementsOf(Elements(v, "columns")) : nameKey(w) # nameKey(k)
    BY <1>2, <1>6, <1>7
  <2>3. QED
    BY <1>8, <2>1, <2>2, ColumnGone
<1>10. PICK z : z = [p |-> p, q |-> q, r |-> key, s |-> s, t |-> t, c |-> k]
  OBVIOUS
<1>11. z.p = p /\ z.q = q /\ z.r = key /\ z.s = s /\ z.t = t /\ z.c = k
  BY <1>10
<1>12. Route(Append(c.path, key), 6, p, q, key)
  BY <1>8, RouteToColumn
<1>13. PICK n : n = 6
  OBVIOUS
<1>14. Route(d.path, n, z.p, z.q, z.r)
  BY <1>11, <1>12, <1>13
<1>15. LeadsTo(n, d.path, asked, z)
  <2>1. Named(asked.before.root, "schemas", z.p, z.s) /\ Named(z.s, "tables", z.q, z.t)
    BY <1>8, <1>11 DEF TablePair, SchemaPair
  <2>2. Named(z.t, "columns", z.r, z.c)
    BY <1>2, <1>6, <1>7, <1>11 DEF Named
  <2>3. QED
    BY <1>13, <1>14, <2>1, <2>2 DEF LeadsTo
<1>16. PlaceOf(asked, d) = <<nameKey(s), nameKey(t), nameKey(k)>>
  <2>1. n >= 6 => PlaceOf(asked, d) = <<nameKey(z.s), nameKey(z.t), nameKey(z.c)>>
    BY <1>15, PlacedAt
  <2>2. n >= 6
    BY <1>13
  <2>3. QED
    BY <1>11, <2>1, <2>2
<1>17. QED
  <2>1. PICK a, b, l : a = nameKey(s) /\ b = nameKey(t) /\ l = nameKey(k)
    OBVIOUS
  <2>2. IsPrefix(<<a, b, l>>, <<a, b>> \o <<l>>)
    BY PlacePrefixes
  <2>3. QED
    BY <1>9, <1>16, <2>1, <2>2 DEF Justified

\* The children that only one side has.
LEMMA LeftJustified ==
  ASSUME IsDdl, IsDocument(asked.before), IsDocument(asked.after), IsRealm(asked.before), IsRealm(asked.after),
         NEW c, GoodParent(c, asked), OnChain(c, asked), NEW removed, removed = MappingData(c).removed,
         NEW added, NEW d \in Removals(c, removed) \cup Additions(c, added)
  PROVE  Justified(asked, d)
<1>1. CASE d \in Removals(c, removed)
  <2>1. PICK key \in removed : DiffIs(d, RemovedKid(c, key), "remove")
    BY <1>1, LoneDiffs
  <2>2. PICK k : k = RemovedKid(c, key)
    OBVIOUS
  <2>3. k.path = Append(c.path, key)
    BY <2>2, RemovedKids
  <2>4. d.action # "add" /\ d.path = Append(c.path, key) /\ d.type = Verdict(k, "remove")
    BY <2>1, <2>2, <2>3 DEF DiffIs
  <2>5. CASE k.rules.classify \in Calm
    BY <2>4, <2>5, VerdictsAre DEF Justified
  <2>6. CASE \E y : AtTables(c, asked, y)
    BY <2>4, <2>6, TableLeft
  <2>7. CASE \E y : AtColumns(c, asked, y)
    BY <2>4, <2>7, ColumnLeft
  <2>8. QED
    BY <2>2, <2>5, <2>6, <2>7, RemovedCalm
<1>2. CASE d \in Additions(c, added)
  <2>1. PICK key \in added : DiffIs(d, AddedKid(c, key), "add")
    BY <1>2, LoneDiffs
  <2>2. PICK k : k = AddedKid(c, key)
    OBVIOUS
  <2>3. k.rules.classify \in ClassifyNames
    BY <2>2, AddedKids, CalmHeads
  <2>4. d.type = Verdict(k, "add")
    BY <2>1, <2>2 DEF DiffIs
  <2>5. QED
    BY <2>3, <2>4, VerdictsAre DEF Justified
<1>3. QED
  BY <1>1, <1>2

-----------------------------------------------------------------------------
(***************************************************************************)
(* The crawl: what is still to be entered is on the way or calm, and what  *)
(* is told is justified.                                                   *)
(***************************************************************************)
ChainInv == \A n \in DOMAIN todo : OnChain(todo[n], asked)
JustInv == \A d \in diffs : Justified(asked, d)

RealmsGiven == \A x \in Input : IsRealm(x.before) /\ IsRealm(x.after)

LEMMA ChainInit ==
  ASSUME IsDdl, DocumentsGiven, RealmsGiven, Init
  PROVE  ChainInv /\ JustInv /\ IsRealm(asked.before) /\ IsRealm(asked.after)
<1>1. asked \in Input /\ todo = <<Start(asked)>> /\ diffs = {}
  BY DEF Init
<1>2. IsRealm(asked.before) /\ IsRealm(asked.after) /\ IsDocument(asked.before) /\ IsDocument(asked.after)
  BY <1>1 DEF DocumentsGiven, RealmsGiven
<1>3. PICK i : i = Start(asked)
  OBVIOUS
<1>4. PICK b, a, ks, path, r : /\ b = RootSide(asked.before) /\ a = RootSide(asked.after)
                               /\ ks = <<<<"#", "#">>>> /\ path = <<>> /\ r = ddlRules
  OBVIOUS
<1>5. i = [rules |-> r, before |-> b, after |-> a, keys |-> ks, scope |-> "root",
           path |-> path, entered |-> FALSE]
  BY <1>3, <1>4 DEF Start, Item, IsDdl
<1>6. i.rules = r /\ i.before = b /\ i.after = a /\ i.path = path
  BY <1>5
<1>7. asked.before.root.is = "object" /\ asked.after.root.is = "object"
  <2>1. /\ DocumentOf(asked.before, NodesOf(asked.before)[1], NodesOf(asked.before)[2])
        /\ DocumentOf(asked.after, NodesOf(asked.after)[1], NodesOf(asked.after)[2])
    BY <1>2, NodesAreThere
  <2>2. QED
    BY <2>1 DEF DocumentOf
<1>8. \A d : d.root.is = "object" => RootSide(d).node = d.root
  BY DEF RootSide, Side
<1>9. Nodes(i, asked.before.root, asked.after.root)
  BY <1>4, <1>6, <1>7, <1>8 DEF Nodes
<1>10. PICK y : y = [p |-> 0, q |-> 0, r |-> 0]
  OBVIOUS
<1>11. Placed(0, path, asked, y)
  <2>1. path \in Seq({}) /\ Len(path) = 0
    BY <1>4
  <2>2. Route(path, 0, y.p, y.q, y.r)
    BY <2>1 DEF Route, IsSequence
  <2>3. QED
    BY <2>2 DEF Placed
<1>12. AtRealm(i, asked, y)
  BY <1>4, <1>6, <1>9, <1>11 DEF AtRealm, Like
<1>13. OnChain(i, asked)
  BY <1>12 DEF OnChain, OnWay
<1>14. \A n \in DOMAIN todo : todo[n] = i
  BY <1>1, <1>3
<1>15. ChainInv
  BY <1>13, <1>14 DEF ChainInv
<1>16. JustInv
  BY <1>1 DEF JustInv
<1>17. QED
  BY <1>2, <1>15, <1>16

\* The head of the crawl is on the way.
LEMMA CurrentOnChain ==
  ASSUME IsDdl, CrawlInv, ChainInv, NEW c \in Current
  PROVE  OnChain(c, asked)
<1>1. todo # <<>>
  BY CurrentIsGood
<1>2. 1 \in DOMAIN todo /\ Head(todo) = todo[1]
  BY <1>1 DEF CrawlInv, IsSequence
<1>3. OnChain(Head(todo), asked)
  BY <1>2 DEF ChainInv
<1>4. CASE c.entered
  BY <1>3, <1>4, CurrentIsGood
<1>5. CASE ~c.entered
  <2>1. GoodItem(Head(todo), asked) /\ ~Head(todo).entered /\ c = Context(Head(todo))
    BY <1>5, CurrentIsGood
  <2>2. QED
    BY <1>3, <2>1, ChainOfContext
<1>6. QED
  BY <1>4, <1>5

LEMMA ChainStep ==
  ASSUME IsDdl, CrawlInv, ChainInv, IsDocument(asked.before), IsDocument(asked.after),
         IsRealm(asked.before), IsRealm(asked.after), [Next]_vars
  PROVE  ChainInv'
<1>1. asked' = asked
  BY CrawlStep
<1>2. CASE UNCHANGED vars
  BY <1>2 DEF vars, ChainInv
<1>3. ASSUME NEW c \in Current, Ignore(c) \/ Reuse(c) \/ Settle(c) \/ Leave(c) PROVE ChainInv'
  <2>1. todo' = Tail(todo) /\ todo # <<>>
    BY <1>3, CurrentIsGood DEF Ignore, Reuse, Settle, Leave
  <2>2. \A n \in DOMAIN Tail(todo) : \E m \in DOMAIN todo : m # 1 /\ Tail(todo)[n] = todo[m]
    BY <2>1, TailIsGood
  <2>3. QED
    BY <1>1, <2>1, <2>2 DEF ChainInv
<1>4. ASSUME NEW c \in Current, Enter(c) PROVE ChainInv'
  <2>1. ~c.entered /\ ~Replaced(c) /\ IsContainer(c.before.node)
    BY <1>4 DEF Enter, Fresh
  <2>2. PICK mapped : mapped = MappingData(c).mapped
    OBVIOUS
  <2>3. PICK e : /\ e = [c EXCEPT !.entered = TRUE] /\ e.rules = c.rules
                 /\ e.before = c.before /\ e.after = c.after /\ e.keys = c.keys /\ e.path = c.path
    BY <2>1, EnteredIsGood
  <2>4. GoodParent(c, asked)
    BY <2>1, EnteredIsGood
  <2>5. OnChain(c, asked)
    BY CurrentOnChain
  <2>6. OnChain(e, asked)
    BY <2>3, <2>5, SameChain
  <2>7. \A key \in DOMAIN mapped : OnChain(MappedKid(c, key, mapped[key]), asked)
    BY <2>2, <2>4, <2>5, KidOnChain
  <2>8. \A n \in DOMAIN todo' :
              \/ \E key \in DOMAIN mapped : todo'[n] = MappedKid(c, key, mapped[key])
              \/ todo'[n] = e
              \/ \E m \in DOMAIN todo : m # 1 /\ todo'[n] = todo[m]
    BY <1>4, <2>2, <2>3, EnteredCrawl
  <2>9. QED
    BY <1>1, <2>6, <2>7, <2>8 DEF ChainInv
<1>5. QED
  BY <1>2, <1>3, <1>4 DEF Next

LEMMA JustStep ==
  ASSUME IsDdl, CrawlInv, ChainInv, JustInv, IsDocument(asked.before), IsDocument(asked.after),
         IsRealm(asked.before), IsRealm(asked.after), [Next]_vars
  PROVE  JustInv'
<1>1. asked' = asked
  BY CrawlStep
<1>2. CASE UNCHANGED vars
  BY <1>2 DEF vars, JustInv
<1>3. ASSUME NEW c \in Current, Ignore(c) \/ Reuse(c) PROVE JustInv'
  BY <1>1, <1>3 DEF Ignore, Reuse, JustInv
<1>4. ASSUME NEW c \in Current, Settle(c) \/ Enter(c) PROVE JustInv'
  <2>1. PICK D : D = Renamed(c) \cup (IF Replaced(c) THEN {DiffOf(c, "replace")} ELSE {})
    OBVIOUS
  <2>2. ~c.entered /\ diffs' \subseteq diffs \cup D
    BY <1>4, <2>1 DEF Settle, Enter, Fresh
  <2>3. GoodItem(c, asked) /\ c.rules.lazy = None
    BY <2>2, CurrentIsGood
  <2>4. OnChain(c, asked)
    BY CurrentOnChain
  <2>5. \A d \in D : Justified(asked, d)
    BY <2>1, <2>3, <2>4, MetJustified
  <2>6. QED
    BY <1>1, <2>2, <2>5 DEF JustInv
<1>5. ASSUME NEW c \in Current, Leave(c) PROVE JustInv'
  <2>1. GoodParent(c, asked)
    BY <1>5, CurrentIsGood DEF Leave
  <2>2. PICK removed, added : removed = MappingData(c).removed /\ added = MappingData(c).added
    OBVIOUS
  <2>3. diffs' = diffs \cup Removals(c, removed) \cup Additions(c, added)
    BY <1>5, <2>2 DEF Leave
  <2>4. OnChain(c, asked)
    BY CurrentOnChain
  <2>5. \A d \in Removals(c, removed) \cup Additions(c, added) : Justified(asked, d)
    BY <2>1, <2>2, <2>4, LeftJustified
  <2>6. QED
    BY <1>1, <2>3, <2>5 DEF JustInv
<1>6. QED
  BY <1>2, <1>3, <1>4, <1>5 DEF Next

(***************************************************************************)
(* No alarm without a loss: a breaking difference is told at a table or a  *)
(* column of which a query no longer runs (ddl.classify.ts:                *)
(* tableClassifier, columnClassifier, typeNameClassifier).                 *)
(***************************************************************************)
THEOREM AlarmsJustified ==
  ASSUME IsDdl, DocumentsGiven, RealmsGiven
  PROVE  Spec => []BreakingJustified
<1> DEFINE Inv == /\ CrawlInv /\ ChainInv /\ JustInv
                  /\ IsDocument(asked.before) /\ IsDocument(asked.after)
                  /\ IsRealm(asked.before) /\ IsRealm(asked.after)
<1>1. Init => Inv
  BY CrawlInit, ChainInit
<1>2. Inv /\ [Next]_vars => Inv'
  <2>1. SUFFICES ASSUME Inv, [Next]_vars PROVE Inv'
    OBVIOUS
  <2>2. CrawlInv' /\ asked' = asked
    BY <2>1, CrawlStep
  <2>3. ChainInv' /\ JustInv'
    BY <2>1, ChainStep, JustStep
  <2>4. QED
    BY <2>1, <2>2, <2>3
<1>3. Inv => BreakingJustified
  BY DEF BreakingJustified, Breaking, JustInv, Justified
<1>4. QED
  BY <1>1, <1>2, <1>3, PTL DEF Spec

-----------------------------------------------------------------------------
(***************************************************************************)
(* The first steps of a list of keys.                                      *)
(***************************************************************************)
UpTo(keys, m) == [n \in 1 .. m |-> keys[n]]

LEMMA UpToIs ==
  ASSUME NEW keys, NEW m \in Nat
  PROVE  /\ IsSequence(UpTo(keys, m)) /\ Len(UpTo(keys, m)) = m
         /\ \A n \in 1 .. m : UpTo(keys, m)[n] = keys[n]
         /\ UpTo(keys, 0) = <<>>
<1>1. PICK S : S = {keys[n] : n \in 1 .. m}
  OBVIOUS
<1>2. UpTo(keys, m) \in [1 .. m -> S]
  BY <1>1 DEF UpTo
<1>3. UpTo(keys, m) \in Seq(S) /\ Len(UpTo(keys, m)) = m
  BY <1>2
<1>4. UpTo(keys, 0) = <<>>
  BY DEF UpTo
<1>5. QED
  BY <1>3, <1>4 DEF IsSequence, UpTo

\* A list is appended to in one way only.
LEMMA AppendsDiffer ==
  ASSUME NEW s, NEW t, IsSequence(s), IsSequence(t), NEW e, NEW f
  PROVE  /\ Len(Append(s, e)) = Len(s) + 1
         /\ Append(s, e) = Append(t, f) => s = t /\ e = f
<1>1. PICK S, T : s \in Seq(S) /\ t \in Seq(T)
  BY DEF IsSequence
<1>2. PICK U : U = S \cup T \cup {e, f}
  OBVIOUS
<1>3. s \in Seq(U) /\ t \in Seq(U) /\ e \in U /\ f \in U
  BY <1>1, <1>2
<1>4. Len(Append(s, e)) = Len(s) + 1 /\ Len(Append(t, f)) = Len(t) + 1
  BY <1>3
<1>5. ASSUME Append(s, e) = Append(t, f) PROVE s = t /\ e = f
  <2>1. Len(s) = Len(t) /\ Len(s) \in Nat
    BY <1>3, <1>4, <1>5
  <2>2. \A n \in 1 .. Len(s) : s[n] = Append(s, e)[n] /\ t[n] = Append(t, f)[n]
    BY <1>3, <2>1
  <2>3. s = t
    BY <1>3, <1>5, <2>1, <2>2
  <2>4. Append(s, e)[Len(s) + 1] = e /\ Append(t, f)[Len(t) + 1] = f
    BY <1>3
  <2>5. QED
    BY <1>5, <2>1, <2>3, <2>4
<1>6. QED
  BY <1>4, <1>5

LEMMA UpToGrows ==
  ASSUME NEW keys, NEW m \in Nat \ {0}
  PROVE  UpTo(keys, m) = Append(UpTo(keys, m - 1), keys[m])
<1>1. PICK S : S = {keys[n] : n \in 1 .. m}
  OBVIOUS
<1>2. PICK k, s, t : k = m - 1 /\ s = UpTo(keys, k) /\ t = UpTo(keys, m)
  OBVIOUS
<1>3. k \in Nat /\ s \in [1 .. k -> S] /\ t \in [1 .. m -> S]
  BY <1>1, <1>2 DEF UpTo
<1>4. s \in Seq(S) /\ Len(s) = m - 1 /\ t \in Seq(S) /\ Len(t) = m /\ keys[m] \in S
  <2>1. \A f, n : n \in Nat /\ f \in [1 .. n -> S] => f \in Seq(S) /\ Len(f) = n
    OBVIOUS
  <2>2. s \in Seq(S) /\ Len(s) = k /\ t \in Seq(S) /\ Len(t) = m
    BY <1>3, <2>1
  <2>3. keys[m] \in S
    BY <1>1
  <2>4. QED
    BY <1>2, <2>2, <2>3
<1>5. Append(s, keys[m]) \in Seq(S) /\ Len(Append(s, keys[m])) = m
  BY <1>4
<1>6. \A n \in 1 .. m : t[n] = Append(s, keys[m])[n]
  <2>1. ASSUME NEW n \in 1 .. m PROVE t[n] = Append(s, keys[m])[n]
    <3>1. n \in 1 .. m - 1 => Append(s, keys[m])[n] = s[n] /\ s[n] = keys[n]
      BY <1>2, <1>4 DEF UpTo
    <3>2. Append(s, keys[m])[m] = keys[m]
      BY <1>4
    <3>3. t[n] = keys[n] /\ (n \in 1 .. m - 1 \/ n = m)
      BY <1>2 DEF UpTo
    <3>4. QED
      BY <3>1, <3>2, <3>3
  <2>2. QED
    BY <2>1
<1>7. t = Append(s, keys[m])
  BY <1>4, <1>5, <1>6
<1>8. QED
  BY <1>2, <1>7

\* One step back.
LEMMA UpToBack ==
  ASSUME NEW keys, NEW m \in Nat, NEW s, IsSequence(s), NEW e, Append(s, e) = UpTo(keys, m)
  PROVE  m # 0 /\ s = UpTo(keys, m - 1) /\ e = keys[m]
<1>1. Len(Append(s, e)) = Len(s) + 1 /\ Len(s) \in Nat
  BY AppendsDiffer DEF IsSequence
<1>2. m # 0
  BY <1>1, UpToIs
<1>3. PICK t : t = UpTo(keys, m - 1)
  OBVIOUS
<1>4. IsSequence(t)
  BY <1>2, <1>3, UpToIs
<1>5. Append(s, e) = Append(t, keys[m])
  BY <1>2, <1>3, UpToGrows
<1>6. QED
  BY <1>2, <1>3, <1>4, <1>5, AppendsDiffer

-----------------------------------------------------------------------------
(***************************************************************************)
(* The rules at every step from a realm to the name of a type, with no     *)
(* flag that hides anything.                                               *)
(***************************************************************************)
Free(r) == r.flags \subseteq {"ignoreKeyDifference"}

RungRules(m, r) ==
  /\ Free(r)
  /\ m = 0 => Like(r, ddlRules)
  /\ m = 1 => r = SchemasRules
  /\ m = 2 => Like(r, schemaRules)
  /\ m = 3 => r = TablesRules
  /\ m = 4 => r = asElement(Lazy("tableRules")) \/ Like(r, tableRules)
  /\ m = 5 => r = ColumnsRules
  /\ m = 6 => Like(r, columnRules)
  /\ m = 7 => r = columnTypeRules
  /\ m = 8 => r = Lazy("schemaTypeRules") \/ Like(r, scalarTypeRules) \/ Like(r, enumTypeRules)
  /\ m = 9 => r = TypeName

LEMMA TablesAreFree ==
  /\ \A c, kids : Free(Node(c, kids)) /\ Node(c, kids).flags = {}
  /\ \A r, resolver : Free(Each(r, resolver))
  /\ \A name : Free(Lazy(name)) /\ Lazy(name).flags = {} /\ IsTable(tableRules)
  /\ IsTable(Lazy("tableRules"))
  /\ \A r : IsTable(r) /\ Free(r) => Free(asElement(r))
  /\ \A kind : Free(schemaTypeRules(kind)) /\ schemaTypeRules(kind).flags = {}
<1>1. \A c, kids : Node(c, kids).flags = {}
  BY DEF Node
<1>2. ASSUME NEW r, NEW resolver PROVE Free(Each(r, resolver))
  <2>1. PICK a, kids : a = asElement(r) /\ kids = [any |-> a]
    OBVIOUS
  <2>2. Each(r, resolver) = Mapped(Node("allUnclassified", kids), resolver)
    BY <2>1 DEF Each
  <2>3. QED
    BY <2>2 DEF Free, Mapped, Node
<1>3. \A name : Lazy(name).flags = {}
  BY DEF Lazy, NoRules, Leaf, Node
<1>4. IsTable(Lazy("tableRules"))
  <2>1. "allUnclassified" \in ClassifyNames /\ "tableRules" \in LazyNames
    BY DEF ClassifyNames, Calm, LazyNames
  <2>2. Depth0(Lazy("tableRules"), ClassifyNames, LazyNames)
    BY <2>1, LazyDepth
  <2>3. \A t : Depth0(t, ClassifyNames, LazyNames) => Depth2(t, ClassifyNames, LazyNames)
    BY Deeper
  <2>4. QED
    BY <2>2, <2>3, Deeper DEF IsTable
<1>5. ASSUME NEW r, IsTable(r), Free(r) PROVE Free(asElement(r))
  <2>1. PICK more, q : more = {"ignoreKeyDifference"} /\ q = [r EXCEPT !.flags = @ \cup more]
    OBVIOUS
  <2>2. asElement(r) = q
    BY <2>1 DEF asElement, Flagged
  <2>3. Heads(r, ClassifyNames, LazyNames)
    BY <1>5 DEF IsTable, Depth6
  <2>4. q.flags = r.flags \cup more
    BY <2>1, <2>3, MoreFlags
  <2>5. QED
    BY <1>5, <2>1, <2>2, <2>4 DEF Free
<1>6. \A kind : schemaTypeRules(kind).flags = {}
  BY <1>1 DEF schemaTypeRules, scalarTypeRules, enumTypeRules, NoRules, Leaf
<1>7. IsTable(tableRules)
  BY SchemaTables
<1>8. QED
  BY <1>1, <1>2, <1>3, <1>4, <1>5, <1>6, <1>7 DEF Free

\* The key below a step, where it is not the index of an element.
KeyBelow(m, key) ==
  /\ m = 1 => key = "schemas"
  /\ m = 3 => key = "tables"
  /\ m = 5 => key = "columns"
  /\ m \in {7, 8, 9} => key = "type"

LEMMA TypeNames ==
  /\ KidRules(scalarTypeRules, "type") = TypeName
  /\ KidRules(enumTypeRules, "type") = TypeName
<1>1. PICK f : f = typeFieldRules
  OBVIOUS
<1>2. "type" \in DOMAIN f \ {"any"} /\ f["type"] = TypeName
  BY <1>1 DEF typeFieldRules, TypeName
<1>3. scalarTypeRules.kids = f
  BY <1>1 DEF scalarTypeRules, Node
<1>4. PICK v, more : /\ v = Flagged(Each(Leaf(enumValueClassifier), "enumValuesMappingResolver"), "ignoreAddRemove")
                     /\ more = [values |-> v, attrs |-> attrsArrayRule]
  OBVIOUS
<1>5. enumTypeRules.kids = Over(more, f)
  BY <1>1, <1>4 DEF enumTypeRules, Node
<1>6. "type" \notin DOMAIN more
  BY <1>4
<1>7. "type" \in DOMAIN Over(more, f) /\ Over(more, f)["type"] = f["type"]
  BY <1>2, <1>6 DEF Over
<1>8. QED
  BY <1>2, <1>3, <1>5, <1>7 DEF KidRules

LEMMA KidTables ==
  /\ KidRules(ddlRules, "schemas") = SchemasRules
  /\ KidRules(schemaRules, "tables") = TablesRules
  /\ KidRules(tableRules, "columns") = ColumnsRules
  /\ KidRules(columnRules, "type") = columnTypeRules
  /\ KidRules(columnTypeRules, "type") = Lazy("schemaTypeRules")
<1>1. \A c, kids : Node(c, kids).kids = kids
  BY DEF Node
<1>2. KidRules(ddlRules, "schemas") = SchemasRules
  <2>1. PICK s : s = SchemasRules
    OBVIOUS
  <2>2. ddlRules.kids = [schemas |-> s, attrs |-> attrsArrayRule, objects |-> objectsArrayRule]
    BY <1>1, <2>1 DEF ddlRules, SchemasRules
  <2>3. QED
    BY <2>1, <2>2 DEF KidRules
<1>3. KidRules(schemaRules, "tables") = TablesRules
  <2>1. PICK s : s = TablesRules
    OBVIOUS
  <2>2. schemaRules.kids = [tables |-> s, attrs |-> attrsArrayRule, objects |-> objectsArrayRule]
    BY <1>1, <2>1 DEF schemaRules, TablesRules
  <2>3. QED
    BY <2>1, <2>2 DEF KidRules
<1>4. KidRules(tableRules, "columns") = ColumnsRules
  <2>1. PICK c, i, f, kids :
          /\ c = ColumnsRules /\ i = Each(indexRules, "indexMappingResolver")
          /\ f = Each(foreignKeyRules, "foreignKeyMappingResolver")
          /\ kids = [columns |-> c, indexes |-> i, primaryKey |-> indexRules, foreignKeys |-> f,
                     attrs |-> attrsArrayRule, objects |-> objectsArrayRule]
    OBVIOUS
  <2>2. tableRules.kids = Suppressed(kids)
    BY <1>1, <2>1 DEF tableRules, ColumnsRules
  <2>3. "columns" \in DOMAIN kids /\ kids["columns"] = c
    BY <2>1
  <2>4. "columns" \in DOMAIN Suppressed(kids) /\ Suppressed(kids)["columns"] = c
    BY <2>3 DEF Suppressed, Over
  <2>5. QED
    BY <2>1, <2>2, <2>4 DEF KidRules
<1>5. KidRules(columnRules, "type") = columnTypeRules
  <2>1. columnRules.kids = [type |-> columnTypeRules, default |-> Lazy("exprRules"), attrs |-> attrsArrayRule]
    BY <1>1 DEF columnRules
  <2>2. QED
    BY <2>1 DEF KidRules
<1>6. KidRules(columnTypeRules, "type") = Lazy("schemaTypeRules")
  <2>1. columnTypeRules.kids
          = [type |-> Lazy("schemaTypeRules"), raw |-> SUPPRESS, null |-> Leaf("allNonBreaking")]
    BY <1>1 DEF columnTypeRules, nullabilityClassifier
  <2>2. QED
    BY <2>1 DEF KidRules
<1>7. QED
  BY <1>2, <1>3, <1>4, <1>5, <1>6

\* The rules of the next step.
LEMMA RungBelow ==
  ASSUME NEW m \in 1 .. 9, NEW r, RungRules(m - 1, r), r.lazy = None, NEW key, KeyBelow(m, key)
  PROVE  RungRules(m, KidRules(r, key))
<1>1. PICK q : q = KidRules(r, key)
  OBVIOUS
<1>2. \A t, l : Like(t, l) => KidRules(t, key) = KidRules(l, key)
  BY LikeWays
<1>3. \A t, resolver : KidRules(Each(t, resolver), key) = asElement(t)
  BY EachRules
<1>4. CASE m = 1
  <2>1. q = SchemasRules
    BY <1>1, <1>2, <1>4, KidTables DEF RungRules, KeyBelow
  <2>2. QED
    BY <1>1, <1>4, <2>1, TablesAreFree DEF RungRules, SchemasRules
<1>5. CASE m = 2
  <2>1. q = asElement(schemaRules)
    BY <1>1, <1>3, <1>5 DEF RungRules, SchemasRules
  <2>2. IsTable(schemaRules) /\ Free(schemaRules)
    BY SchemaTables, TablesAreFree DEF schemaRules
  <2>3. Free(q) /\ Like(q, schemaRules)
    BY <2>1, <2>2, TablesAreFree, LikeElement
  <2>4. QED
    BY <1>1, <1>5, <2>3 DEF RungRules
<1>6. CASE m = 3
  <2>1. q = TablesRules
    BY <1>1, <1>2, <1>6, KidTables DEF RungRules, KeyBelow
  <2>2. QED
    BY <1>1, <1>6, <2>1, TablesAreFree DEF RungRules, TablesRules
<1>7. CASE m = 4
  <2>1. q = asElement(Lazy("tableRules"))
    BY <1>1, <1>3, <1>7 DEF RungRules, TablesRules
  <2>2. Free(q)
    BY <2>1, TablesAreFree
  <2>3. QED
    BY <1>1, <1>7, <2>1, <2>2 DEF RungRules
<1>8. CASE m = 5
  <2>1. Like(r, tableRules)
    BY <1>8, TablesNamed DEF RungRules
  <2>2. q = ColumnsRules
    BY <1>1, <1>2, <1>8, <2>1, KidTables DEF KeyBelow
  <2>3. QED
    BY <1>1, <1>8, <2>2, TablesAreFree DEF RungRules, ColumnsRules
<1>9. CASE m = 6
  <2>1. q = asElement(columnRules)
    BY <1>1, <1>3, <1>9 DEF RungRules, ColumnsRules
  <2>2. IsTable(columnRules) /\ Free(columnRules)
    BY SchemaTables, TablesAreFree DEF columnRules
  <2>3. Free(q) /\ Like(q, columnRules)
    BY <2>1, <2>2, TablesAreFree, LikeElement
  <2>4. QED
    BY <1>1, <1>9, <2>3 DEF RungRules
<1>10. CASE m = 7
  <2>1. q = columnTypeRules
    BY <1>1, <1>2, <1>10, KidTables DEF RungRules, KeyBelow
  <2>2. Free(columnTypeRules)
    BY TablesAreFree DEF columnTypeRules
  <2>3. QED
    BY <1>1, <1>10, <2>1, <2>2 DEF RungRules
<1>11. CASE m = 8
  <2>1. q = Lazy("schemaTypeRules")
    BY <1>1, <1>11, KidTables DEF RungRules, KeyBelow
  <2>2. QED
    BY <1>1, <1>11, <2>1, TablesAreFree DEF RungRules
<1>12. CASE m = 9
  <2>1. Like(r, scalarTypeRules) \/ Like(r, enumTypeRules)
    BY <1>12, TablesNamed DEF RungRules
  <2>2. q = TypeName
    BY <1>1, <1>2, <1>12, <2>1, TypeNames DEF KeyBelow
  <2>3. Free(TypeName)
    BY TablesAreFree DEF TypeName, Leaf
  <2>4. QED
    BY <1>1, <1>12, <2>2, <2>3 DEF RungRules
<1>13. QED
  BY <1>4, <1>5, <1>6, <1>7, <1>8, <1>9, <1>10, <1>11, <1>12

KnownKind(n) == readKind(n) \in ScalarKinds \cup {"EnumType"}

\* The rules that a name stands for.
LEMMA RungResolved ==
  ASSUME IsDdl, NEW m \in 0 .. 9, NEW r, IsTable(r), RungRules(m, r), NEW value, m = 8 => KnownKind(value),
         NEW path
  PROVE  RungRules(m, Resolved(r, value, path)) /\ Resolved(r, value, path).lazy = None
<1>1. r.lazy = None => Resolved(r, value, path) = r
  BY NamedRules
<1>2. Resolved(r, value, path).lazy = None
  BY ResolvedIsTable
<1>3. ASSUME r.lazy # None, NEW found, found = ddlRulesOf(r, value, path), IsTable(found),
             r.flags \subseteq {"ignoreKeyDifference"}, found.flags = {}
      PROVE  Like(Resolved(r, value, path), found) /\ Free(Resolved(r, value, path))
  <2>1. PICK more, q : more = r.flags /\ q = [found EXCEPT !.flags = @ \cup more]
    OBVIOUS
  <2>2. Resolved(r, value, path) = q
    BY <1>3, <2>1 DEF Resolved, IsDdl
  <2>3. Heads(found, ClassifyNames, LazyNames)
    BY <1>3 DEF IsTable, Depth6
  <2>4. q.flags = found.flags \cup more
    BY <2>1, <2>3, MoreFlags
  <2>5. Like(Resolved(r, value, path), found)
    BY <1>3, LikeResolved
  <2>6. QED
    BY <1>3, <2>1, <2>2, <2>4, <2>5 DEF Free
<1>4. ASSUME m # 4, m # 8 PROVE r.lazy = None
  <2>1. \A t, resolver : Each(t, resolver).lazy = None
    BY EachRules
  <2>2. \A c, kids : Node(c, kids).lazy = None
    BY DEF Node
  <2>3. m \in {0, 1, 2, 3, 5, 6, 7, 9}
    BY <1>4
  <2>4. QED
    BY <2>1, <2>2, <2>3 DEF RungRules, Like, SchemasRules, TablesRules, ColumnsRules, TypeName, Leaf,
                            ddlRules, schemaRules, columnRules, columnTypeRules
<1>5. CASE m = 4 /\ r.lazy # None
  <2>1. tableRules.lazy = None /\ tableRules.flags = {}
    BY TablesAreFree DEF tableRules, Node
  <2>2. r = asElement(Lazy("tableRules"))
    BY <1>5, <2>1 DEF RungRules, Like
  <2>3. Like(r, Lazy("tableRules"))
    BY <2>2, TablesAreFree, LikeElement
  <2>4. Lazy("tableRules").lazy = "tableRules"
    BY DEF Lazy, NoRules, Leaf, Node
  <2>5. tableRules = ddlRulesOf(r, value, path)
    BY <2>3, <2>4 DEF ddlRulesOf, Like
  <2>6. Like(Resolved(r, value, path), tableRules) /\ Free(Resolved(r, value, path))
    BY <1>3, <1>5, <2>1, <2>5, SchemaTables DEF RungRules, Free
  <2>7. QED
    BY <1>2, <1>5, <2>6 DEF RungRules
<1>6. CASE m = 8 /\ r.lazy # None
  <2>1. scalarTypeRules.lazy = None /\ enumTypeRules.lazy = None
    BY DEF scalarTypeRules, enumTypeRules, Node
  <2>2. r = Lazy("schemaTypeRules")
    BY <1>6, <2>1 DEF RungRules, Like
  <2>3. r.lazy = "schemaTypeRules"
    BY <2>2 DEF Lazy, NoRules, Leaf, Node
  <2>4. PICK found : found = schemaTypeRules(readKind(value))
    OBVIOUS
  <2>5. found = ddlRulesOf(r, value, path)
    BY <2>3, <2>4 DEF ddlRulesOf
  <2>6. IsTable(found) /\ found.flags = {}
    BY <2>4, LateTables, TablesAreFree
  <2>7. Like(Resolved(r, value, path), found) /\ Free(Resolved(r, value, path))
    BY <1>3, <1>6, <2>5, <2>6 DEF RungRules, Free
  <2>8. found = scalarTypeRules \/ found = enumTypeRules
    BY <1>6, <2>4 DEF KnownKind, schemaTypeRules
  <2>9. QED
    BY <1>2, <1>6, <2>7, <2>8 DEF RungRules
<1>7. QED
  BY <1>1, <1>2, <1>4, <1>5, <1>6

-----------------------------------------------------------------------------
(***************************************************************************)
(* The steps of one side: z has the positions of a schema, a table and a   *)
(* column, and these.                                                      *)
(***************************************************************************)
KeysOn(z) == <<"schemas", z.p, "tables", z.q, "columns", z.r, "type", "type", "type">>

Climb(m, d, z) ==
  /\ Named(d.root, "schemas", z.p, z.s)
  /\ m >= 4 => Named(z.s, "tables", z.q, z.t)
  /\ m >= 6 => Named(z.t, "columns", z.r, z.c)

\* The node at a step, and its kind.
KindAt(m) == IF m \in {1, 3, 5} THEN "array" ELSE IF m = 9 THEN "scalar" ELSE "object"

IsAt(m, d, z, n) ==
  /\ n.is = KindAt(m)
  /\ m = 0 => n = d.root
  /\ m = 1 => n = Definition(d.defs, Kid(d.root, "schemas"))
  /\ m = 2 => n = z.s
  /\ m = 3 => n = Definition(d.defs, Kid(z.s, "tables"))
  /\ m = 4 => n = z.t
  /\ m = 5 => n = Definition(d.defs, Kid(z.t, "columns"))
  /\ m = 6 => n = z.c
  /\ m = 7 => n = Definition(d.defs, Kid(z.c, "type"))
  /\ m = 8 => n = TypeOf(d, z.c)
  /\ m = 9 => n = Definition(d.defs, Kid(TypeOf(d, z.c), "type"))

\* The type is declared in the column.
OwnType(z) == Kid(Kid(z.c, "type"), "type").is # "ref"

SideRung(m, d, s, z) ==
  /\ IsAt(m, d, z, s.node)
  /\ m <= 8 \/ OwnType(z) => s.at = UpTo(KeysOn(z), m)
  /\ m <= 7 \/ OwnType(z) => s.home = UpTo(KeysOn(z), m)
  /\ m = 9 => s.above[1] = TypeOf(d, z.c)

LEMMA ClimbParts ==
  ASSUME NEW d, IsRealm(d), IsWhole(d), NEW m \in 0 .. 9, NEW z, Climb(m, d, z)
  PROVE  /\ NamedOnce(d.root, "schemas")
         /\ z.s \in ElementsOf(Elements(d.root, "schemas"))
         /\ z.s.is = "object" /\ NamedOnce(z.s, "tables") /\ Has(z.s, "tables")
         /\ m >= 4 => /\ z.t \in ElementsOf(Elements(z.s, "tables"))
                      /\ z.t.is = "object" /\ NamedOnce(z.t, "columns") /\ Has(z.t, "columns")
         /\ m >= 6 => /\ z.c \in ElementsOf(Elements(z.t, "columns"))
                      /\ z.c.is = "object" /\ TypedColumn(d, z.c)
                      /\ CataloguedType(d.defs, Kid(Kid(z.c, "type"), "type"))
<1>1. \A o, property, e : NamedOnce(o, property) /\ e \in ElementsOf(Elements(o, property)) => e.is = "object"
  BY DEF NamedOnce, ElementsOf
<1>2. NamedOnce(d.root, "schemas")
  BY DEF IsRealm
<1>3. z.s \in ElementsOf(Elements(d.root, "schemas"))
  BY NamedElement DEF Climb
<1>4. NamedOnce(z.s, "tables") /\ Has(z.s, "tables")
  BY <1>3 DEF IsRealm, IsWhole
<1>5. m >= 4 => z.t \in ElementsOf(Elements(z.s, "tables"))
  BY NamedElement DEF Climb
<1>6. m >= 4 => NamedOnce(z.t, "columns") /\ Has(z.t, "columns")
  BY <1>3, <1>5 DEF IsRealm, IsWhole
<1>7. m >= 6 => m >= 4
  OBVIOUS
<1>8. m >= 6 => z.c \in ElementsOf(Elements(z.t, "columns"))
  BY NamedElement DEF Climb
<1>9. m >= 6 => TypedColumn(d, z.c) /\ CataloguedType(d.defs, Kid(Kid(z.c, "type"), "type"))
  BY <1>3, <1>5, <1>7, <1>8 DEF IsRealm, IsWhole
<1>10. z.s.is = "object" /\ (m >= 4 => z.t.is = "object") /\ (m >= 6 => z.c.is = "object")
  BY <1>1, <1>2, <1>3, <1>4, <1>5, <1>6, <1>7, <1>8
<1>11. QED
  BY <1>2, <1>3, <1>4, <1>5, <1>6, <1>8, <1>9, <1>10

LEMMA KeysAre ==
  ASSUME NEW z
  PROVE  /\ KeysOn(z)[1] = "schemas" /\ KeysOn(z)[2] = z.p /\ KeysOn(z)[3] = "tables"
         /\ KeysOn(z)[4] = z.q /\ KeysOn(z)[5] = "columns" /\ KeysOn(z)[6] = z.r
         /\ KeysOn(z)[7] = "type" /\ KeysOn(z)[8] = "type" /\ KeysOn(z)[9] = "type"
<1>1. PICK p, q, r : p = z.p /\ q = z.q /\ r = z.r
  OBVIOUS
<1>2. KeysOn(z) = <<"schemas", p, "tables", q, "columns", r, "type", "type", "type">>
  BY <1>1 DEF KeysOn
<1>3. QED
  BY <1>1, <1>2

\* An array that is listed by its elements.
LEMMA ListedElement ==
  ASSUME NEW d, NEW o, NEW property, NamedOnce(o, property), NEW p, NEW e, Named(o, property, p, e),
         NEW n, n = Definition(d.defs, Kid(o, property)), n.is = "array"
  PROVE  Has(n, p) /\ Kid(n, p) = e /\ e.is = "object"
<1>1. n = Kid(o, property)
  BY DEF NamedOnce, Definition
<1>2. Has(o, property)
  BY DEF Named, Elements
<1>3. Elements(o, property) = n.kids
  BY <1>1, <1>2 DEF Elements
<1>4. p \in DOMAIN n.kids /\ e = n.kids[p]
  BY <1>3 DEF Named
<1>5. Has(n, p) /\ Kid(n, p) = e
  BY <1>4 DEF Has, Kid, IsContainer
<1>6. e.is = "object"
  BY <1>3, <1>4 DEF NamedOnce
<1>7. QED
  BY <1>5, <1>6

LEMMA ArrayIsThere ==
  ASSUME NEW d, NEW o, NodeOf(d, o), o.is = "object", NEW property \in ArrayKeys, NamedOnce(o, property),
         Has(o, property)
  PROVE  Kid(o, property).is # "ref" /\ Definition(d.defs, Kid(o, property)).is = "array"
<1>1. property \in DOMAIN o.kids /\ Kid(o, property) = o.kids[property]
  BY DEF Has, Kid
<1>2. QED
  BY <1>1 DEF NodeOf, NamedOnce

LEMMA HasWhatIs ==
  ASSUME NEW n, NEW key, Kid(n, key).is # "undefined"
  PROVE  Has(n, key)
BY DEF Kid, Absent

\* One step down.
LEMMA StepDown ==
  ASSUME NEW d, IsRealm(d), IsWhole(d), NEW m \in 1 .. 9, NEW z, Climb(m, d, z),
         NEW n, NodeOf(d, n), IsAt(m - 1, d, z, n), NEW key, key = KeysOn(z)[m], NEW k, k = Kid(n, key)
  PROVE  /\ Has(n, key) /\ IsAt(m, d, z, Definition(d.defs, k))
         /\ k.is = "ref" => m = 8 /\ ~OwnType(z)
<1>1. m \in 0 .. 9
  OBVIOUS
<1>2. /\ NamedOnce(d.root, "schemas")
      /\ z.s.is = "object" /\ NamedOnce(z.s, "tables") /\ Has(z.s, "tables")
      /\ m >= 4 => z.t.is = "object" /\ NamedOnce(z.t, "columns") /\ Has(z.t, "columns")
      /\ m >= 6 => z.c.is = "object" /\ TypedColumn(d, z.c)
  BY <1>1, ClimbParts
<1>3. Named(d.root, "schemas", z.p, z.s)
  BY DEF Climb
<1>4. {"schemas", "tables", "columns"} \subseteq ArrayKeys
  BY DEF ArrayKeys
<1>5. \A e : e.is = "object" => Definition(d.defs, e) = e /\ e.is # "ref"
  BY DEF Definition
<1>6. CASE m = 1
  <2>1. n = d.root /\ n.is = "object" /\ key = "schemas"
    BY <1>6, KeysAre DEF IsAt, KindAt
  <2>2. Has(n, key)
    BY <1>3, <2>1 DEF Named, Elements
  <2>3. k.is # "ref" /\ Definition(d.defs, k).is = "array"
    BY <1>2, <1>4, <2>1, <2>2, ArrayIsThere
  <2>4. QED
    BY <1>6, <2>1, <2>2, <2>3 DEF IsAt, KindAt
<1>7. CASE m = 2
  <2>1. n = Definition(d.defs, Kid(d.root, "schemas")) /\ n.is = "array" /\ key = z.p
    BY <1>7, KeysAre DEF IsAt, KindAt
  <2>2. Has(n, key) /\ k = z.s /\ k.is = "object"
    BY <1>2, <1>3, <2>1, ListedElement
  <2>3. QED
    BY <1>5, <1>7, <2>2 DEF IsAt, KindAt
<1>8. CASE m = 3
  <2>1. n = z.s /\ n.is = "object" /\ key = "tables"
    BY <1>8, KeysAre DEF IsAt, KindAt
  <2>2. k.is # "ref" /\ Definition(d.defs, k).is = "array"
    BY <1>2, <1>4, <2>1, ArrayIsThere
  <2>3. QED
    BY <1>2, <1>8, <2>1, <2>2 DEF IsAt, KindAt
<1>9. CASE m = 4
  <2>1. n = Definition(d.defs, Kid(z.s, "tables")) /\ n.is = "array" /\ key = z.q
    BY <1>9, KeysAre DEF IsAt, KindAt
  <2>2. Named(z.s, "tables", z.q, z.t)
    BY <1>9 DEF Climb
  <2>3. Has(n, key) /\ k = z.t /\ k.is = "object"
    BY <1>2, <2>1, <2>2, ListedElement
  <2>4. QED
    BY <1>5, <1>9, <2>3 DEF IsAt, KindAt
<1>10. CASE m = 5
  <2>1. n = z.t /\ n.is = "object" /\ key = "columns"
    BY <1>10, KeysAre DEF IsAt, KindAt
  <2>2. k.is # "ref" /\ Definition(d.defs, k).is = "array"
    BY <1>2, <1>4, <1>10, <2>1, ArrayIsThere
  <2>3. QED
    BY <1>2, <1>10, <2>1, <2>2 DEF IsAt, KindAt
<1>11. CASE m = 6
  <2>1. n = Definition(d.defs, Kid(z.t, "columns")) /\ n.is = "array" /\ key = z.r
    BY <1>11, KeysAre DEF IsAt, KindAt
  <2>2. Named(z.t, "columns", z.r, z.c) /\ NamedOnce(z.t, "columns")
    BY <1>2, <1>11 DEF Climb
  <2>3. Has(n, key) /\ k = z.c /\ k.is = "object"
    BY <2>1, <2>2, ListedElement
  <2>4. QED
    BY <1>5, <1>11, <2>3 DEF IsAt, KindAt
<1>12. CASE m = 7
  <2>1. n = z.c /\ key = "type"
    BY <1>12, KeysAre DEF IsAt, KindAt
  <2>2. k.is = "object"
    BY <1>2, <1>12, <2>1 DEF TypedColumn
  <2>3. QED
    BY <1>5, <1>12, <2>1, <2>2, HasWhatIs DEF IsAt, KindAt
<1>13. CASE m = 8
  <2>1. n = Definition(d.defs, Kid(z.c, "type")) /\ key = "type"
    BY <1>13, KeysAre DEF IsAt, KindAt
  <2>2. Kid(z.c, "type").is = "object" /\ TypeOf(d, z.c).is = "object"
    BY <1>2, <1>13 DEF TypedColumn, TypeOf
  <2>3. n = Kid(z.c, "type")
    BY <1>5, <2>1, <2>2
  <2>4. Definition(d.defs, k) = TypeOf(d, z.c) /\ (k.is = "ref" <=> ~OwnType(z))
    BY <2>1, <2>3 DEF TypeOf, OwnType
  <2>5. k.is # "undefined"
    BY <2>2, <2>4 DEF Definition
  <2>6. QED
    BY <1>13, <2>2, <2>4, <2>5, HasWhatIs DEF IsAt, KindAt
<1>14. CASE m = 9
  <2>1. n = TypeOf(d, z.c) /\ key = "type"
    BY <1>14, KeysAre DEF IsAt, KindAt
  <2>2. k.is = "scalar"
    BY <1>2, <1>14, <2>1 DEF TypedColumn, TypeOf
  <2>3. Definition(d.defs, k) = k
    BY <2>2 DEF Definition
  <2>4. QED
    BY <1>14, <2>1, <2>2, <2>3, HasWhatIs DEF IsAt, KindAt
<1>15. QED
  BY <1>6, <1>7, <1>8, <1>9, <1>10, <1>11, <1>12, <1>13, <1>14

\* Where the parts of a child are declared.
LEMMA KidHomes ==
  ASSUME NEW d, NEW s, NEW key
  PROVE  /\ KidSide(d.defs, s, key).at = Append(s.home, key)
         /\ Kid(s.node, key).is # "ref" => KidSide(d.defs, s, key).home = Append(s.home, key)
         /\ Kid(s.node, key).is = "ref" => KidSide(d.defs, s, key).home = <<Kid(s.node, key).of>>
<1>1. PICK k, kid, at, above, entered :
        /\ k = Kid(s.node, key) /\ kid = KidSide(d.defs, s, key)
        /\ at = Append(s.home, key) /\ above = <<s.node>> \o s.above /\ entered = s.entered
  OBVIOUS
<1>2. kid = Side(d.defs, k, at, above, entered)
  BY <1>1 DEF KidSide
<1>3. ASSUME k.is # "ref" PROVE kid.at = at /\ kid.home = at
  BY <1>2, <1>3 DEF Side
<1>4. ASSUME k.is = "ref" PROVE kid.at = at /\ kid.home = <<k.of>>
  <2>1. PICK now : now = Over(entered, [name \in {k.of} |-> at])
    OBVIOUS
  <2>2. kid = [node |-> d.defs[k.of], at |-> at, home |-> <<k.of>>, first |-> now[k.of],
               above |-> above, entered |-> now]
    BY <1>2, <1>4, <2>1 DEF Side
  <2>3. QED
    BY <2>2
<1>5. kid.at = at
  BY <1>3, <1>4
<1>6. (k.is # "ref" => kid.home = at) /\ (k.is = "ref" => kid.home = <<k.of>>)
  BY <1>1, <1>3, <1>4
<1>7. QED
  BY <1>1, <1>5, <1>6

LEMMA SideDown ==
  ASSUME NEW d, NEW N, NEW F, DocumentOf(d, N, F), IsRealm(d), IsWhole(d),
         NEW m \in 1 .. 9, NEW z, Climb(m, d, z), NEW s, GoodSide(s, N, F), NodeOf(d, s.node),
         SideRung(m - 1, d, s, z), NEW key, key = KeysOn(z)[m], NEW kid, kid = KidSide(d.defs, s, key)
  PROVE  Has(s.node, key) /\ SideRung(m, d, kid, z)
<1>1. PICK n, k : n = s.node /\ k = Kid(n, key)
  OBVIOUS
<1>2. /\ Has(n, key) /\ IsAt(m, d, z, Definition(d.defs, k))
      /\ k.is = "ref" => m = 8 /\ ~OwnType(z)
  <2>1. NodeOf(d, n) /\ IsAt(m - 1, d, z, n)
    BY <1>1 DEF SideRung
  <2>2. QED
    BY <1>1, <2>1, StepDown
<1>3. IsKidSide(kid, d, N, F, s, key)
  BY KidSidesAreGood
<1>4. kid.node = Definition(d.defs, k) /\ kid.above[1] = n
  BY <1>1, <1>3 DEF IsKidSide
<1>5. /\ kid.at = Append(s.home, key)
      /\ k.is # "ref" => kid.home = Append(s.home, key)
  <2>1. /\ KidSide(d.defs, s, key).at = Append(s.home, key)
        /\ Kid(s.node, key).is # "ref" => KidSide(d.defs, s, key).home = Append(s.home, key)
        /\ Kid(s.node, key).is = "ref" => KidSide(d.defs, s, key).home = <<Kid(s.node, key).of>>
    BY ONLY KidHomes
  <2>2. QED
    BY <1>1, <2>1
<1>6. m <= 8 \/ OwnType(z) => Append(s.home, key) = UpTo(KeysOn(z), m)
  <2>1. m <= 8 \/ OwnType(z) => s.home = UpTo(KeysOn(z), m - 1)
    BY DEF SideRung
  <2>2. PICK keys : keys = KeysOn(z)
    OBVIOUS
  <2>3. UpTo(keys, m) = Append(UpTo(keys, m - 1), keys[m])
    BY UpToGrows
  <2>4. QED
    BY <2>1, <2>2, <2>3
<1>7. m = 9 => n = TypeOf(d, z.c)
  BY <1>1 DEF SideRung, IsAt
<1>8. m <= 7 \/ OwnType(z) => kid.home = UpTo(KeysOn(z), m)
  <2>1. m <= 7 \/ OwnType(z) => k.is # "ref" /\ (m <= 8 \/ OwnType(z))
    BY <1>2
  <2>2. QED
    BY <1>5, <1>6, <2>1
<1>9. m <= 8 \/ OwnType(z) => kid.at = UpTo(KeysOn(z), m)
  BY <1>5, <1>6
<1>10. m = 9 => kid.above[1] = TypeOf(d, z.c)
  BY <1>4, <1>7
<1>11. IsAt(m, d, z, kid.node)
  BY <1>2, <1>4
<1>12. QED
  BY <1>1, <1>2, <1>8, <1>9, <1>10, <1>11 DEF SideRung

\* And one step up: no definition is a step.
LEMMA SideUp ==
  ASSUME NEW d, NEW N, NEW F, DocumentOf(d, N, F), "schemas" \notin DOMAIN d.defs,
         NEW s, GoodSide(s, N, F), s.node \in N, NEW key, Has(s.node, key),
         NEW kid, kid = KidSide(d.defs, s, key),
         NEW z, NEW m \in 0 .. 9, kid.at = UpTo(KeysOn(z), m) \/ kid.home = UpTo(KeysOn(z), m)
  PROVE  m # 0 /\ s.home = UpTo(KeysOn(z), m - 1) /\ key = KeysOn(z)[m]
<1>1. PICK k, keys : k = Kid(s.node, key) /\ keys = KeysOn(z)
  OBVIOUS
<1>2. /\ kid.at = Append(s.home, key)
      /\ k.is # "ref" => kid.home = Append(s.home, key)
      /\ k.is = "ref" => kid.home = <<k.of>>
  <2>1. /\ KidSide(d.defs, s, key).at = Append(s.home, key)
        /\ Kid(s.node, key).is # "ref" => KidSide(d.defs, s, key).home = Append(s.home, key)
        /\ Kid(s.node, key).is = "ref" => KidSide(d.defs, s, key).home = <<Kid(s.node, key).of>>
    BY ONLY KidHomes
  <2>2. QED
    BY <1>1, <2>1
<1>3. k.is = "ref" => k.of \in DOMAIN d.defs
  <2>1. k \in N
    BY <1>1 DEF DocumentOf, Has, Kid
  <2>2. QED
    BY <2>1 DEF DocumentOf, NodeOf
<1>4. k.is = "ref" => <<k.of>> # UpTo(keys, m)
  <2>1. SUFFICES ASSUME k.is = "ref", <<k.of>> = UpTo(keys, m) PROVE FALSE
    OBVIOUS
  <2>2. PICK of : of = k.of
    OBVIOUS
  <2>3. Len(<<of>>) = 1 /\ <<of>>[1] = of
    OBVIOUS
  <2>4. m = 1 /\ of = keys[1]
    BY <2>1, <2>2, <2>3, UpToIs
  <2>5. QED
    BY <1>1, <1>3, <2>1, <2>2, <2>4, KeysAre
<1>5. Append(s.home, key) = UpTo(keys, m)
  BY <1>1, <1>2, <1>4
<1>6. IsSequence(s.home)
  BY DEF GoodSide
<1>7. PICK home : home = s.home
  OBVIOUS
<1>8. IsSequence(home) /\ Append(home, key) = UpTo(keys, m) /\ m \in Nat
  BY <1>5, <1>6, <1>7
<1>9. m # 0 /\ home = UpTo(keys, m - 1) /\ key = keys[m]
  BY <1>8, UpToBack
<1>10. QED
  BY <1>1, <1>7, <1>9

-----------------------------------------------------------------------------
(***************************************************************************)
(* The steps of a pair: b and a are where a column and its type are, or a  *)
(* table, before and after, with the same names.                           *)
(***************************************************************************)
Ladder(m, x, b, a) ==
  /\ Climb(m, x.before, b) /\ Climb(m, x.after, a)
  /\ nameKey(b.s) = nameKey(a.s)
  /\ m >= 4 => nameKey(b.t) = nameKey(a.t)
  /\ m >= 6 => nameKey(b.c) = nameKey(a.c)
  /\ m >= 8 => KnownKind(TypeOf(x.before, b.c))

Rung(m, i, x, b, a) ==
  /\ i.path = UpTo(KeysOn(b), m) /\ RungRules(m, i.rules)
  /\ SideRung(m, x.before, i.before, b) /\ SideRung(m, x.after, i.after, a)

Given(x) ==
  /\ IsDocument(x.before) /\ IsDocument(x.after) /\ IsRealm(x.before) /\ IsRealm(x.after)
  /\ IsWhole(x.before) /\ IsWhole(x.after) /\ EnumsStay(x)

LEMMA ShorterLadder ==
  ASSUME NEW x, NEW b, NEW a, NEW m \in 0 .. 9, Ladder(m, x, b, a), NEW l \in 0 .. m
  PROVE  Ladder(l, x, b, a)
<1>1. /\ l >= 4 => m >= 4
      /\ l >= 6 => m >= 6
      /\ l >= 8 => m >= 8
  OBVIOUS
<1>2. QED
  BY <1>1 DEF Ladder, Climb

\* The context of an item is at the same step.
LEMMA RungOfContext ==
  ASSUME IsDdl, NEW x, NEW i, GoodItem(i, x), ~i.entered, NEW c, c = Context(i),
         NEW m \in 0 .. 9, NEW b, NEW a, Rung(m, i, x, b, a), Ladder(m, x, b, a)
  PROVE  Rung(m, c, x, b, a) /\ ~Ignored(c)
<1>1. PICK rules, node, path, q : /\ rules = i.rules /\ node = i.before.node /\ path = i.path
                                  /\ q = Resolved(rules, node, path)
  OBVIOUS
<1>2. c.rules = q /\ c.before = i.before /\ c.after = i.after /\ c.path = i.path
  BY <1>1, ContextsAreGood
<1>3. m = 8 => KnownKind(node)
  BY <1>1 DEF Rung, SideRung, IsAt, Ladder
<1>4. IsTable(rules) /\ RungRules(m, rules)
  BY <1>1 DEF GoodItem, Rung
<1>5. RungRules(m, q)
  BY <1>1, <1>3, <1>4, RungResolved
<1>6. "ignoreDifference" \notin q.flags
  BY <1>5 DEF RungRules, Free
<1>7. QED
  BY <1>2, <1>5, <1>6 DEF Rung, Ignored

\* Elements of the same name are mapped.
LEMMA ElementMapped ==
  ASSUME IsDdl, IsDocument(asked.before), IsDocument(asked.after),
         NEW c, GoodParent(c, asked), c.rules.mapping = "nameMappingResolver",
         NEW n, NEW o, NEW property, NamedOnce(n, property), NamedOnce(o, property),
         c.before.node = Definition(asked.before.defs, Kid(n, property)),
         c.after.node = Definition(asked.after.defs, Kid(o, property)),
         NEW kb, NEW ka, NEW e, NEW f, Named(n, property, kb, e), Named(o, property, ka, f),
         nameKey(e) = nameKey(f)
  PROVE  kb \in DOMAIN MappingData(c).mapped /\ MappingData(c).mapped[kb] = ka
<1>1. PICK r, eb, ea : r = MappingData(c) /\ eb = Elements(n, property) /\ ea = Elements(o, property)
  OBVIOUS
<1>2. /\ \A key \in DOMAIN r.mapped :
              /\ key \in DOMAIN eb /\ r.mapped[key] \in DOMAIN ea
              /\ nameKey(eb[key]) = nameKey(ea[r.mapped[key]])
      /\ \A key \in r.removed :
              /\ key \in DOMAIN eb
              /\ \A g \in ElementsOf(ea) : nameKey(g) # nameKey(eb[key])
  BY <1>1, NamesPaired
<1>3. kb \in DOMAIN eb /\ e = eb[kb] /\ ka \in DOMAIN ea /\ f = ea[ka] /\ f \in ElementsOf(ea)
  BY <1>1 DEF Named, ElementsOf
<1>4. kb \notin r.removed
  BY <1>2, <1>3
<1>5. kb \in DOMAIN c.before.node.kids
  <2>1. Kid(n, property).is # "ref" /\ Has(n, property)
    BY <1>1, <1>3 DEF NamedOnce, Elements
  <2>2. QED
    BY <1>1, <1>3, <2>1 DEF Definition, Elements
<1>6. EachKeyOnce(r, DOMAIN c.before.node.kids, DOMAIN c.after.node.kids)
  BY <1>1, MappingContract
<1>7. kb \in DOMAIN r.mapped
  BY <1>4, <1>5, <1>6 DEF EachKeyOnce
<1>8. PICK to : to = r.mapped[kb]
  OBVIOUS
<1>9. to \in DOMAIN ea /\ nameKey(ea[to]) = nameKey(ea[ka])
  BY <1>2, <1>3, <1>7, <1>8
<1>10. to = ka
  BY <1>1, <1>3, <1>9 DEF NamedOnce
<1>11. QED
  BY <1>1, <1>7, <1>8, <1>10

\* A key that two objects have is mapped to itself.
LEMMA PropertyMapped ==
  ASSUME IsDdl, IsDocument(asked.before), IsDocument(asked.after), NEW c, GoodParent(c, asked),
         c.before.node.is = "object", NEW key, Has(c.before.node, key), Has(c.after.node, key)
  PROVE  key \in DOMAIN MappingData(c).mapped /\ MappingData(c).mapped[key] = key
<1>1. PICK r, B, A : r = MappingData(c) /\ B = DOMAIN c.before.node.kids /\ A = DOMAIN c.after.node.kids
  OBVIOUS
<1>2. EachKeyOnce(r, B, A) /\ (\A k \in DOMAIN r.mapped : r.mapped[k] = k) /\ r.removed = B \ A
  BY <1>1, MappingContract
<1>3. key \in B /\ key \in A
  BY <1>1 DEF Has
<1>4. QED
  BY <1>1, <1>2, <1>3 DEF EachKeyOnce

\* The sides of the next step.
LEMMA SidesDown ==
  ASSUME IsDdl, Given(asked), NEW c, GoodParent(c, asked), NEW m \in 1 .. 9, NEW b, NEW a,
         Ladder(m, asked, b, a), Rung(m - 1, c, asked, b, a), NEW kb, NEW ka,
         kb = KeysOn(b)[m], ka = KeysOn(a)[m]
  PROVE  /\ Has(c.before.node, kb) /\ SideRung(m, asked.before, KidSide(asked.before.defs, c.before, kb), b)
         /\ Has(c.after.node, ka) /\ SideRung(m, asked.after, KidSide(asked.after.defs, c.after, ka), a)
<1>1. PICK d, e, N, F, M, G, s, t : /\ d = asked.before /\ e = asked.after
                        /\ N = NodesOf(d)[1] /\ F = NodesOf(d)[2]
                        /\ M = NodesOf(e)[1] /\ G = NodesOf(e)[2]
                        /\ s = c.before /\ t = c.after
  OBVIOUS
<1>2. /\ NodeOf(d, s.node) /\ NodeOf(e, t.node) /\ DocumentOf(d, N, F) /\ DocumentOf(e, M, G)
  BY <1>1, NodesOfParents DEF Given
<1>3. GoodSide(s, N, F) /\ GoodSide(t, M, G)
  BY <1>1 DEF GoodParent, GoodItem, GoodSideOf
<1>4. IsRealm(d) /\ IsWhole(d) /\ IsRealm(e) /\ IsWhole(e)
  BY <1>1 DEF Given
<1>5. Climb(m, d, b) /\ Climb(m, e, a) /\ SideRung(m - 1, d, s, b) /\ SideRung(m - 1, e, t, a)
  BY <1>1 DEF Ladder, Rung
<1>6. Has(s.node, kb) /\ SideRung(m, d, KidSide(d.defs, s, kb), b)
  BY <1>2, <1>3, <1>4, <1>5, SideDown
<1>7. Has(t.node, ka) /\ SideRung(m, e, KidSide(e.defs, t, ka), a)
  BY <1>2, <1>3, <1>4, <1>5, SideDown
<1>8. QED
  BY <1>1, <1>6, <1>7

LEMMA RungMapped ==
  ASSUME IsDdl, Given(asked), NEW c, GoodParent(c, asked), NEW m \in 1 .. 9, NEW b, NEW a,
         Ladder(m, asked, b, a), Rung(m - 1, c, asked, b, a), NEW kb, NEW ka,
         kb = KeysOn(b)[m], ka = KeysOn(a)[m]
  PROVE  kb \in DOMAIN MappingData(c).mapped /\ MappingData(c).mapped[kb] = ka
<1>1. IsDocument(asked.before) /\ IsDocument(asked.after)
  BY DEF Given
<1>2. /\ IsAt(m - 1, asked.before, b, c.before.node) /\ IsAt(m - 1, asked.after, a, c.after.node)
      /\ RungRules(m - 1, c.rules)
  BY DEF Rung, SideRung
<1>3. Climb(m, asked.before, b) /\ Climb(m, asked.after, a)
  BY DEF Ladder
<1>4. /\ NamedOnce(asked.before.root, "schemas") /\ NamedOnce(asked.after.root, "schemas")
      /\ NamedOnce(b.s, "tables") /\ NamedOnce(a.s, "tables")
      /\ m >= 4 => NamedOnce(b.t, "columns") /\ NamedOnce(a.t, "columns")
  BY <1>3, ClimbParts DEF Given
<1>5. \A r, resolver : Each(r, resolver).mapping = resolver
  BY EachRules
<1>6. CASE m = 2
  <2>1. c.rules.mapping = "nameMappingResolver"
    BY <1>2, <1>5, <1>6 DEF RungRules, SchemasRules
  <2>2. /\ c.before.node = Definition(asked.before.defs, Kid(asked.before.root, "schemas"))
        /\ c.after.node = Definition(asked.after.defs, Kid(asked.after.root, "schemas"))
    BY <1>2, <1>6 DEF IsAt
  <2>3. kb = b.p /\ ka = a.p
    BY <1>6, KeysAre
  <2>4. PICK n, o, e, f : n = asked.before.root /\ o = asked.after.root /\ e = b.s /\ f = a.s
    OBVIOUS
  <2>5. Named(n, "schemas", kb, e) /\ Named(o, "schemas", ka, f) /\ nameKey(e) = nameKey(f)
    BY <1>3, <2>3, <2>4 DEF Climb, Ladder
  <2>6. QED
    BY <1>1, <1>4, <2>1, <2>2, <2>4, <2>5, ElementMapped
<1>7. CASE m = 4
  <2>1. c.rules.mapping = "nameMappingResolver"
    BY <1>2, <1>5, <1>7 DEF RungRules, TablesRules
  <2>2. /\ c.before.node = Definition(asked.before.defs, Kid(b.s, "tables"))
        /\ c.after.node = Definition(asked.after.defs, Kid(a.s, "tables"))
    BY <1>2, <1>7 DEF IsAt
  <2>3. kb = b.q /\ ka = a.q
    BY <1>7, KeysAre
  <2>4. PICK n, o, e, f : n = b.s /\ o = a.s /\ e = b.t /\ f = a.t
    OBVIOUS
  <2>5. Named(n, "tables", kb, e) /\ Named(o, "tables", ka, f) /\ nameKey(e) = nameKey(f)
    BY <1>3, <1>7, <2>3, <2>4 DEF Climb, Ladder
  <2>6. QED
    BY <1>1, <1>4, <2>1, <2>2, <2>4, <2>5, ElementMapped
<1>8. CASE m = 6
  <2>1. c.rules.mapping = "nameMappingResolver"
    BY <1>2, <1>5, <1>8 DEF RungRules, ColumnsRules
  <2>2. /\ c.before.node = Definition(asked.before.defs, Kid(b.t, "columns"))
        /\ c.after.node = Definition(asked.after.defs, Kid(a.t, "columns"))
    BY <1>2, <1>8 DEF IsAt
  <2>3. kb = b.r /\ ka = a.r
    BY <1>8, KeysAre
  <2>4. PICK n, o, e, f : n = b.t /\ o = a.t /\ e = b.c /\ f = a.c
    OBVIOUS
  <2>5. Named(n, "columns", kb, e) /\ Named(o, "columns", ka, f) /\ nameKey(e) = nameKey(f)
    BY <1>3, <1>8, <2>3, <2>4 DEF Climb, Ladder
  <2>6. NamedOnce(n, "columns") /\ NamedOnce(o, "columns")
    BY <1>4, <1>8, <2>4
  <2>7. QED
    BY <1>1, <2>1, <2>2, <2>4, <2>5, <2>6, ElementMapped
<1>9. CASE m \in {1, 3, 5, 7, 8, 9}
  <2>1. kb = ka
    BY <1>9, KeysAre
  <2>2. c.before.node.is = "object"
    BY <1>2, <1>9 DEF IsAt, KindAt
  <2>3. Has(c.before.node, kb) /\ Has(c.after.node, ka)
    BY SidesDown
  <2>4. QED
    BY <1>1, <2>1, <2>2, <2>3, PropertyMapped
<1>10. QED
  BY <1>6, <1>7, <1>8, <1>9

\* The child of a pair at a step is at the next one.
LEMMA RungDown ==
  ASSUME IsDdl, Given(asked), NEW c, GoodParent(c, asked), NEW m \in 1 .. 9, NEW b, NEW a,
         Ladder(m, asked, b, a), Rung(m - 1, c, asked, b, a), NEW kb, NEW ka,
         kb = KeysOn(b)[m], ka = KeysOn(a)[m], NEW i, i = MappedKid(c, kb, ka)
  PROVE  Rung(m, i, asked, b, a)
<1>1. kb \in DOMAIN MappingData(c).mapped /\ MappingData(c).mapped[kb] = ka
  BY RungMapped
<1>2. c.before.node.is = "object" => ka = kb
  BY <1>1, MappingContract DEF Given
<1>3. /\ i.rules = KidRules(c.rules, kb)
      /\ i.before = KidSide(asked.before.defs, c.before, kb)
      /\ i.after = KidSide(asked.after.defs, c.after, ka)
      /\ i.path = Append(c.path, kb)
  BY <1>2, MappedKidIsGood DEF Given
<1>4. SideRung(m, asked.before, i.before, b) /\ SideRung(m, asked.after, i.after, a)
  BY <1>3, SidesDown
<1>5. RungRules(m, i.rules)
  <2>1. PICK r : r = c.rules
    OBVIOUS
  <2>2. RungRules(m - 1, r) /\ r.lazy = None
    BY <2>1 DEF Rung, GoodParent
  <2>3. KeyBelow(m, kb)
    BY KeysAre DEF KeyBelow
  <2>4. QED
    BY <1>3, <2>1, <2>2, <2>3, RungBelow
<1>6. i.path = UpTo(KeysOn(b), m)
  <2>1. PICK keys : keys = KeysOn(b)
    OBVIOUS
  <2>2. UpTo(keys, m) = Append(UpTo(keys, m - 1), keys[m])
    BY UpToGrows
  <2>3. c.path = UpTo(keys, m - 1)
    BY <2>1 DEF Rung
  <2>4. QED
    BY <1>3, <2>1, <2>2, <2>3
<1>7. QED
  BY <1>4, <1>5, <1>6 DEF Rung

\* Where an item is: at the step that its declarations are, on either side.
IsPlace(s, z, m) == s.at = UpTo(KeysOn(z), m) \/ s.home = UpTo(KeysOn(z), m)

PathsTell(i, x) ==
  \A b, a : \A m \in 0 .. 9 :
    Ladder(m, x, b, a) /\ (IsPlace(i.before, b, m) \/ IsPlace(i.after, a, m)) => Rung(m, i, x, b, a)

LEMMA PathsOfKid ==
  ASSUME IsDdl, Given(asked), NEW c, GoodParent(c, asked), PathsTell(c, asked),
         NEW key \in DOMAIN MappingData(c).mapped, NEW i, i = MappedKid(c, key, MappingData(c).mapped[key])
  PROVE  PathsTell(i, asked)
<1>1. SUFFICES ASSUME NEW b, NEW a, NEW m \in 0 .. 9, Ladder(m, asked, b, a),
                      IsPlace(i.before, b, m) \/ IsPlace(i.after, a, m)
               PROVE  Rung(m, i, asked, b, a)
  BY DEF PathsTell
<1>2. PICK r, to, d, e, N, F, M, G, s, t :
        /\ r = MappingData(c) /\ to = r.mapped[key] /\ d = asked.before /\ e = asked.after
        /\ N = NodesOf(d)[1] /\ F = NodesOf(d)[2] /\ M = NodesOf(e)[1] /\ G = NodesOf(e)[2]
        /\ s = c.before /\ t = c.after
  OBVIOUS
<1>3. /\ EachKeyOnce(r, DOMAIN s.node.kids, DOMAIN t.node.kids) /\ OneToOne(r)
      /\ s.node.is = "object" => to = key
  BY <1>2, MappingContract DEF Given
<1>4. /\ i.before = KidSide(d.defs, s, key) /\ i.after = KidSide(e.defs, t, to)
  BY <1>2, <1>3, MappedKidIsGood DEF Given
<1>5. /\ s.node \in N /\ t.node \in M /\ IsContainer(s.node) /\ IsContainer(t.node)
      /\ DocumentOf(d, N, F) /\ DocumentOf(e, M, G)
  BY <1>2, NodesOfParents DEF Given, GoodParent
<1>6. GoodSide(s, N, F) /\ GoodSide(t, M, G)
  BY <1>2 DEF GoodParent, GoodItem, GoodSideOf
<1>7. Has(s.node, key) /\ Has(t.node, to)
  BY <1>2, <1>3, <1>5 DEF EachKeyOnce, MappedTo, Has
<1>8. "schemas" \notin DOMAIN d.defs /\ "schemas" \notin DOMAIN e.defs
  BY <1>2 DEF Given, IsWhole
<1>9. PICK kb, ka : kb = KeysOn(b)[m] /\ ka = KeysOn(a)[m]
  OBVIOUS
<1>10. /\ IsPlace(i.before, b, m) => m # 0 /\ s.home = UpTo(KeysOn(b), m - 1) /\ key = kb
       /\ IsPlace(i.after, a, m) => m # 0 /\ t.home = UpTo(KeysOn(a), m - 1) /\ to = ka
  <2>1. ASSUME IsPlace(i.before, b, m) PROVE m # 0 /\ s.home = UpTo(KeysOn(b), m - 1) /\ key = kb
    BY <1>4, <1>5, <1>6, <1>7, <1>8, <1>9, <2>1, SideUp DEF IsPlace
  <2>2. ASSUME IsPlace(i.after, a, m) PROVE m # 0 /\ t.home = UpTo(KeysOn(a), m - 1) /\ to = ka
    BY <1>4, <1>5, <1>6, <1>7, <1>8, <1>9, <2>2, SideUp DEF IsPlace
  <2>3. QED
    BY <2>1, <2>2
<1>11. m \in 1 .. 9 /\ m - 1 \in 0 .. 9
  BY <1>1, <1>10
<1>12. Ladder(m - 1, asked, b, a)
  BY <1>1, <1>11, ShorterLadder
<1>13. Rung(m - 1, c, asked, b, a)
  BY <1>1, <1>2, <1>10, <1>11, <1>12 DEF PathsTell, IsPlace
<1>14. kb \in DOMAIN r.mapped /\ r.mapped[kb] = ka
  BY <1>1, <1>2, <1>9, <1>11, <1>13, RungMapped
<1>15. key = kb /\ to = ka
  BY <1>1, <1>2, <1>3, <1>10, <1>14 DEF OneToOne
<1>16. QED
  BY <1>1, <1>2, <1>9, <1>11, <1>13, <1>15, RungDown

-----------------------------------------------------------------------------
(***************************************************************************)
(* The crawl: an item that is declared at a step is at that step.          *)
(***************************************************************************)
PathInv == \A n \in DOMAIN todo : PathsTell(todo[n], asked)

LEMMA PathInit ==
  ASSUME IsDdl, DocumentsGiven, Init
  PROVE  PathInv
<1>1. asked \in Input /\ todo = <<Start(asked)>>
  BY DEF Init
<1>2. IsDocument(asked.before) /\ IsDocument(asked.after)
  BY <1>1 DEF DocumentsGiven
<1>3. PICK i : i = Start(asked)
  OBVIOUS
<1>4. PICK s, t, ks, path, r : /\ s = RootSide(asked.before) /\ t = RootSide(asked.after)
                               /\ ks = <<<<"#", "#">>>> /\ path = <<>> /\ r = ddlRules
  OBVIOUS
<1>5. i = [rules |-> r, before |-> s, after |-> t, keys |-> ks, scope |-> "root",
           path |-> path, entered |-> FALSE]
  BY <1>3, <1>4 DEF Start, Item, IsDdl
<1>6. i.rules = r /\ i.before = s /\ i.after = t /\ i.path = path
  BY <1>5
<1>7. asked.before.root.is = "object" /\ asked.after.root.is = "object"
  <2>1. /\ DocumentOf(asked.before, NodesOf(asked.before)[1], NodesOf(asked.before)[2])
        /\ DocumentOf(asked.after, NodesOf(asked.after)[1], NodesOf(asked.after)[2])
    BY <1>2, NodesAreThere
  <2>2. QED
    BY <2>1 DEF DocumentOf
<1>8. \A d : d.root.is = "object" =>
        RootSide(d).node = d.root /\ RootSide(d).at = path /\ RootSide(d).home = path
  BY <1>4 DEF RootSide, Side
<1>9. \A z : UpTo(KeysOn(z), 0) = path
  BY <1>4, UpToIs
<1>10. RungRules(0, r)
  BY <1>4, TablesAreFree DEF RungRules, Like, ddlRules
<1>11. PICK k : k = 0
  OBVIOUS
<1>12. \A b, a : Rung(k, i, asked, b, a)
  <2>1. ASSUME NEW b, NEW a PROVE Rung(k, i, asked, b, a)
    <3>1. UpTo(KeysOn(b), k) = path /\ UpTo(KeysOn(a), k) = path
      BY <1>9, <1>11
    <3>2. SideRung(k, asked.before, s, b) /\ SideRung(k, asked.after, t, a)
      BY <1>4, <1>7, <1>8, <1>11, <3>1 DEF SideRung, IsAt, KindAt
    <3>3. RungRules(k, i.rules)
      BY <1>6, <1>10, <1>11
    <3>4. QED
      BY <1>6, <3>1, <3>2, <3>3 DEF Rung
  <2>2. QED
    BY <2>1
<1>13. PathsTell(i, asked)
  <2>1. SUFFICES ASSUME NEW b, NEW a, NEW m \in 0 .. 9,
                        IsPlace(i.before, b, m) \/ IsPlace(i.after, a, m)
                 PROVE  Rung(m, i, asked, b, a)
    BY DEF PathsTell
  <2>2. path = UpTo(KeysOn(b), m) \/ path = UpTo(KeysOn(a), m)
    BY <1>4, <1>6, <1>7, <1>8, <2>1 DEF IsPlace
  <2>3. Len(path) = 0 /\ m \in Nat
    BY <1>4
  <2>4. m = k
    BY <1>11, <2>2, <2>3, UpToIs
  <2>5. QED
    BY <1>12, <2>4
<1>14. \A n \in DOMAIN todo : todo[n] = i
  BY <1>1, <1>3
<1>15. QED
  BY <1>13, <1>14 DEF PathInv

\* The context of an item tells the same.
LEMMA PathsOfContext ==
  ASSUME IsDdl, NEW i, GoodItem(i, asked), ~i.entered, PathsTell(i, asked), NEW c, c = Context(i)
  PROVE  PathsTell(c, asked)
<1>1. c.before = i.before /\ c.after = i.after
  BY ContextsAreGood
<1>2. SUFFICES ASSUME NEW b, NEW a, NEW m \in 0 .. 9, Ladder(m, asked, b, a),
                      IsPlace(c.before, b, m) \/ IsPlace(c.after, a, m)
               PROVE  Rung(m, c, asked, b, a)
  BY DEF PathsTell
<1>3. Rung(m, i, asked, b, a)
  BY <1>1, <1>2 DEF PathsTell
<1>4. QED
  BY <1>2, <1>3, RungOfContext

LEMMA SamePaths ==
  ASSUME NEW c, NEW e, e.rules = c.rules, e.before = c.before, e.after = c.after, e.path = c.path
  PROVE  /\ PathsTell(c, asked) => PathsTell(e, asked)
         /\ \A m, b, a : Rung(m, c, asked, b, a) => Rung(m, e, asked, b, a)
<1>1. \A m, b, a : Rung(m, c, asked, b, a) => Rung(m, e, asked, b, a)
  BY DEF Rung
<1>2. QED
  BY <1>1 DEF PathsTell

LEMMA CurrentTells ==
  ASSUME IsDdl, CrawlInv, PathInv, NEW c \in Current
  PROVE  PathsTell(c, asked)
<1>1. todo # <<>>
  BY CurrentIsGood
<1>2. 1 \in DOMAIN todo /\ Head(todo) = todo[1]
  BY <1>1 DEF CrawlInv, IsSequence
<1>3. PathsTell(Head(todo), asked)
  BY <1>2 DEF PathInv
<1>4. CASE c.entered
  BY <1>3, <1>4, CurrentIsGood
<1>5. CASE ~c.entered
  <2>1. GoodItem(Head(todo), asked) /\ ~Head(todo).entered /\ c = Context(Head(todo))
    BY <1>5, CurrentIsGood
  <2>2. QED
    BY <1>3, <2>1, PathsOfContext
<1>6. QED
  BY <1>4, <1>5

LEMMA PathStep ==
  ASSUME IsDdl, CrawlInv, PathInv, Given(asked), [Next]_vars
  PROVE  PathInv'
<1>0. IsDocument(asked.before) /\ IsDocument(asked.after)
  BY DEF Given
<1>1. asked' = asked
  BY <1>0, CrawlStep
<1>2. CASE UNCHANGED vars
  BY <1>2 DEF vars, PathInv
<1>3. ASSUME NEW c \in Current, Ignore(c) \/ Reuse(c) \/ Settle(c) \/ Leave(c) PROVE PathInv'
  <2>1. todo' = Tail(todo) /\ todo # <<>>
    BY <1>3, CurrentIsGood DEF Ignore, Reuse, Settle, Leave
  <2>2. \A n \in DOMAIN Tail(todo) : \E m \in DOMAIN todo : m # 1 /\ Tail(todo)[n] = todo[m]
    BY <2>1, TailIsGood
  <2>3. QED
    BY <1>1, <2>1, <2>2 DEF PathInv
<1>4. ASSUME NEW c \in Current, Enter(c) PROVE PathInv'
  <2>1. ~c.entered /\ ~Replaced(c) /\ IsContainer(c.before.node)
    BY <1>4 DEF Enter, Fresh
  <2>2. PICK mapped : mapped = MappingData(c).mapped
    OBVIOUS
  <2>3. PICK e : /\ e = [c EXCEPT !.entered = TRUE] /\ e.rules = c.rules
                 /\ e.before = c.before /\ e.after = c.after /\ e.path = c.path
    BY <2>1, EnteredIsGood
  <2>4. GoodParent(c, asked)
    BY <2>1, EnteredIsGood
  <2>5. PathsTell(c, asked)
    BY CurrentTells
  <2>6. PathsTell(e, asked)
    BY <2>3, <2>5, SamePaths
  <2>7. \A key \in DOMAIN mapped : PathsTell(MappedKid(c, key, mapped[key]), asked)
    BY <2>2, <2>4, <2>5, PathsOfKid
  <2>8. \A n \in DOMAIN todo' :
              \/ \E key \in DOMAIN mapped : todo'[n] = MappedKid(c, key, mapped[key])
              \/ todo'[n] = e
              \/ \E m \in DOMAIN todo : m # 1 /\ todo'[n] = todo[m]
    BY <1>0, <1>4, <2>2, <2>3, EnteredCrawl
  <2>9. QED
    BY <1>1, <2>6, <2>7, <2>8 DEF PathInv
<1>5. QED
  BY <1>2, <1>3, <1>4 DEF Next

-----------------------------------------------------------------------------
(***************************************************************************)
(* What is done at a step.                                                 *)
(***************************************************************************)
\* Containers of one kind are entered.
LEMMA RungMet ==
  ASSUME IsDdl, NEW c, c.rules.lazy = None, NEW m \in 0 .. 8, NEW b, NEW a, Rung(m, c, asked, b, a)
  PROVE  ~Replaced(c) /\ IsContainer(c.before.node)
<1>1. PICK r : r = c.rules
  OBVIOUS
<1>2. RungRules(m, r) /\ r.lazy = None
  BY <1>1 DEF Rung
<1>3. \A k, kids : Node(k, kids).compare = "default"
  BY DEF Node
<1>4. /\ ddlRules.compare = "default" /\ schemaRules.compare = "default" /\ tableRules.compare = "default"
      /\ columnRules.compare = "default" /\ columnTypeRules.compare = "default"
      /\ scalarTypeRules.compare = "default" /\ enumTypeRules.compare = "default"
  BY <1>3 DEF ddlRules, schemaRules, tableRules, columnRules, columnTypeRules, scalarTypeRules, enumTypeRules
<1>5. SchemasRules.compare = "default" /\ TablesRules.compare = "default" /\ ColumnsRules.compare = "default"
  BY EachRules DEF SchemasRules, TablesRules, ColumnsRules
<1>6. r # asElement(Lazy("tableRules")) /\ r # Lazy("schemaTypeRules")
  BY <1>2, TablesNamed
<1>7. m \in {0, 1, 2, 3, 4, 5, 6, 7, 8}
  OBVIOUS
<1>8. r.compare = "default"
  BY <1>2, <1>4, <1>5, <1>6, <1>7 DEF RungRules, Like
<1>9. ~ReplacedAsWhole(c.rules.compare, c)
  BY <1>1, <1>8 DEF IsDdl, ddlReplacedAsWhole
<1>10. c.before.node.is = KindAt(m) /\ c.after.node.is = KindAt(m)
  BY DEF Rung, SideRung, IsAt
<1>11. KindAt(m) \in {"object", "array"}
  BY DEF KindAt
<1>12. QED
  BY <1>9, <1>10, <1>11 DEF Replaced, IsContainer

\* Another name of a type that is consumed in another way is told.
LEMMA NameMet ==
  ASSUME IsDdl, Given(asked), NEW c, c.scope = "root", NEW b, NEW a, Ladder(9, asked, b, a),
         Rung(9, c, asked, b, a), NEW t, NEW u, t = TypeOf(asked.before, b.c), u = TypeOf(asked.after, a.c),
         readTypeName(t) # readTypeName(u), ~sameConsumptionFamily(t, u),
         NEW d, d = DiffOf(c, "replace")
  PROVE  /\ Replaced(c) /\ d.type = "breaking" /\ d.action # "add" /\ d.path = UpTo(KeysOn(b), 9)
<1>1. PICK m : m = 9
  OBVIOUS
<1>2. m \in 0 .. 9 /\ Climb(m, asked.before, b) /\ Climb(m, asked.after, a)
  BY <1>1 DEF Ladder
<1>3. TypedColumn(asked.before, b.c) /\ TypedColumn(asked.after, a.c)
  <2>1. IsRealm(asked.before) /\ IsWhole(asked.before) /\ IsRealm(asked.after) /\ IsWhole(asked.after) /\ m >= 6
    BY <1>1 DEF Given
  <2>2. m >= 6 => TypedColumn(asked.before, b.c)
    BY <1>2, <2>1, ClimbParts
  <2>3. m >= 6 => TypedColumn(asked.after, a.c)
    BY <1>2, <2>1, ClimbParts
  <2>4. QED
    BY <2>1, <2>2, <2>3
<1>4. Kid(t, "type").is = "scalar" /\ Kid(u, "type").is = "scalar"
  BY <1>3 DEF TypedColumn, TypeOf
<1>5. Kid(t, "type").of # Kid(u, "type").of
  BY <1>4 DEF readTypeName
<1>6. /\ c.before.node = Definition(asked.before.defs, Kid(t, "type")) /\ c.before.above[1] = t
      /\ c.after.node = Definition(asked.after.defs, Kid(u, "type")) /\ c.after.above[1] = u
      /\ c.rules = TypeName /\ c.path = UpTo(KeysOn(b), 9)
  BY DEF Rung, SideRung, IsAt, RungRules
<1>7. c.before.node = Kid(t, "type") /\ c.after.node = Kid(u, "type")
  BY <1>4, <1>6 DEF Definition
<1>8. Replaced(c)
  BY <1>4, <1>5, <1>7 DEF Replaced
<1>9. c.rules.classify = "typeNameClassifier"
  BY <1>6 DEF TypeName, Leaf, Node
<1>10. Verdict(c, "replace") = ddlClassifyRuleOf("typeNameClassifier", c)[3]
  BY <1>9 DEF Verdict, IsDdl, SlotOf
<1>11. ddlClassifyRuleOf("typeNameClassifier", c)[3] = breakingIf(~sameConsumptionFamily(t, u))
  BY <1>6 DEF ddlClassifyRuleOf, typeNameClassifier, ThreeSlots
<1>12. Verdict(c, "replace") = "breaking"
  BY <1>10, <1>11 DEF breakingIf
<1>13. DiffIs(d, c, "replace")
  BY DiffsOfItems
<1>14. QED
  BY <1>6, <1>8, <1>12, <1>13 DEF DiffIs

\* A table or a column that is gone.
LEMMA LoneRung ==
  ASSUME IsDdl, Given(asked), NEW c, GoodParent(c, asked), NEW g \in {3, 5}, NEW b, NEW a,
         Ladder(g, asked, b, a), Rung(g, c, asked, b, a), Climb(g + 1, asked.before, b),
         NEW key, key = KeysOn(b)[g + 1], NEW k, k = RemovedKid(c, key), NEW d, d = DiffOf(k, "remove")
  PROVE  /\ "ignoreAddRemove" \notin k.rules.flags /\ k.before.at = UpTo(KeysOn(b), g + 1)
         /\ d.before = k.before.at /\ d.after = k.after.at /\ d.path = UpTo(KeysOn(b), g + 1)
         /\ d.type = "breaking" /\ d.action = "remove" /\ k.scope = "root"
<1>1. IsDocument(asked.before) /\ IsDocument(asked.after)
  BY DEF Given
<1>2. PICK value : value = Definition(asked.before.defs, Kid(c.before.node, key))
  OBVIOUS
<1>3. /\ k.scope = "root" /\ k.path = Append(c.path, key) /\ IsTable(k.rules)
      /\ k.rules = Resolved(KidRules(c.rules, key), value, <<>>)
      /\ k.before.at = Append(c.before.home, key)
  BY <1>1, <1>2, RemovedKids
<1>4. PICK m, keys, path : m = g + 1 /\ keys = KeysOn(b) /\ path = <<>>
  OBVIOUS
<1>5. m \in 1 .. 9 /\ m \in {4, 6} /\ g = m - 1 /\ g <= 7 /\ m \in 0 .. 9 /\ m # 8 /\ m \in Nat \ {0}
  BY <1>4
<1>6. UpTo(keys, m) = Append(UpTo(keys, m - 1), keys[m])
  BY <1>5, UpToGrows
<1>7. c.path = UpTo(keys, g) /\ c.before.home = UpTo(keys, g)
  BY <1>4, <1>5 DEF Rung, SideRung
<1>8. k.path = UpTo(keys, m) /\ k.before.at = UpTo(keys, m)
  BY <1>3, <1>4, <1>5, <1>6, <1>7
<1>9. PICK r, q : r = c.rules /\ q = KidRules(r, key)
  OBVIOUS
<1>10. RungRules(m - 1, r) /\ r.lazy = None /\ KeyBelow(m, key)
  BY <1>5, <1>9 DEF Rung, GoodParent, KeyBelow
<1>11. RungRules(m, q)
  BY <1>5, <1>9, <1>10, RungBelow
<1>12. IsTable(r) /\ IsTable(q)
  BY <1>9, KidRulesAreTables DEF GoodParent, GoodItem
<1>13. RungRules(m, Resolved(q, value, path)) /\ Resolved(q, value, path).lazy = None
  BY <1>5, <1>11, <1>12, RungResolved
<1>14. k.rules = Resolved(q, value, path)
  BY <1>3, <1>4, <1>9
<1>15. Free(k.rules)
  BY <1>13, <1>14 DEF RungRules
<1>16. k.rules.classify = "addNonBreaking"
  <2>1. k.rules # asElement(Lazy("tableRules"))
    BY <1>13, <1>14, TablesNamed
  <2>2. tableRules.classify = "addNonBreaking" /\ columnRules.classify = "addNonBreaking"
    BY DEF tableRules, columnRules, Node, tableClassifier, columnClassifier
  <2>3. QED
    BY <1>5, <1>13, <1>14, <2>1, <2>2 DEF RungRules, Like
<1>17. Verdict(k, "remove") = "breaking"
  BY <1>16 DEF Verdict, IsDdl, SlotOf, ddlClassifyRuleOf, ddlClassifyRules, ThreeSlots
<1>18. DiffIs(d, k, "remove")
  BY <1>3, DiffsOfItems
<1>19. "ignoreAddRemove" \notin k.rules.flags
  BY <1>15 DEF Free
<1>20. QED
  BY <1>3, <1>4, <1>8, <1>17, <1>18, <1>19 DEF DiffIs

-----------------------------------------------------------------------------
(***************************************************************************)
(* What was told of a table or a column that is gone is breaking, and told *)
(* where it was: it is not told again.                                     *)
(***************************************************************************)
RemovalTells(d, x) ==
  d.action = "remove" =>
    \A b, a : \A g \in {3, 5} :
      Ladder(g, x, b, a) /\ Climb(g + 1, x.before, b) /\ d.before = UpTo(KeysOn(b), g + 1) =>
        d.type = "breaking" /\ d.path = UpTo(KeysOn(b), g + 1)

RemovalInv == \A d \in diffs : RemovalTells(d, asked)

LEMMA RemovalTold ==
  ASSUME IsDdl, Given(asked), NEW c, GoodParent(c, asked), PathsTell(c, asked), NEW key,
         NEW d, d = DiffOf(RemovedKid(c, key), "remove"), d.before = Append(c.before.home, key)
  PROVE  RemovalTells(d, asked)
<1>1. SUFFICES ASSUME NEW b, NEW a, NEW g \in {3, 5},
                      Ladder(g, asked, b, a), Climb(g + 1, asked.before, b),
                      d.before = UpTo(KeysOn(b), g + 1)
               PROVE  d.type = "breaking" /\ d.path = UpTo(KeysOn(b), g + 1)
  BY DEF RemovalTells
<1>2. PICK home, keys, m : home = c.before.home /\ keys = KeysOn(b) /\ m = g + 1
  OBVIOUS
<1>3. IsSequence(home) /\ m \in Nat /\ Append(home, key) = UpTo(keys, m)
  <2>1. IsSequence(c.before.home)
    BY DEF GoodParent, GoodItem, GoodSideOf, GoodSide
  <2>2. m \in Nat
    BY <1>2
  <2>3. Append(c.before.home, key) = UpTo(KeysOn(b), g + 1)
    BY <1>1
  <2>4. Append(home, key) = UpTo(keys, m)
    BY <1>2, <2>3
  <2>5. QED
    BY <1>2, <2>1, <2>2, <2>4
<1>4. home = UpTo(keys, m - 1) /\ key = keys[m]
  BY <1>3, UpToBack
<1>5. home = UpTo(keys, g) /\ key = keys[g + 1] /\ g \in 0 .. 9
  BY <1>2, <1>4
<1>6. IsPlace(c.before, b, g)
  BY <1>2, <1>5 DEF IsPlace
<1>7. Rung(g, c, asked, b, a)
  BY <1>1, <1>5, <1>6 DEF PathsTell
<1>8. QED
  BY <1>1, <1>2, <1>5, <1>7, LoneRung

LEMMA RemovalStep ==
  ASSUME IsDdl, CrawlInv, PathInv, RemovalInv, Given(asked), [Next]_vars
  PROVE  RemovalInv'
<1>0. IsDocument(asked.before) /\ IsDocument(asked.after)
  BY DEF Given
<1>1. asked' = asked
  BY <1>0, CrawlStep
<1>2. CASE UNCHANGED vars
  BY <1>2 DEF vars, RemovalInv
<1>3. ASSUME NEW c \in Current, Ignore(c) \/ Reuse(c) PROVE RemovalInv'
  BY <1>1, <1>3 DEF Ignore, Reuse, RemovalInv
<1>4. ASSUME NEW c \in Current, Settle(c) \/ Enter(c) PROVE RemovalInv'
  <2>1. PICK D : D = Renamed(c) \cup (IF Replaced(c) THEN {DiffOf(c, "replace")} ELSE {})
    OBVIOUS
  <2>2. diffs' \subseteq diffs \cup D
    BY <1>4, <2>1 DEF Settle, Enter
  <2>3. Met(c, D)
    BY <2>1, CurrentIsGood, MetDiffs
  <2>4. \A d \in D : d.action # "remove"
    BY <2>3 DEF Met, DiffIs
  <2>5. QED
    BY <1>1, <2>2, <2>4 DEF RemovalInv, RemovalTells
<1>5. ASSUME NEW c \in Current, Leave(c) PROVE RemovalInv'
  <2>1. GoodParent(c, asked)
    BY <1>5, CurrentIsGood DEF Leave
  <2>2. PICK removed, added : removed = MappingData(c).removed /\ added = MappingData(c).added
    OBVIOUS
  <2>3. PICK R, A : R = Removals(c, removed) /\ A = Additions(c, added)
    OBVIOUS
  <2>4. diffs' = diffs \cup R \cup A
    BY <1>5, <2>2, <2>3 DEF Leave
  <2>5. PathsTell(c, asked)
    BY CurrentTells
  <2>6. \A d \in R : \E key \in removed : d = DiffOf(RemovedKid(c, key), "remove")
                                         /\ d.before = Append(c.before.home, key)
    BY <1>0, <2>1, <2>3, LoneDiffs
  <2>7. \A d \in A : d.action = "add"
    <3>1. \A d \in A : \E key \in added : DiffIs(d, AddedKid(c, key), "add")
      BY <1>0, <2>1, <2>3, LoneDiffs
    <3>2. QED
      BY <3>1 DEF DiffIs
  <2>8. \A d \in R : RemovalTells(d, asked)
    <3>1. ASSUME NEW d \in R PROVE RemovalTells(d, asked)
      <4>1. PICK key \in removed : d = DiffOf(RemovedKid(c, key), "remove")
                                   /\ d.before = Append(c.before.home, key)
        BY <2>6
      <4>2. QED
        BY <2>1, <2>5, <4>1, RemovalTold
    <3>2. QED
      BY <3>1
  <2>9. \A d \in A : RemovalTells(d, asked)
    BY <2>7 DEF RemovalTells
  <2>10. QED
    BY <1>1, <2>4, <2>8, <2>9 DEF RemovalInv
<1>6. QED
  BY <1>2, <1>3, <1>4, <1>5 DEF Next

-----------------------------------------------------------------------------
(***************************************************************************)
(* The crawl: what is lost is told, or the way to it is still to be gone.  *)
(***************************************************************************)
Elsewhere(z, n, property) ==
  \A e \in ElementsOf(Elements(n, property)) : nameKey(e) # nameKey(z)

\* A table, a column, or how its values are consumed is lost: g is how far the sides go together.
Goal(g, x, b, a) ==
  /\ Ladder(g, x, b, a)
  /\ g = 3 => Climb(4, x.before, b) /\ Elsewhere(b.t, a.s, "tables")
  /\ g = 5 => Climb(6, x.before, b) /\ Elsewhere(b.c, a.t, "columns")
  /\ g = 9 => LET t == TypeOf(x.before, b.c)  u == TypeOf(x.after, a.c)
              IN  /\ readTypeName(t) # readTypeName(u) /\ ~sameConsumptionFamily(t, u)
                  /\ OwnType(b) \/ OwnType(a)

PlaceTold(g) == IF g = 9 THEN 9 ELSE g + 1

\* It is told by a difference.
TellsOf(g, b, d) == d.type = "breaking" /\ d.action # "add" /\ d.path = UpTo(KeysOn(b), PlaceTold(g))

\* No pair of this step has been met.
Unseen(l, b, a) ==
  \A f \in DOMAIN compared : f[1] # UpTo(KeysOn(b), l) /\ f[2] # UpTo(KeysOn(a), l)

\* The item is at a step of the way, and the rest of it is still to be gone.
Leads(i, g, b, a) ==
  \/ ~i.entered /\ \E m \in 0 .. g : Rung(m, i, asked, b, a) /\ \A l \in m .. g : Unseen(l, b, a)
  \/ i.entered /\ g # 9 /\ Rung(g, i, asked, b, a)

Covered(g, b, a) == (\E d \in diffs : TellsOf(g, b, d)) \/ \E n \in DOMAIN todo : Leads(todo[n], g, b, a)

CoverInv == \A g \in {3, 5, 9} : \A b, a : Goal(g, asked, b, a) => Covered(g, b, a)

LEMMA CoverInit ==
  ASSUME IsDdl, DocumentsGiven, Init
  PROVE  CoverInv
<1>1. asked \in Input /\ todo = <<Start(asked)>> /\ DOMAIN compared = {}
  BY DEF Init
<1>2. PathInv /\ CrawlInv
  BY PathInit, CrawlInit
<1>3. PICK i : i = Start(asked)
  OBVIOUS
<1>4. 1 \in DOMAIN todo /\ todo[1] = i
  BY <1>1, <1>3
<1>5. PICK s, t, ks, path, r : /\ s = RootSide(asked.before) /\ t = RootSide(asked.after)
                               /\ ks = <<<<"#", "#">>>> /\ path = <<>> /\ r = ddlRules
  OBVIOUS
<1>6. i = [rules |-> r, before |-> s, after |-> t, keys |-> ks, scope |-> "root",
           path |-> path, entered |-> FALSE]
  BY <1>3, <1>5 DEF Start, Item, IsDdl
<1>7. i.before = s /\ ~i.entered
  BY <1>6
<1>8. \A z : UpTo(KeysOn(z), 0) = path
  BY <1>5, UpToIs
<1>9. s.at = path
  <2>1. IsDocument(asked.before)
    BY <1>1 DEF DocumentsGiven
  <2>2. asked.before.root.is = "object"
    BY <2>1, NodesAreThere DEF DocumentOf
  <2>3. QED
    BY <1>5, <2>2 DEF RootSide, Side
<1>10. PathsTell(i, asked)
  BY <1>2, <1>4 DEF PathInv
<1>11. ASSUME NEW g \in {3, 5, 9}, NEW b, NEW a, Goal(g, asked, b, a) PROVE Covered(g, b, a)
  <2>1. PICK m : m = 0
    OBVIOUS
  <2>2. g \in 0 .. 9 /\ m \in 0 .. g /\ m \in 0 .. 9 /\ Ladder(g, asked, b, a)
    BY <1>11, <2>1 DEF Goal
  <2>3. Ladder(m, asked, b, a)
    BY <2>2, ShorterLadder
  <2>4. IsPlace(i.before, b, m)
    BY <1>7, <1>8, <1>9, <2>1 DEF IsPlace
  <2>5. Rung(m, i, asked, b, a)
    BY <1>10, <2>2, <2>3, <2>4 DEF PathsTell
  <2>6. \A l \in m .. g : Unseen(l, b, a)
    BY <1>1 DEF Unseen
  <2>7. Leads(i, g, b, a)
    BY <1>7, <2>2, <2>5, <2>6 DEF Leads
  <2>8. QED
    BY <1>4, <2>7 DEF Covered
<1>12. QED
  BY <1>11 DEF CoverInv

\* What is not the head stays.
LEMMA RestStays ==
  ASSUME IsDdl, CrawlInv, Given(asked), NEW c \in Current,
         Ignore(c) \/ Reuse(c) \/ Settle(c) \/ Enter(c) \/ Leave(c), NEW n \in DOMAIN todo, n # 1
  PROVE  \E k \in DOMAIN todo' : todo'[k] = todo[n]
<1>1. CASE Enter(c)
  <2>1. IsDocument(asked.before) /\ IsDocument(asked.after)
    BY DEF Given
  <2>2. PICK e, mapped : e = [c EXCEPT !.entered = TRUE] /\ mapped = MappingData(c).mapped
    OBVIOUS
  <2>3. \A m \in DOMAIN todo : m # 1 => \E k \in DOMAIN todo' : todo'[k] = todo[m]
    BY <1>1, <2>1, <2>2, EnteredCrawl
  <2>4. QED
    BY <2>3
<1>2. CASE Ignore(c) \/ Reuse(c) \/ Settle(c) \/ Leave(c)
  <2>1. todo' = Tail(todo) /\ todo # <<>>
    BY <1>2, CurrentIsGood DEF Ignore, Reuse, Settle, Leave
  <2>2. PICK S : todo \in Seq(S)
    BY DEF CrawlInv, IsSequence
  <2>3. n - 1 \in DOMAIN Tail(todo) /\ Tail(todo)[n - 1] = todo[n]
    BY <2>1, <2>2
  <2>4. QED
    BY <2>1, <2>3
<1>3. QED
  BY <1>1, <1>2

\* A pair that is met is of one step only.
LEMMA UnseenStays ==
  ASSUME IsDdl, CrawlInv, NEW c \in Current, Settle(c) \/ Enter(c), NEW l, NEW b, NEW a, Unseen(l, b, a),
         c.before.at # UpTo(KeysOn(b), l), c.after.at # UpTo(KeysOn(a), l)
  PROVE  Unseen(l, b, a)'
<1>1. Footprint(c) = <<c.before.at, c.after.at, "root">>
  BY CurrentIsGood, MetDiffs
<1>2. DOMAIN compared' = DOMAIN compared \cup {Footprint(c)}
  BY DEF Settle, Enter, Remember, Over
<1>3. \A f \in DOMAIN compared' : f[1] # UpTo(KeysOn(b), l) /\ f[2] # UpTo(KeysOn(a), l)
  BY <1>1, <1>2 DEF Unseen
<1>4. QED
  BY <1>3 DEF Unseen

\* An element without a namesake is removed.
LEMMA ElementRemoved ==
  ASSUME IsDdl, IsDocument(asked.before), IsDocument(asked.after),
         NEW c, GoodParent(c, asked), c.rules.mapping = "nameMappingResolver",
         NEW n, NEW o, NEW property, NamedOnce(n, property), NamedOnce(o, property),
         c.before.node = Definition(asked.before.defs, Kid(n, property)),
         c.after.node = Definition(asked.after.defs, Kid(o, property)),
         NEW kb, NEW e, Named(n, property, kb, e), Elsewhere(e, o, property)
  PROVE  kb \in MappingData(c).removed
<1>1. PICK r, eb, ea : r = MappingData(c) /\ eb = Elements(n, property) /\ ea = Elements(o, property)
  OBVIOUS
<1>2. \A key \in DOMAIN r.mapped :
              /\ key \in DOMAIN eb /\ r.mapped[key] \in DOMAIN ea
              /\ nameKey(eb[key]) = nameKey(ea[r.mapped[key]])
  BY <1>1, NamesPaired
<1>3. kb \in DOMAIN eb /\ e = eb[kb]
  BY <1>1 DEF Named
<1>4. kb \notin DOMAIN r.mapped
  <2>1. SUFFICES ASSUME kb \in DOMAIN r.mapped PROVE FALSE
    OBVIOUS
  <2>2. PICK f : f = ea[r.mapped[kb]]
    OBVIOUS
  <2>3. f \in ElementsOf(ea) /\ nameKey(e) = nameKey(f)
    BY <1>2, <1>3, <2>1, <2>2 DEF ElementsOf
  <2>4. QED
    BY <1>1, <2>3 DEF Elsewhere
<1>5. kb \in DOMAIN c.before.node.kids
  <2>1. Kid(n, property).is # "ref" /\ Has(n, property)
    BY <1>1, <1>3 DEF NamedOnce, Elements
  <2>2. QED
    BY <1>1, <1>3, <2>1 DEF Definition, Elements
<1>6. EachKeyOnce(r, DOMAIN c.before.node.kids, DOMAIN c.after.node.kids)
  BY <1>1, MappingContract
<1>7. QED
  BY <1>1, <1>4, <1>5, <1>6 DEF EachKeyOnce

LEMMA GoalRemoved ==
  ASSUME IsDdl, Given(asked), NEW c, GoodParent(c, asked), NEW g \in {3, 5}, NEW b, NEW a,
         Goal(g, asked, b, a), Rung(g, c, asked, b, a)
  PROVE  KeysOn(b)[g + 1] \in MappingData(c).removed
<1>1. IsDocument(asked.before) /\ IsDocument(asked.after)
  BY DEF Given
<1>2. /\ IsAt(g, asked.before, b, c.before.node) /\ IsAt(g, asked.after, a, c.after.node)
      /\ RungRules(g, c.rules)
  BY DEF Rung, SideRung
<1>3. Climb(g, asked.before, b) /\ Climb(g, asked.after, a) /\ g \in 0 .. 9
  BY DEF Goal, Ladder
<1>4. /\ NamedOnce(b.s, "tables") /\ NamedOnce(a.s, "tables")
      /\ g >= 4 => NamedOnce(b.t, "columns") /\ NamedOnce(a.t, "columns")
  BY <1>3, ClimbParts DEF Given
<1>5. \A r, resolver : Each(r, resolver).mapping = resolver
  BY EachRules
<1>6. CASE g = 3
  <2>1. c.rules.mapping = "nameMappingResolver"
    BY <1>2, <1>5, <1>6 DEF RungRules, TablesRules
  <2>2. /\ c.before.node = Definition(asked.before.defs, Kid(b.s, "tables"))
        /\ c.after.node = Definition(asked.after.defs, Kid(a.s, "tables"))
    BY <1>2, <1>6 DEF IsAt
  <2>3. PICK n, o, e, kb : n = b.s /\ o = a.s /\ e = b.t /\ kb = b.q
    OBVIOUS
  <2>4. Climb(4, asked.before, b) /\ Elsewhere(b.t, a.s, "tables")
    BY <1>6 DEF Goal
  <2>5. Named(n, "tables", kb, e) /\ Elsewhere(e, o, "tables")
    BY <2>3, <2>4 DEF Climb
  <2>6. kb \in MappingData(c).removed
    BY <1>1, <1>4, <2>1, <2>2, <2>3, <2>5, ElementRemoved
  <2>7. KeysOn(b)[g + 1] = b.q
    BY <1>6, KeysAre
  <2>8. QED
    BY <2>3, <2>6, <2>7
<1>7. CASE g = 5
  <2>1. c.rules.mapping = "nameMappingResolver"
    BY <1>2, <1>5, <1>7 DEF RungRules, ColumnsRules
  <2>2. /\ c.before.node = Definition(asked.before.defs, Kid(b.t, "columns"))
        /\ c.after.node = Definition(asked.after.defs, Kid(a.t, "columns"))
    BY <1>2, <1>7 DEF IsAt
  <2>3. PICK n, o, e, kb : n = b.t /\ o = a.t /\ e = b.c /\ kb = b.r
    OBVIOUS
  <2>4. Climb(6, asked.before, b) /\ Elsewhere(b.c, a.t, "columns")
    BY <1>7 DEF Goal
  <2>5. Named(n, "columns", kb, e) /\ Elsewhere(e, o, "columns")
    BY <2>3, <2>4 DEF Climb
  <2>6. NamedOnce(n, "columns") /\ NamedOnce(o, "columns")
    BY <1>4, <1>7, <2>3
  <2>7. kb \in MappingData(c).removed
    BY <1>1, <2>1, <2>2, <2>3, <2>5, <2>6, ElementRemoved
  <2>8. KeysOn(b)[g + 1] = b.r
    BY <1>7, KeysAre
  <2>9. QED
    BY <2>3, <2>7, <2>8
<1>8. QED
  BY <1>6, <1>7

\* A step of the way is met: the next one is still to be gone, or what is lost is told.
LEMMA WayGoesOn ==
  ASSUME IsDdl, CrawlInv, PathInv, Given(asked), NEW g \in {3, 5, 9}, NEW b, NEW a, Goal(g, asked, b, a),
         NEW c \in Current, Settle(c) \/ Enter(c), NEW l \in 0 .. g, \A j \in l .. g : Unseen(j, b, a),
         c.before.at = UpTo(KeysOn(b), l) \/ c.after.at = UpTo(KeysOn(a), l)
  PROVE  Covered(g, b, a)'
<1>0. IsDocument(asked.before) /\ IsDocument(asked.after)
  BY DEF Given
<1>1. ~c.entered /\ asked' = asked
  BY DEF Settle, Enter, Fresh
<1>2. GoodItem(c, asked) /\ c.rules.lazy = None /\ PathsTell(c, asked)
  BY <1>1, CurrentIsGood, CurrentTells
<1>3. g \in 0 .. 9 /\ l \in 0 .. 9 /\ Ladder(g, asked, b, a)
  BY DEF Goal
<1>4. Ladder(l, asked, b, a)
  BY <1>3, ShorterLadder
<1>5. Rung(l, c, asked, b, a)
  BY <1>2, <1>3, <1>4 DEF PathsTell, IsPlace
<1>6. CASE l = 9
  <2>1. g = 9
    BY <1>6
  <2>2. PICK t, u, d : /\ t = TypeOf(asked.before, b.c) /\ u = TypeOf(asked.after, a.c)
                       /\ d = DiffOf(c, "replace")
    OBVIOUS
  <2>3. readTypeName(t) # readTypeName(u) /\ ~sameConsumptionFamily(t, u)
    BY <2>1, <2>2 DEF Goal
  <2>4. Ladder(9, asked, b, a) /\ Rung(9, c, asked, b, a) /\ c.scope = "root"
    BY <1>2, <1>4, <1>5, <1>6 DEF GoodItem
  <2>5. Replaced(c) /\ d.type = "breaking" /\ d.action # "add" /\ d.path = UpTo(KeysOn(b), 9)
    BY <2>2, <2>3, <2>4, NameMet
  <2>6. d \in diffs'
    BY <2>2, <2>5 DEF Settle, Enter
  <2>7. PlaceTold(g) = 9
    BY <2>1 DEF PlaceTold
  <2>8. TellsOf(g, b, d)
    BY <2>5, <2>7 DEF TellsOf
  <2>9. QED
    BY <2>6, <2>8 DEF Covered
<1>7. CASE l # 9
  <2>1. l \in 0 .. 8
    BY <1>3, <1>7
  <2>2. ~Replaced(c) /\ IsContainer(c.before.node)
    BY <1>2, <1>5, <2>1, RungMet
  <2>3. Enter(c) /\ GoodParent(c, asked)
    BY <1>1, <2>2, EnteredIsGood DEF Settle
  <2>4. PICK mapped : mapped = MappingData(c).mapped
    OBVIOUS
  <2>5. PICK e : /\ e = [c EXCEPT !.entered = TRUE] /\ e.entered /\ e.rules = c.rules
                 /\ e.before = c.before /\ e.after = c.after /\ e.path = c.path
    BY <1>1, <2>2, EnteredIsGood
  <2>6. CASE l = g
    <3>1. Rung(g, e, asked, b, a)
      BY <1>5, <2>5, <2>6, SamePaths
    <3>2. \E n \in DOMAIN todo' : todo'[n] = e
      BY <1>0, <2>3, <2>4, <2>5, EnteredCrawl
    <3>3. g # 9
      BY <1>7, <2>6
    <3>4. Leads(e, g, b, a)'
      BY <1>1, <2>5, <3>1, <3>3 DEF Leads
    <3>5. QED
      BY <3>2, <3>4 DEF Covered
  <2>7. CASE l # g
    <3>1. PICK m : m = l + 1
      OBVIOUS
    <3>2. m \in 1 .. 9 /\ m \in 0 .. 9 /\ l = m - 1 /\ m \in 0 .. g /\ m \in l .. g
      BY <1>3, <2>1, <2>7, <3>1
    <3>3. Ladder(m, asked, b, a)
      BY <1>3, <3>2, ShorterLadder
    <3>4. Rung(m - 1, c, asked, b, a)
      BY <1>5, <3>2
    <3>5. PICK kb, ka, kid : kb = KeysOn(b)[m] /\ ka = KeysOn(a)[m] /\ kid = MappedKid(c, kb, ka)
      OBVIOUS
    <3>6. kb \in DOMAIN mapped /\ mapped[kb] = ka
      BY <2>3, <2>4, <3>2, <3>3, <3>4, <3>5, RungMapped
    <3>7. Rung(m, kid, asked, b, a)
      BY <2>3, <3>2, <3>3, <3>4, <3>5, RungDown
    <3>8. c.before.node.is = "object" => ka = kb
      BY <1>0, <2>3, <2>4, <3>6, MappingContract
    <3>9. ~kid.entered
      BY <1>0, <2>3, <3>5, <3>8, MappedKidIsGood
    <3>10. \A key \in DOMAIN mapped : \E n \in DOMAIN todo' : todo'[n] = MappedKid(c, key, mapped[key])
      BY <1>0, <2>3, <2>4, <2>5, EnteredCrawl
    <3>11. \E n \in DOMAIN todo' : todo'[n] = kid
      BY <3>5, <3>6, <3>10
    <3>12. c.before.at = UpTo(KeysOn(b), l) /\ c.after.at = UpTo(KeysOn(a), l)
      BY <1>5, <2>1 DEF Rung, SideRung
    <3>13. \A j \in m .. g : Unseen(j, b, a)'
      <4>1. ASSUME NEW j \in m .. g PROVE Unseen(j, b, a)'
        <5>1. j \in l .. g /\ j # l /\ j \in Nat /\ l \in Nat
          BY <1>3, <3>1
        <5>2. UpTo(KeysOn(b), l) # UpTo(KeysOn(b), j) /\ UpTo(KeysOn(a), l) # UpTo(KeysOn(a), j)
          BY <5>1, UpToIs
        <5>3. Unseen(j, b, a)
          BY <5>1
        <5>4. QED
          BY <3>12, <5>2, <5>3, UnseenStays
      <4>2. QED
        BY <4>1
    <3>14. Leads(kid, g, b, a)'
      BY <1>1, <3>2, <3>7, <3>9, <3>13 DEF Leads
    <3>15. QED
      BY <3>11, <3>14 DEF Covered
  <2>8. QED
    BY <2>6, <2>7
<1>8. QED
  BY <1>6, <1>7

\* The pair that leads to what is lost is left: it is told.
LEMMA LossLeft ==
  ASSUME IsDdl, CrawlInv, PathInv, RemovalInv, Given(asked), NEW g \in {3, 5}, NEW b, NEW a,
         Goal(g, asked, b, a), NEW c \in Current, Leave(c), Rung(g, c, asked, b, a)
  PROVE  Covered(g, b, a)'
<1>1. GoodParent(c, asked)
  BY CurrentIsGood DEF Leave
<1>2. PICK removed, added, key, k, d : /\ removed = MappingData(c).removed /\ added = MappingData(c).added
                                       /\ key = KeysOn(b)[g + 1] /\ k = RemovedKid(c, key)
                                       /\ d = DiffOf(k, "remove")
  OBVIOUS
<1>3. key \in removed
  BY <1>1, <1>2, GoalRemoved
<1>4. Ladder(g, asked, b, a) /\ Climb(g + 1, asked.before, b)
  <2>1. g = 3 \/ g = 5
    OBVIOUS
  <2>2. (g = 3 => g + 1 = 4) /\ (g = 5 => g + 1 = 6)
    OBVIOUS
  <2>3. QED
    BY <2>1, <2>2 DEF Goal
<1>5. /\ "ignoreAddRemove" \notin k.rules.flags /\ k.before.at = UpTo(KeysOn(b), g + 1)
      /\ d.before = k.before.at /\ d.after = k.after.at /\ d.path = UpTo(KeysOn(b), g + 1)
      /\ d.type = "breaking" /\ d.action = "remove" /\ k.scope = "root"
  BY <1>1, <1>2, <1>4, LoneRung
<1>6. PlaceTold(g) = g + 1
  BY DEF PlaceTold
<1>7. diffs \subseteq diffs' /\ Removals(c, removed) \subseteq diffs'
  BY <1>2 DEF Leave
<1>8. CASE AlreadyTold("remove", k)
  <2>1. PICK o \in diffs : o.action = "remove" /\ o.before = k.before.at
    BY <1>8 DEF AlreadyTold
  <2>2. RemovalTells(o, asked)
    BY DEF RemovalInv
  <2>3. o.type = "breaking" /\ o.path = UpTo(KeysOn(b), g + 1)
    BY <1>4, <1>5, <2>1, <2>2 DEF RemovalTells
  <2>4. TellsOf(g, b, o)
    BY <1>6, <2>1, <2>3 DEF TellsOf
  <2>5. QED
    BY <1>7, <2>4 DEF Covered
<1>9. CASE ~AlreadyTold("remove", k)
  <2>1. d \in Removals(c, removed)
    BY <1>2, <1>3, <1>5, <1>9 DEF Removals, Tells
  <2>2. TellsOf(g, b, d)
    BY <1>5, <1>6 DEF TellsOf
  <2>3. QED
    BY <1>7, <2>1, <2>2 DEF Covered
<1>10. QED
  BY <1>8, <1>9

\* The next item is on the way.
LEMMA HeadLeads ==
  ASSUME IsDdl, CrawlInv, PathInv, RemovalInv, Given(asked), NEW g \in {3, 5, 9}, NEW b, NEW a,
         Goal(g, asked, b, a), NEW c \in Current,
         Ignore(c) \/ Reuse(c) \/ Settle(c) \/ Enter(c) \/ Leave(c), Leads(Head(todo), g, b, a)
  PROVE  Covered(g, b, a)'
<1>1. PICK i : i = Head(todo)
  OBVIOUS
<1>2. CASE i.entered
  <2>1. c = i
    BY <1>1, <1>2 DEF Current
  <2>2. Leave(c)
    BY <1>2, <2>1 DEF Ignore, Reuse, Settle, Enter, Fresh
  <2>3. g \in {3, 5} /\ Rung(g, c, asked, b, a)
    BY <1>1, <1>2, <2>1 DEF Leads
  <2>4. QED
    BY <2>2, <2>3, LossLeft
<1>3. CASE ~i.entered
  <2>1. ~c.entered
    <3>1. SUFFICES ASSUME c.entered PROVE FALSE
      OBVIOUS
    <3>2. c = i
      BY <1>1, <3>1, CurrentIsGood
    <3>3. QED
      BY <1>3, <3>1, <3>2
  <2>2. GoodItem(c, asked) /\ GoodItem(i, asked) /\ c = Context(i)
    BY <1>1, <2>1, CurrentIsGood
  <2>3. PICK m \in 0 .. g : Rung(m, i, asked, b, a) /\ \A l \in m .. g : Unseen(l, b, a)
    BY <1>1, <1>3 DEF Leads
  <2>4. g \in 0 .. 9 /\ m \in 0 .. 9 /\ Ladder(g, asked, b, a) /\ m \in m .. g
    BY DEF Goal
  <2>5. Ladder(m, asked, b, a)
    BY <2>4, ShorterLadder
  <2>6. Rung(m, c, asked, b, a) /\ ~Ignored(c)
    BY <1>3, <2>2, <2>3, <2>4, <2>5, RungOfContext
  <2>7. c.before.at = UpTo(KeysOn(b), m) \/ c.after.at = UpTo(KeysOn(a), m)
    <3>1. CASE m <= 8
      BY <2>6, <3>1 DEF Rung, SideRung
    <3>2. CASE m = 9
      <4>1. g = 9
        BY <3>2
      <4>2. OwnType(b) \/ OwnType(a)
        BY <4>1 DEF Goal
      <4>3. QED
        BY <2>6, <3>2, <4>2 DEF Rung, SideRung
    <3>3. QED
      BY <2>4, <3>1, <3>2
  <2>8. Footprint(c) = <<c.before.at, c.after.at, "root">>
    BY <2>2, MetDiffs
  <2>9. Footprint(c) \notin DOMAIN compared
    BY <2>3, <2>4, <2>7, <2>8 DEF Unseen
  <2>10. Settle(c) \/ Enter(c)
    BY <2>1, <2>6, <2>9 DEF Ignore, Reuse, Leave
  <2>11. QED
    BY <2>3, <2>7, <2>10, WayGoesOn
<1>4. QED
  BY <1>2, <1>3

\* An item further on is.
LEMMA RestLeads ==
  ASSUME IsDdl, CrawlInv, PathInv, Given(asked), NEW g \in {3, 5, 9}, NEW b, NEW a,
         Goal(g, asked, b, a), NEW c \in Current,
         Ignore(c) \/ Reuse(c) \/ Settle(c) \/ Enter(c) \/ Leave(c),
         NEW n \in DOMAIN todo, n # 1, Leads(todo[n], g, b, a)
  PROVE  Covered(g, b, a)'
<1>0. IsDocument(asked.before) /\ IsDocument(asked.after)
  BY DEF Given
<1>1. PICK i : i = todo[n] /\ \E k \in DOMAIN todo' : todo'[k] = i
  BY RestStays
<1>2. asked' = asked
  BY DEF Ignore, Reuse, Settle, Enter, Leave
<1>3. CASE i.entered
  <2>1. g # 9 /\ Rung(g, i, asked, b, a)
    BY <1>1, <1>3 DEF Leads
  <2>2. Leads(i, g, b, a)'
    BY <1>2, <1>3, <2>1 DEF Leads
  <2>3. QED
    BY <1>1, <2>2 DEF Covered
<1>4. CASE ~i.entered
  <2>1. PICK m \in 0 .. g : Rung(m, i, asked, b, a) /\ \A l \in m .. g : Unseen(l, b, a)
    BY <1>1, <1>4 DEF Leads
  <2>2. ASSUME \A l \in m .. g : Unseen(l, b, a)' PROVE Covered(g, b, a)'
    <3>1. Leads(i, g, b, a)'
      BY <1>2, <1>4, <2>1, <2>2 DEF Leads
    <3>2. QED
      BY <1>1, <3>1 DEF Covered
  <2>3. CASE Ignore(c) \/ Reuse(c) \/ Leave(c)
    <3>1. compared' = compared
      BY <2>3 DEF Ignore, Reuse, Leave
    <3>2. \A l \in m .. g : Unseen(l, b, a)'
      BY <2>1, <3>1 DEF Unseen
    <3>3. QED
      BY <2>2, <3>2
  <2>4. CASE Settle(c) \/ Enter(c)
    <3>1. CASE \E l \in m .. g : c.before.at = UpTo(KeysOn(b), l) \/ c.after.at = UpTo(KeysOn(a), l)
      <4>1. PICK l \in m .. g : c.before.at = UpTo(KeysOn(b), l) \/ c.after.at = UpTo(KeysOn(a), l)
        BY <3>1
      <4>2. l \in 0 .. g /\ \A j \in l .. g : j \in m .. g
        OBVIOUS
      <4>3. \A j \in l .. g : Unseen(j, b, a)
        BY <2>1, <4>2
      <4>4. QED
        BY <2>4, <4>1, <4>2, <4>3, WayGoesOn
    <3>2. CASE \A l \in m .. g : c.before.at # UpTo(KeysOn(b), l) /\ c.after.at # UpTo(KeysOn(a), l)
      <4>1. ASSUME NEW l \in m .. g PROVE Unseen(l, b, a)'
        <5>1. /\ Unseen(l, b, a) /\ c.before.at # UpTo(KeysOn(b), l)
              /\ c.after.at # UpTo(KeysOn(a), l)
          BY <2>1, <3>2
        <5>2. QED
          BY <2>4, <5>1, UnseenStays
      <4>2. QED
        BY <2>2, <4>1
    <3>3. QED
      BY <3>1, <3>2
  <2>5. QED
    BY <2>3, <2>4
<1>5. QED
  BY <1>3, <1>4

LEMMA CoverStep ==
  ASSUME IsDdl, CrawlInv, PathInv, RemovalInv, CoverInv, Given(asked), [Next]_vars
  PROVE  CoverInv'
<1>0. IsDocument(asked.before) /\ IsDocument(asked.after)
  BY DEF Given
<1>1. asked' = asked
  BY <1>0, CrawlStep
<1>2. ASSUME UNCHANGED vars, NEW g, NEW b, NEW a, Covered(g, b, a) PROVE Covered(g, b, a)'
  BY <1>2 DEF vars, Covered, Leads, Unseen
<1>3. ASSUME NEW c \in Current, Ignore(c) \/ Reuse(c) \/ Settle(c) \/ Enter(c) \/ Leave(c),
             NEW g \in {3, 5, 9}, NEW b, NEW a, Goal(g, asked, b, a), Covered(g, b, a)
      PROVE  Covered(g, b, a)'
  <2>1. CASE \E d \in diffs : TellsOf(g, b, d)
    <3>1. diffs \subseteq diffs'
      BY <1>3 DEF Ignore, Reuse, Settle, Enter, Leave
    <3>2. QED
      BY <2>1, <3>1 DEF Covered
  <2>2. CASE \E n \in DOMAIN todo : Leads(todo[n], g, b, a)
    <3>1. PICK n \in DOMAIN todo : Leads(todo[n], g, b, a)
      BY <2>2
    <3>2. CASE n = 1
      <4>1. todo # <<>>
        BY <1>3, CurrentIsGood
      <4>2. Head(todo) = todo[1]
        BY <4>1 DEF CrawlInv, IsSequence
      <4>3. QED
        BY <1>3, <3>1, <3>2, <4>2, HeadLeads
    <3>3. CASE n # 1
      BY <1>3, <3>1, <3>3, RestLeads
    <3>4. QED
      BY <3>2, <3>3
  <2>3. QED
    BY <1>3, <2>1, <2>2 DEF Covered
<1>4. ASSUME NEW g \in {3, 5, 9}, NEW b, NEW a, Goal(g, asked, b, a) PROVE Covered(g, b, a)'
  <2>1. Covered(g, b, a)
    BY <1>4 DEF CoverInv
  <2>2. CASE UNCHANGED vars
    BY <1>2, <2>1, <2>2
  <2>3. CASE Next
    <3>1. PICK c \in Current : Ignore(c) \/ Reuse(c) \/ Settle(c) \/ Enter(c) \/ Leave(c)
      BY <2>3 DEF Next
    <3>2. QED
      BY <1>3, <1>4, <2>1, <3>1
  <2>4. QED
    BY <2>2, <2>3
<1>5. QED
  BY <1>1, <1>4 DEF CoverInv

-----------------------------------------------------------------------------
(***************************************************************************)
(* A query that is lost: what it is of is gone, or how its values are      *)
(* consumed is.                                                            *)
(***************************************************************************)
LEMMA PrefixOfTable ==
  ASSUME NEW a, NEW b, NEW c, NEW e
  PROVE  /\ IsPrefix(<<a, b>>, <<a, b>> \o <<c>>) /\ IsPrefix(<<a, b>>, <<a, b>> \o <<c, e>>)
         /\ <<a, b>> # <<>> /\ <<a, b, c>> # <<>>
<1>1. PICK S : S = {a, b, c, e}
  OBVIOUS
<1>2. PICK k, l, m : k = <<a, b>> /\ l = <<a, b>> \o <<c>> /\ m = <<a, b>> \o <<c, e>>
  OBVIOUS
<1>3. /\ k \in Seq(S) /\ l \in Seq(S) /\ m \in Seq(S) /\ Len(k) = 2 /\ Len(l) = 3 /\ Len(m) = 4
      /\ k[1] = a /\ k[2] = b
  BY <1>1, <1>2
<1>4. l[1] = a /\ l[2] = b /\ m[1] = a /\ m[2] = b
  BY <1>2, QueryParts
<1>5. /\ SubSeq(k, 1, 2) = [i \in 1 .. 2 |-> k[i]]
      /\ SubSeq(l, 1, 2) = [i \in 1 .. 2 |-> l[i]]
      /\ SubSeq(m, 1, 2) = [i \in 1 .. 2 |-> m[i]]
  BY <1>3
<1>6. \A i \in 1 .. 2 : k[i] = l[i] /\ k[i] = m[i]
  BY <1>3, <1>4
<1>7. SubSeq(k, 1, 2) = SubSeq(l, 1, 2) /\ SubSeq(k, 1, 2) = SubSeq(m, 1, 2)
  BY <1>5, <1>6
<1>8. IsPrefix(k, l) /\ IsPrefix(k, m)
  BY <1>3, <1>7 DEF IsPrefix
<1>9. <<a, b>> # <<>> /\ <<a, b, c>> # <<>>
  OBVIOUS
<1>10. QED
  BY <1>2, <1>8, <1>9

\* The place of what is told.
LEMMA LossPlace ==
  ASSUME NEW x, NEW g \in {3, 5, 9}, NEW b, NEW d, TellsOf(g, b, d),
         Climb(IF g = 3 THEN 4 ELSE 6, x.before, b)
  PROVE  /\ g = 3 => PlaceOf(x, d) = <<nameKey(b.s), nameKey(b.t)>>
         /\ g # 3 => PlaceOf(x, d) = <<nameKey(b.s), nameKey(b.t), nameKey(b.c)>>
<1>1. PICK n, keys, path : n = PlaceTold(g) /\ keys = KeysOn(b) /\ path = d.path
  OBVIOUS
<1>2. n \in {4, 6, 9} /\ n \in Nat /\ (g = 3 => n = 4) /\ (g # 3 => n >= 6)
  BY <1>1 DEF PlaceTold
<1>3. d.action # "add" /\ path = UpTo(keys, n)
  BY <1>1 DEF TellsOf
<1>4. IsSequence(path) /\ Len(path) = n /\ \A i \in 1 .. n : path[i] = keys[i]
  BY <1>2, <1>3, UpToIs
<1>5. /\ keys[1] = "schemas" /\ keys[2] = b.p /\ keys[3] = "tables" /\ keys[4] = b.q
      /\ keys[5] = "columns" /\ keys[6] = b.r
  BY <1>1, KeysAre
<1>6. path[1] = "schemas" /\ path[2] = b.p /\ path[3] = "tables" /\ path[4] = b.q
  <2>1. 1 \in 1 .. n /\ 2 \in 1 .. n /\ 3 \in 1 .. n /\ 4 \in 1 .. n
    BY <1>2
  <2>2. QED
    BY <1>4, <1>5, <2>1
<1>7. n >= 6 => path[5] = "columns" /\ path[6] = b.r
  <2>1. n >= 6 => 5 \in 1 .. n /\ 6 \in 1 .. n
    BY <1>2
  <2>2. QED
    BY <1>4, <1>5, <2>1
<1>8. n >= 5 => n >= 6
  BY <1>2
<1>9. Route(path, n, b.p, b.q, b.r)
  BY <1>2, <1>4, <1>6, <1>7, <1>8 DEF Route
<1>10. /\ Named(x.before.root, "schemas", b.p, b.s) /\ Named(b.s, "tables", b.q, b.t)
       /\ n >= 6 => Named(b.t, "columns", b.r, b.c)
  <2>1. CASE g = 3
    <3>1. Climb(4, x.before, b) /\ n = 4
      BY <1>2, <2>1
    <3>2. QED
      BY <3>1 DEF Climb
  <2>2. CASE g # 3
    <3>1. Climb(6, x.before, b)
      BY <2>2
    <3>2. QED
      BY <3>1 DEF Climb
  <2>3. QED
    BY <2>1, <2>2
<1>11. LeadsTo(n, path, x, b)
  BY <1>2, <1>9, <1>10 DEF LeadsTo
<1>12. LeadsTo(n, d.path, x, b)
  BY <1>1, <1>11
<1>13. /\ n = 4 => PlaceOf(x, d) = <<nameKey(b.s), nameKey(b.t)>>
       /\ n >= 6 => PlaceOf(x, d) = <<nameKey(b.s), nameKey(b.t), nameKey(b.c)>>
  BY <1>3, <1>12, PlacedAt
<1>14. QED
  BY <1>2, <1>13

\* The positions of elements.
LEMMA ElementNamed ==
  ASSUME NEW n, NEW property, NEW e \in ElementsOf(Elements(n, property))
  PROVE  \E p : Named(n, property, p, e)
BY DEF ElementsOf, Named

\* What is done with the values of a family of types.
FamilyOperation ==
  [boolean |-> "and", numeric |-> "sum", textual |-> "lower", binary |-> "encode",
   uuid |-> "uuid", json |-> "json path", date |-> "days", time |-> "hours",
   timestamp |-> "date and hours", enum |-> "enum label"]

\* All types of a family have its operation.
LEMMA FamilyOperates ==
  ASSUME NEW f, NEW k, CataloguedType(f, k), NEW t, t = Definition(f, k),
         consumptionFamily(t) # "opaque"
  PROVE  OperationOf(f, k) = FamilyOperation[consumptionFamily(t)]
<1>1. PICK kind, n, o, c : /\ kind = readKind(t) /\ n = readTypeName(t)
                           /\ o = OperationOf(f, k) /\ c = consumptionFamily(t)
  OBVIOUS
<1>2. PICK sql, family : sql = SqlOperation /\ family = FamilyOperation
  OBVIOUS
<1>3. o = IF kind = "EnumType" THEN "enum label" ELSE IF n \in DOMAIN sql THEN sql[n] ELSE n
  BY <1>1, <1>2, Zenon DEF OperationOf
<1>4. kind \in DOMAIN TypesOfKind => n \in TypesOfKind[kind]
  BY <1>1, Zenon DEF CataloguedType
<1>5. DOMAIN sql = {"boolean", "smallint", "integer", "numeric", "real", "varchar", "text", "bytea",
                    "uuid", "json", "date", "time", "timestamp"}
  BY <1>2 DEF SqlOperation
<1>6. /\ sql["boolean"] = "and" /\ sql["smallint"] = "sum" /\ sql["integer"] = "sum"
      /\ sql["numeric"] = "sum" /\ sql["real"] = "sum" /\ sql["varchar"] = "lower"
      /\ sql["text"] = "lower" /\ sql["bytea"] = "encode" /\ sql["uuid"] = "uuid"
      /\ sql["json"] = "json path" /\ sql["date"] = "days" /\ sql["time"] = "hours"
      /\ sql["timestamp"] = "date and hours"
  BY <1>2 DEF SqlOperation
<1>7. /\ family["boolean"] = "and" /\ family["numeric"] = "sum" /\ family["textual"] = "lower"
      /\ family["binary"] = "encode" /\ family["uuid"] = "uuid" /\ family["json"] = "json path"
      /\ family["date"] = "days" /\ family["time"] = "hours"
      /\ family["timestamp"] = "date and hours" /\ family["enum"] = "enum label"
  BY <1>2 DEF FamilyOperation
<1>8. /\ kind = "BoolType" => c = "boolean" /\ n = "boolean"
      /\ kind = "IntegerType" => c = "numeric" /\ n \in {"smallint", "integer"}
      /\ kind = "DecimalType" => c = "numeric" /\ n = "numeric"
      /\ kind = "FloatType" => c = "numeric" /\ n = "real"
      /\ kind = "StringType" => c = "textual" /\ n \in {"varchar", "text"}
      /\ kind = "BinaryType" => c = "binary" /\ n = "bytea"
      /\ kind = "JSONType" => c = "json" /\ n = "json"
      /\ kind = "UUIDType" => c = "uuid" /\ n = "uuid"
      /\ kind = "EnumType" => c = "enum"
  BY <1>1, <1>4 DEF consumptionFamily, TypesOfKind
<1>9. kind = "TimeType" => \/ n = "date" /\ c = "date"
                           \/ n = "time" /\ c = "time"
                           \/ n = "timestamp" /\ c = "timestamp"
  <2>1. /\ DOMAIN TEMPORAL_FAMILY_BY_SQL_TYPE = {"date", "time", "timestamp"}
        /\ TEMPORAL_FAMILY_BY_SQL_TYPE["date"] = "date"
        /\ TEMPORAL_FAMILY_BY_SQL_TYPE["time"] = "time"
        /\ TEMPORAL_FAMILY_BY_SQL_TYPE["timestamp"] = "timestamp"
    BY DEF TEMPORAL_FAMILY_BY_SQL_TYPE
  <2>2. QED
    BY <1>1, <2>1 DEF consumptionFamily
<1>10. kind \in {"BoolType", "IntegerType", "DecimalType", "FloatType", "StringType", "BinaryType",
                 "TimeType", "JSONType", "UUIDType", "EnumType"}
  BY <1>1 DEF consumptionFamily
<1>11. o = family[c]
  BY <1>3, <1>5, <1>6, <1>7, <1>8, <1>9, <1>10
<1>12. QED
  BY <1>1, <1>2, <1>11

\* A type with the same operation on its values, or the other name and family.
LEMMA TypeGoal ==
  ASSUME NEW f, NEW h, NEW kc, NEW kw, CataloguedType(f, kc), CataloguedType(h, kw),
         OperationOf(f, kc) # OperationOf(h, kw),
         NEW t, NEW u, t = Definition(f, kc), u = Definition(h, kw),
         readTypeName(t) = readTypeName(u) => (readKind(t) = "EnumType" <=> readKind(u) = "EnumType")
  PROVE  /\ readTypeName(t) # readTypeName(u) /\ ~sameConsumptionFamily(t, u)
         /\ kc.is # "ref" \/ kw.is # "ref"
<1>1. PICK m, n, o, p : /\ m = readTypeName(t) /\ n = readTypeName(u)
                        /\ o = OperationOf(f, kc) /\ p = OperationOf(h, kw)
  OBVIOUS
<1>2. /\ o = IF readKind(t) = "EnumType" THEN "enum label"
             ELSE IF m \in DOMAIN SqlOperation THEN SqlOperation[m] ELSE m
      /\ p = IF readKind(u) = "EnumType" THEN "enum label"
             ELSE IF n \in DOMAIN SqlOperation THEN SqlOperation[n] ELSE n
  BY <1>1, Zenon DEF OperationOf
<1>3. o # p
  BY <1>1
<1>4. m # n
  <2>1. SUFFICES ASSUME m = n PROVE FALSE
    OBVIOUS
  <2>2. readKind(t) = "EnumType" <=> readKind(u) = "EnumType"
    BY <1>1, <2>1
  <2>3. QED
    BY <1>2, <1>3, <2>1, <2>2
<1>5. /\ consumptionFamily(t) # "opaque" => o = FamilyOperation[consumptionFamily(t)]
      /\ kc.is = "ref" => readKind(t) = "EnumType"
  BY <1>1, FamilyOperates, Zenon DEF CataloguedType
<1>6. /\ consumptionFamily(u) # "opaque" => p = FamilyOperation[consumptionFamily(u)]
      /\ kw.is = "ref" => readKind(u) = "EnumType"
  BY <1>1, FamilyOperates, Zenon DEF CataloguedType
<1>7. ~sameConsumptionFamily(t, u)
  BY <1>3, <1>5, <1>6, Zenon DEF sameConsumptionFamily
<1>8. kc.is # "ref" \/ kw.is # "ref"
  BY <1>2, <1>3, <1>5, <1>6, Zenon
<1>9. QED
  BY <1>1, <1>4, <1>7, <1>8

\* What a query that is lost is told by.
ToldBy(g, x, b, q) ==
  \A d : TellsOf(g, b, d) => PlaceOf(x, d) # <<>> /\ IsPrefix(PlaceOf(x, d), q)

LossLeads(x, q) == \E g \in {3, 5, 9} : \E b, a : Goal(g, x, b, a) /\ ToldBy(g, x, b, q)

\* Its table is lost.
LEMMA TableLoss ==
  ASSUME NEW x, NEW q, NEW sp, NEW s, NEW tp, NEW t, NEW up, NEW u,
         Named(x.before.root, "schemas", sp, s), Named(s, "tables", tp, t),
         Named(x.after.root, "schemas", up, u), nameKey(s) = nameKey(u),
         \A v \in ElementsOf(Elements(u, "tables")) : nameKey(v) # nameKey(t),
         QueryOf(x.before.defs, s, t, q)
  PROVE  LossLeads(x, q)
<1>1. PICK b : /\ b.p = sp /\ b.q = tp /\ b.s = s /\ b.t = t
  <2>1. PICK z : z = [p |-> sp, q |-> tp, s |-> s, t |-> t]
    OBVIOUS
  <2>2. QED
    BY <2>1
<1>2. PICK a : a.p = up /\ a.s = u
  <2>1. PICK z : z = [p |-> up, s |-> u]
    OBVIOUS
  <2>2. QED
    BY <2>1
<1>3. Climb(3, x.before, b) /\ Climb(4, x.before, b) /\ Climb(3, x.after, a)
  BY <1>1, <1>2 DEF Climb
<1>4. Ladder(3, x, b, a)
  BY <1>1, <1>2, <1>3 DEF Ladder
<1>5. Goal(3, x, b, a)
  BY <1>1, <1>2, <1>3, <1>4 DEF Goal, Elsewhere
<1>6. ASSUME NEW d, TellsOf(3, b, d) PROVE PlaceOf(x, d) # <<>> /\ IsPrefix(PlaceOf(x, d), q)
  <2>1. PlaceOf(x, d) = <<nameKey(b.s), nameKey(b.t)>>
    BY <1>3, <1>6, LossPlace
  <2>2. PICK m, n : m = nameKey(s) /\ n = nameKey(t)
    OBVIOUS
  <2>3. PlaceOf(x, d) = <<m, n>>
    BY <1>1, <2>1, <2>2
  <2>4. <<m, n>> # <<>> /\ IsPrefix(<<m, n>>, <<m, n>>)
    BY PrefixOfTable, PlacePrefixes
  <2>5. IsPrefix(<<m, n>>, q)
    <3>1. \/ q = <<m, n>>
          \/ \E c : q = <<m, n>> \o <<c>>
          \/ \E c, e : q = <<m, n>> \o <<c, e>>
      BY <2>2 DEF QueryOf
    <3>2. QED
      BY <2>4, <3>1, PrefixOfTable
  <2>6. QED
    BY <2>3, <2>4, <2>5
<1>7. ToldBy(3, x, b, q)
  BY <1>6 DEF ToldBy
<1>8. QED
  BY <1>5, <1>7 DEF LossLeads

\* Its column is lost.
LEMMA ColumnLoss ==
  ASSUME NEW x, NEW q, NEW sp, NEW s, NEW tp, NEW t, NEW cp, NEW c, NEW up, NEW u, NEW vp, NEW v,
         Named(x.before.root, "schemas", sp, s), Named(s, "tables", tp, t), Named(t, "columns", cp, c),
         Named(x.after.root, "schemas", up, u), Named(u, "tables", vp, v),
         nameKey(s) = nameKey(u), nameKey(t) = nameKey(v),
         \A w \in ElementsOf(Elements(v, "columns")) : nameKey(w) # nameKey(c),
         NEW o, q = <<nameKey(s), nameKey(t)>> \o <<nameKey(c)>>
                  \/ q = <<nameKey(s), nameKey(t)>> \o <<nameKey(c), o>>
  PROVE  LossLeads(x, q)
<1>1. PICK b : b.p = sp /\ b.q = tp /\ b.r = cp /\ b.s = s /\ b.t = t /\ b.c = c
  <2>1. PICK z : z = [p |-> sp, q |-> tp, r |-> cp, s |-> s, t |-> t, c |-> c]
    OBVIOUS
  <2>2. QED
    BY <2>1
<1>2. PICK a : a.p = up /\ a.q = vp /\ a.s = u /\ a.t = v
  <2>1. PICK z : z = [p |-> up, q |-> vp, s |-> u, t |-> v]
    OBVIOUS
  <2>2. QED
    BY <2>1
<1>3. Climb(5, x.before, b) /\ Climb(6, x.before, b) /\ Climb(5, x.after, a)
  BY <1>1, <1>2 DEF Climb
<1>4. Ladder(5, x, b, a)
  BY <1>1, <1>2, <1>3 DEF Ladder
<1>5. Goal(5, x, b, a)
  BY <1>1, <1>2, <1>3, <1>4 DEF Goal, Elsewhere
<1>6. ASSUME NEW d, TellsOf(5, b, d) PROVE PlaceOf(x, d) # <<>> /\ IsPrefix(PlaceOf(x, d), q)
  <2>1. PlaceOf(x, d) = <<nameKey(b.s), nameKey(b.t), nameKey(b.c)>>
    BY <1>3, <1>6, LossPlace
  <2>2. PICK m, n, k : m = nameKey(s) /\ n = nameKey(t) /\ k = nameKey(c)
    OBVIOUS
  <2>3. PlaceOf(x, d) = <<m, n, k>>
    BY <1>1, <2>1, <2>2
  <2>4. q = <<m, n>> \o <<k>> \/ q = <<m, n>> \o <<k, o>>
    BY <2>2
  <2>5. <<m, n, k>> # <<>>
    BY PrefixOfTable
  <2>6. IsPrefix(<<m, n, k>>, q)
    BY <2>4, PlacePrefixes
  <2>7. QED
    BY <2>3, <2>5, <2>6
<1>7. ToldBy(5, x, b, q)
  BY <1>6 DEF ToldBy
<1>8. QED
  BY <1>5, <1>7 DEF LossLeads

\* The type of a column.
LEMMA ColumnOf ==
  ASSUME NEW d, IsWhole(d), NEW s \in ElementsOf(Elements(d.root, "schemas")),
         NEW t \in ElementsOf(Elements(s, "tables")), NEW c \in ElementsOf(Elements(t, "columns"))
  PROVE  CataloguedType(d.defs, Kid(Kid(c, "type"), "type")) /\ TypeOf(d, c) \in TypesOf(d)
<1>1. CataloguedType(d.defs, Kid(Kid(c, "type"), "type"))
  BY DEF IsWhole
<1>2. TypeOf(d, c) \in TypesOf(d)
  BY DEF TypesOf, TypeOf
<1>3. QED
  BY <1>1, <1>2

\* How its values are consumed is lost.
LEMMA OperationLoss ==
  ASSUME NEW x, IsWhole(x.before), IsWhole(x.after), EnumsStay(x), KnownTypes(x.before), NEW q,
         NEW b, NEW a, Climb(6, x.before, b), Climb(6, x.after, a),
         nameKey(b.s) = nameKey(a.s), nameKey(b.t) = nameKey(a.t), nameKey(b.c) = nameKey(a.c),
         NEW o, o = OperationOf(x.before.defs, Kid(Kid(b.c, "type"), "type")),
         o # OperationOf(x.after.defs, Kid(Kid(a.c, "type"), "type")),
         q = <<nameKey(b.s), nameKey(b.t)>> \o <<nameKey(b.c), o>>
  PROVE  LossLeads(x, q)
<1>1. PICK s, t, c, u, v, w : b.s = s /\ b.t = t /\ b.c = c /\ a.s = u /\ a.t = v /\ a.c = w
  OBVIOUS
<1>2. /\ Named(x.before.root, "schemas", b.p, s) /\ Named(s, "tables", b.q, t)
      /\ Named(t, "columns", b.r, c)
      /\ Named(x.after.root, "schemas", a.p, u) /\ Named(u, "tables", a.q, v)
      /\ Named(v, "columns", a.r, w)
  BY <1>1 DEF Climb
<1>3. /\ s \in ElementsOf(Elements(x.before.root, "schemas")) /\ t \in ElementsOf(Elements(s, "tables"))
      /\ c \in ElementsOf(Elements(t, "columns"))
      /\ u \in ElementsOf(Elements(x.after.root, "schemas")) /\ v \in ElementsOf(Elements(u, "tables"))
      /\ w \in ElementsOf(Elements(v, "columns"))
  BY <1>2, NamedElement
<1>4. PICK kc, kw, m, n : /\ kc = Kid(Kid(c, "type"), "type") /\ kw = Kid(Kid(w, "type"), "type")
                          /\ m = TypeOf(x.before, c) /\ n = TypeOf(x.after, w)
  OBVIOUS
<1>5. m = Definition(x.before.defs, kc) /\ n = Definition(x.after.defs, kw)
  BY <1>4 DEF TypeOf
<1>6. /\ CataloguedType(x.before.defs, kc) /\ m \in TypesOf(x.before)
      /\ CataloguedType(x.after.defs, kw) /\ n \in TypesOf(x.after)
  BY <1>3, <1>4, ColumnOf
<1>7. readTypeName(m) = readTypeName(n) => (readKind(m) = "EnumType" <=> readKind(n) = "EnumType")
  BY <1>6 DEF EnumsStay
<1>8. OperationOf(x.before.defs, kc) # OperationOf(x.after.defs, kw)
  BY <1>1, <1>4
<1>9. /\ readTypeName(m) # readTypeName(n) /\ ~sameConsumptionFamily(m, n)
      /\ kc.is # "ref" \/ kw.is # "ref"
  <2>1. PICK f, h : f = x.before.defs /\ h = x.after.defs
    OBVIOUS
  <2>2. /\ CataloguedType(f, kc) /\ CataloguedType(h, kw)
        /\ OperationOf(f, kc) # OperationOf(h, kw)
        /\ m = Definition(f, kc) /\ n = Definition(h, kw)
    BY <1>5, <1>6, <1>8, <2>1
  <2>3. QED
    BY <1>7, <2>2, TypeGoal
<1>10. KnownKind(m)
  BY <1>3, <1>4, <1>5 DEF KnownTypes, KnownKind
<1>11. Climb(9, x.before, b) /\ Climb(9, x.after, a)
  BY DEF Climb
<1>12. Ladder(9, x, b, a)
  BY <1>1, <1>4, <1>10, <1>11 DEF Ladder
<1>13. OwnType(b) \/ OwnType(a)
  BY <1>1, <1>4, <1>9 DEF OwnType
<1>14. TypeOf(x.before, b.c) = m /\ TypeOf(x.after, a.c) = n
  BY <1>1, <1>4
<1>15. Goal(9, x, b, a)
  BY <1>9, <1>12, <1>13, <1>14 DEF Goal
<1>16. ASSUME NEW d, TellsOf(9, b, d) PROVE PlaceOf(x, d) # <<>> /\ IsPrefix(PlaceOf(x, d), q)
  <2>1. PlaceOf(x, d) = <<nameKey(b.s), nameKey(b.t), nameKey(b.c)>>
    BY <1>16, LossPlace
  <2>2. PICK i, j, k : i = nameKey(b.s) /\ j = nameKey(b.t) /\ k = nameKey(b.c)
    OBVIOUS
  <2>3. PlaceOf(x, d) = <<i, j, k>>
    BY <2>1, <2>2
  <2>4. q = <<i, j>> \o <<k, o>>
    BY <2>2
  <2>5. <<i, j, k>> # <<>> /\ IsPrefix(<<i, j, k>>, <<i, j>> \o <<k, o>>)
    BY PrefixOfTable, PlacePrefixes
  <2>6. QED
    BY <2>3, <2>4, <2>5
<1>17. ToldBy(9, x, b, q)
  BY <1>16 DEF ToldBy
<1>18. QED
  BY <1>15, <1>17 DEF LossLeads

\* What a query of before needs, to be one of after.
LEMMA QueryThere ==
  ASSUME NEW d, NEW u \in ElementsOf(Elements(d.root, "schemas")),
         NEW v \in ElementsOf(Elements(u, "tables")), NEW query, QueryOf(d.defs, u, v, query)
  PROVE  query \in Queries(d)
BY QueriesAre

LEMMA LossHasGoal ==
  ASSUME NEW x, Given(x), KnownTypes(x.before), NEW q \in Lost(x),
         NEW u \in ElementsOf(Elements(x.after.root, "schemas")), nameKey(u) = q[1]
  PROVE  LossLeads(x, q)
<1>1. q \in Queries(x.before) /\ q \notin Queries(x.after)
  BY DEF Lost
<1>2. PICK s \in ElementsOf(Elements(x.before.root, "schemas")) :
        \E t \in ElementsOf(Elements(s, "tables")) : QueryOf(x.before.defs, s, t, q)
  BY <1>1, QueriesAre
<1>3. PICK t \in ElementsOf(Elements(s, "tables")) : QueryOf(x.before.defs, s, t, q)
  BY <1>2
<1>4. nameKey(s) = nameKey(u)
  <2>1. PICK m, n : m = nameKey(s) /\ n = nameKey(t)
    OBVIOUS
  <2>2. \/ q = <<m, n>>
        \/ \E c : q = <<m, n>> \o <<c>>
        \/ \E c, e : q = <<m, n>> \o <<c, e>>
    BY <1>3, <2>1 DEF QueryOf
  <2>3. q[1] = m
    <3>1. CASE q = <<m, n>>
      BY <3>1
    <3>2. ASSUME NEW c, q = <<m, n>> \o <<c>> PROVE q[1] = m
      BY <3>2, QueryParts
    <3>3. ASSUME NEW c, NEW e, q = <<m, n>> \o <<c, e>> PROVE q[1] = m
      BY <3>3, QueryParts
    <3>4. QED
      BY <2>2, <3>1, <3>2, <3>3
  <2>4. QED
    BY <2>1, <2>3
<1>5. /\ \E p : Named(x.before.root, "schemas", p, s)
      /\ \E p : Named(s, "tables", p, t)
      /\ \E p : Named(x.after.root, "schemas", p, u)
  BY <1>2, <1>3, ElementNamed
<1>6. PICK sp, tp, up : /\ Named(x.before.root, "schemas", sp, s) /\ Named(s, "tables", tp, t)
                        /\ Named(x.after.root, "schemas", up, u)
  BY <1>5
<1>7. CASE \A v \in ElementsOf(Elements(u, "tables")) : nameKey(v) # nameKey(t)
  BY <1>3, <1>4, <1>6, <1>7, TableLoss
<1>8. ASSUME NEW v \in ElementsOf(Elements(u, "tables")), nameKey(v) = nameKey(t)
      PROVE  LossLeads(x, q)
  <2>1. PICK m, n : m = nameKey(s) /\ n = nameKey(t)
    OBVIOUS
  <2>2. nameKey(u) = m /\ nameKey(v) = n
    BY <1>4, <1>8, <2>1
  <2>3. ~QueryOf(x.after.defs, u, v, q)
    BY <1>1, <1>8, QueryThere
  <2>4. q # <<nameKey(u), nameKey(v)>>
    BY <2>3 DEF QueryOf
  <2>5. q # <<nameKey(s), nameKey(t)>>
    BY <2>1, <2>2, <2>4
  <2>6. PICK c \in ElementsOf(Elements(t, "columns")) :
          \/ q = <<nameKey(s), nameKey(t)>> \o <<nameKey(c)>>
          \/ q = <<nameKey(s), nameKey(t)>>
                   \o <<nameKey(c), OperationOf(x.before.defs, Kid(Kid(c, "type"), "type"))>>
    BY <1>3, <2>5 DEF QueryOf
  <2>7. PICK o : o = OperationOf(x.before.defs, Kid(Kid(c, "type"), "type"))
    OBVIOUS
  <2>8. \/ q = <<nameKey(s), nameKey(t)>> \o <<nameKey(c)>>
        \/ q = <<nameKey(s), nameKey(t)>> \o <<nameKey(c), o>>
    BY <2>6, <2>7
  <2>9. (\E p : Named(t, "columns", p, c)) /\ \E p : Named(u, "tables", p, v)
    BY <1>8, <2>6, ElementNamed
  <2>10. PICK cp, vp : Named(t, "columns", cp, c) /\ Named(u, "tables", vp, v)
    BY <2>9
  <2>11. CASE \A w \in ElementsOf(Elements(v, "columns")) : nameKey(w) # nameKey(c)
    BY <1>4, <1>6, <1>8, <2>8, <2>10, <2>11, ColumnLoss
  <2>12. ASSUME NEW w \in ElementsOf(Elements(v, "columns")), nameKey(w) = nameKey(c)
         PROVE  LossLeads(x, q)
    <3>1. PICK k, e : /\ k = nameKey(c) /\ nameKey(w) = k
                      /\ e = OperationOf(x.after.defs, Kid(Kid(w, "type"), "type"))
      BY <2>12
    <3>2. q = <<m, n>> \o <<k>> \/ q = <<m, n>> \o <<k, o>>
      BY <2>1, <2>8, <3>1
    <3>3. /\ q # <<nameKey(u), nameKey(v)>> \o <<nameKey(w)>>
          /\ q # <<nameKey(u), nameKey(v)>>
                   \o <<nameKey(w), OperationOf(x.after.defs, Kid(Kid(w, "type"), "type"))>>
      BY <2>3, <2>12 DEF QueryOf
    <3>4. q # <<m, n>> \o <<k>> /\ q # <<m, n>> \o <<k, e>>
      BY <2>2, <3>1, <3>3
    <3>5. o # e
      BY <3>2, <3>4
    <3>6. q = <<nameKey(s), nameKey(t)>> \o <<nameKey(c), o>>
      BY <2>1, <3>1, <3>2, <3>4
    <3>7. \E p : Named(v, "columns", p, w)
      BY <2>12, ElementNamed
    <3>8. PICK wp : Named(v, "columns", wp, w)
      BY <3>7
    <3>9. IsWhole(x.before) /\ IsWhole(x.after) /\ EnumsStay(x)
      BY DEF Given
    <3>10. PICK b : b.p = sp /\ b.q = tp /\ b.r = cp /\ b.s = s /\ b.t = t /\ b.c = c
      <4>1. PICK z : z = [p |-> sp, q |-> tp, r |-> cp, s |-> s, t |-> t, c |-> c]
        OBVIOUS
      <4>2. QED
        BY <4>1
    <3>11. PICK a : a.p = up /\ a.q = vp /\ a.r = wp /\ a.s = u /\ a.t = v /\ a.c = w
      <4>1. PICK z : z = [p |-> up, q |-> vp, r |-> wp, s |-> u, t |-> v, c |-> w]
        OBVIOUS
      <4>2. QED
        BY <4>1
    <3>12. Climb(6, x.before, b) /\ Climb(6, x.after, a)
      BY <1>6, <2>10, <3>8, <3>10, <3>11 DEF Climb
    <3>13. nameKey(b.s) = nameKey(a.s) /\ nameKey(b.t) = nameKey(a.t) /\ nameKey(b.c) = nameKey(a.c)
      BY <1>4, <1>8, <2>12, <3>10, <3>11
    <3>14. /\ o = OperationOf(x.before.defs, Kid(Kid(b.c, "type"), "type"))
           /\ o # OperationOf(x.after.defs, Kid(Kid(a.c, "type"), "type"))
           /\ q = <<nameKey(b.s), nameKey(b.t)>> \o <<nameKey(b.c), o>>
      BY <2>7, <3>1, <3>5, <3>6, <3>10, <3>11
    <3>15. QED
      BY <3>9, <3>12, <3>13, <3>14, OperationLoss
  <2>13. QED
    BY <2>11, <2>12
<1>9. QED
  BY <1>7, <1>8

\* At the end there is no way left to go.
LEMMA LossesAreTold ==
  ASSUME CoverInv, Given(asked)
  PROVE  QueriesKept
<1>1. ASSUME Done, KnownTypes(asked.before), NEW q \in Lost(asked),
             NEW u \in ElementsOf(Elements(asked.after.root, "schemas")), nameKey(u) = q[1]
      PROVE  \E d \in Breaking : PlaceOf(asked, d) # <<>> /\ IsPrefix(PlaceOf(asked, d), q)
  <2>1. PICK g \in {3, 5, 9} : \E b, a : Goal(g, asked, b, a) /\ ToldBy(g, asked, b, q)
    BY <1>1, LossHasGoal DEF LossLeads
  <2>2. PICK b, a : Goal(g, asked, b, a) /\ ToldBy(g, asked, b, q)
    BY <2>1
  <2>3. Covered(g, b, a)
    BY <2>2 DEF CoverInv
  <2>4. DOMAIN todo = {}
    BY <1>1 DEF Done
  <2>5. PICK d \in diffs : TellsOf(g, b, d)
    BY <2>3, <2>4 DEF Covered
  <2>6. d \in Breaking
    BY <2>5 DEF Breaking, TellsOf
  <2>7. PlaceOf(asked, d) # <<>> /\ IsPrefix(PlaceOf(asked, d), q)
    BY <2>2, <2>5 DEF ToldBy
  <2>8. QED
    BY <2>6, <2>7
<1>2. QED
  BY <1>1 DEF QueriesKept

WholesGiven == \A x \in Input : IsWhole(x.before) /\ IsWhole(x.after) /\ EnumsStay(x)

(***************************************************************************)
(* No loss without an alarm: a query that was valid and no longer runs, of *)
(* a schema that is still there, is told by a breaking difference at its   *)
(* table or its column.  A table or a column that is gone is told where    *)
(* its parent is left, a type where it is met, and neither is passed over  *)
(* because its objects were compared before at another place.              *)
(***************************************************************************)
THEOREM LossesTold ==
  ASSUME IsDdl, DocumentsGiven, RealmsGiven, WholesGiven
  PROVE  Spec => []QueriesKept
<1> DEFINE Inv == CrawlInv /\ PathInv /\ RemovalInv /\ CoverInv /\ Given(asked)
<1>1. Init => Inv
  <2>1. SUFFICES ASSUME Init PROVE Inv
    OBVIOUS
  <2>2. CrawlInv /\ PathInv /\ CoverInv
    BY <2>1, CrawlInit, PathInit, CoverInit
  <2>3. asked \in Input /\ diffs = {}
    BY <2>1 DEF Init
  <2>4. RemovalInv /\ Given(asked)
    BY <2>3 DEF RemovalInv, Given, DocumentsGiven, RealmsGiven, WholesGiven
  <2>5. QED
    BY <2>2, <2>4
<1>2. Inv /\ [Next]_vars => Inv'
  <2>1. SUFFICES ASSUME Inv, [Next]_vars PROVE Inv'
    OBVIOUS
  <2>2. CrawlInv' /\ asked' = asked
    BY <2>1, CrawlStep DEF Given
  <2>3. PathInv' /\ RemovalInv' /\ CoverInv'
    BY <2>1, PathStep, RemovalStep, CoverStep
  <2>4. Given(asked)'
    BY <2>1, <2>2
  <2>5. QED
    BY <2>2, <2>3, <2>4
<1>3. Inv => QueriesKept
  BY LossesAreTold
<1>4. QED
  BY <1>1, <1>2, <1>3, PTL DEF Spec

=============================================================================
