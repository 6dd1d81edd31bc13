----------------------------- MODULE Resolvers_proofs -----------------------------
(***************************************************************************)
(* Proofs about Resolvers, for objects and arrays of any length: what the  *)
(* resolvers that are loops have after each round, and the contract of     *)
(* their answers.                                                          *)
(***************************************************************************)
EXTENDS Resolvers, FoldFacts, FiniteSetTheorems

-----------------------------------------------------------------------------
(***************************************************************************)
(* The resolvers of OpenApiMapping as loops.                               *)
(***************************************************************************)
\* Response codes that differ in case at most.
SameCodes(before, after) ==
  {x \in (DOMAIN before) \X (DOMAIN after) : SameCode(before[x[1]], after[x[2]])}

LEMMA CodesLoop ==
  ASSUME NEW before, NEW after, IsSequence(before), IsSequence(after),
         NEW n, n = Len(before), NEW m, m = Len(after)
  PROVE  \E r : /\ Looped(r, n, m, SameCodes(before, after))
               /\ apihubCaseInsensitiveKeyMappingResolver(before, after)
                    = [InKeys(r, before, after) EXCEPT !.removed = {Lower[k] : k \in @}]
<1> DEFINE related == SameCodes(before, after)
           base == Unmatched(DOMAIN before, DOMAIN after)
           Match(r, i) ==
             IF {j \in r.added : SameCode(before[i], after[j])} = {} THEN r
             ELSE Pairing(r, i, Least({j \in r.added : SameCode(before[i], after[j])}))
           IsFold(g) == g = [s \in SUBSET (DOMAIN Indexes(before)) |->
                               IF s = {} THEN base
                               ELSE Match(g[s \ {Max(s)}], Indexes(before)[Max(s)])]
           folded == (CHOOSE h : IsFold(h))[DOMAIN Indexes(before)]
<1>1. /\ n \in Nat /\ m \in Nat /\ DOMAIN before = 1 .. n /\ DOMAIN after = 1 .. m
      /\ DOMAIN Indexes(before) = 1 .. n /\ \A i \in 1 .. n : Indexes(before)[i] = i
  BY DEF IsSequence, Indexes
<1>2. Matching(base, n, m) /\ base \in Partial(n, m) /\ 1 .. n \in SUBSET base.removed
  BY <1>1, UnmatchedMatches DEF Matching
<1>3. ASSUME NEW r \in Partial(n, m), NEW i \in 1 .. n
      PROVE  Match(r, i) = Round(r, related, 1 .. n, i)
  <2>1. \A j \in r.added : SameCode(before[i], after[j]) <=> <<i, j>> \in related
    <3>1. i \in DOMAIN before /\ r.added \subseteq DOMAIN after
      BY <1>1 DEF Partial
    <3>2. \A x \in (DOMAIN before) \X (DOMAIN after) :
             x \in related <=> SameCode(before[x[1]], after[x[2]])
      BY DEF SameCodes
    <3>3. ASSUME NEW j \in r.added PROVE <<i, j>> \in (DOMAIN before) \X (DOMAIN after)
      <4>1. j \in DOMAIN after /\ i \in DOMAIN before
        BY <3>1
      <4>2. QED
        BY <4>1
    <3>4. QED
      BY <3>2, <3>3
  <2>2. {j \in r.added : SameCode(before[i], after[j])} = Candidates(r, related, i)
    BY <2>1 DEF Candidates
  <2>3. QED
    BY <2>2 DEF Round
<1>4. apihubCaseInsensitiveKeyMappingResolver(before, after)
        = [InKeys(folded, before, after) EXCEPT !.removed = {Lower[k] : k \in @}]
  BY DEF apihubCaseInsensitiveKeyMappingResolver, FoldLeft, MapThenFoldSet
<1> HIDE DEF related, Match, base
<1>5. PICK g : RoundsFolded(g, n, m, related, 1 .. n, base)
  BY <1>1, <1>2, RoundsFold
<1>6. IsFold(g)
  <2>1. ASSUME NEW s \in SUBSET (1 .. n)
        PROVE  g[s] = IF s = {} THEN base ELSE Match(g[s \ {Max(s)}], Indexes(before)[Max(s)])
    <3>1. CASE s = {}
      BY <1>5, <3>1 DEF RoundsFolded
    <3>2. CASE s # {}
      <4>1. /\ Max(s) \in 1 .. n /\ g[s \ {Max(s)}] \in Partial(n, m)
            /\ g[s] = Round(g[s \ {Max(s)}], related, 1 .. n, Max(s))
        BY <1>5, <3>2 DEF RoundsFolded
      <4>2. g[s] = Match(g[s \ {Max(s)}], Max(s))
        BY <1>3, <4>1
      <4>3. QED
        BY <1>1, <3>2, <4>1, <4>2
    <3>3. QED
      BY <3>1, <3>2
  <2>2. QED
    BY <1>1, <1>5, <2>1 DEF RoundsFolded
<1>7. PICK f : IsFold(f) /\ folded = f[1 .. n]
  BY <1>1, <1>6
<1>8. f[{}] = base /\ \A s \in SUBSET (1 .. n) : s # {} =>
                         f[s] = Match(f[s \ {Max(s)}], Indexes(before)[Max(s)])
  BY <1>1, <1>7
<1>9. FoldsRounds(f, n, m, related, 1 .. n, base)
  <2>1. ASSUME NEW k \in 1 .. n, f[1 .. k - 1] \in Partial(n, m)
        PROVE  f[1 .. k] = Round(f[1 .. k - 1], related, 1 .. n, k)
    <3>1. k \in Nat /\ k # 0 /\ 1 .. k \in SUBSET (1 .. n)
      BY <1>1
    <3>2. Max(1 .. k) = k /\ (1 .. k) \ {k} = 1 .. k - 1 /\ 1 .. k # {}
      BY <3>1, FirstIndexes
    <3>3. f[1 .. k] = Match(f[(1 .. k) \ {Max(1 .. k)}], Indexes(before)[Max(1 .. k)])
      BY <1>8, <3>1, <3>2
    <3>4. f[1 .. k] = Match(f[1 .. k - 1], k)
      BY <1>1, <3>2, <3>3
    <3>5. QED
      BY <1>3, <2>1, <3>4
  <2>2. QED
    BY <1>8, <2>1 DEF FoldsRounds
<1>10. MadeOf(f[1 .. n], n, n, m, related, 1 .. n, base)
  BY <1>1, <1>2, <1>9, FoldMakes
<1>11. Looped(f[1 .. n], n, m, SameCodes(before, after))
  BY <1>1, <1>10 DEF Looped, related, base
<1>12. QED
  BY <1>4, <1>7, <1>11

\* Equal media types.
SameTypes(before, after) ==
  {x \in (DOMAIN before) \X (DOMAIN after) : after[x[2]] = before[x[1]]}

LEMMA ExactMatchesLoop ==
  ASSUME NEW n \in Nat, NEW m \in Nat, NEW before, DOMAIN before = 1 .. n,
         NEW after, DOMAIN after = 1 .. m, NEW base, Matching(base, n, m)
  PROVE  MadeOf(mapExactMatches(base, before, after), n, n, m, SameTypes(before, after), {}, base)
<1> DEFINE related == SameTypes(before, after)
           Match(r, i) ==
             IF i \notin r.removed \/ {j \in r.added : after[j] = before[i]} = {} THEN r
             ELSE Pairing(r, i, Least({j \in r.added : after[j] = before[i]}))
           IsFold(g) == g = [s \in SUBSET (DOMAIN Indexes(before)) |->
                               IF s = {} THEN base
                               ELSE Match(g[s \ {Max(s)}], Indexes(before)[Max(s)])]
<1>1. /\ n \in Nat /\ m \in Nat /\ DOMAIN before = 1 .. n /\ DOMAIN after = 1 .. m
      /\ DOMAIN Indexes(before) = 1 .. n /\ \A i \in 1 .. n : Indexes(before)[i] = i
  BY DEF IsSequence, Indexes
<1>2. Matching(base, n, m) /\ base \in Partial(n, m) /\ {} \in SUBSET base.removed
  BY <1>1, UnmatchedMatches DEF Matching
<1>3. ASSUME NEW r \in Partial(n, m), NEW i \in 1 .. n
      PROVE  Match(r, i) = Round(r, related, {}, i)
  <2>1. \A j \in r.added : after[j] = before[i] <=> <<i, j>> \in related
    <3>1. i \in DOMAIN before /\ r.added \subseteq DOMAIN after
      BY <1>1 DEF Partial
    <3>2. \A x \in (DOMAIN before) \X (DOMAIN after) :
             x \in related <=> after[x[2]] = before[x[1]]
      BY DEF SameTypes
    <3>3. ASSUME NEW j \in r.added PROVE <<i, j>> \in (DOMAIN before) \X (DOMAIN after)
      <4>1. j \in DOMAIN after /\ i \in DOMAIN before
        BY <3>1
      <4>2. QED
        BY <4>1
    <3>4. QED
      BY <3>2, <3>3
  <2>2. {j \in r.added : after[j] = before[i]} = Candidates(r, related, i)
    BY <2>1 DEF Candidates
  <2>3. QED
    BY <2>2 DEF Round
<1>4. mapExactMatches(base, before, after) = (CHOOSE h : IsFold(h))[DOMAIN Indexes(before)]
  BY DEF mapExactMatches, FoldLeft, MapThenFoldSet
<1> HIDE DEF related, Match
<1>5. PICK g : RoundsFolded(g, n, m, related, {}, base)
  BY <1>1, <1>2, RoundsFold
<1>6. IsFold(g)
  <2>1. ASSUME NEW s \in SUBSET (1 .. n)
        PROVE  g[s] = IF s = {} THEN base ELSE Match(g[s \ {Max(s)}], Indexes(before)[Max(s)])
    <3>1. CASE s = {}
      BY <1>5, <3>1 DEF RoundsFolded
    <3>2. CASE s # {}
      <4>1. /\ Max(s) \in 1 .. n /\ g[s \ {Max(s)}] \in Partial(n, m)
            /\ g[s] = Round(g[s \ {Max(s)}], related, {}, Max(s))
        BY <1>5, <3>2 DEF RoundsFolded
      <4>2. g[s] = Match(g[s \ {Max(s)}], Max(s))
        BY <1>3, <4>1
      <4>3. QED
        BY <1>1, <3>2, <4>1, <4>2
    <3>3. QED
      BY <3>1, <3>2
  <2>2. QED
    BY <1>1, <1>5, <2>1 DEF RoundsFolded
<1>7. PICK f : IsFold(f) /\ mapExactMatches(base, before, after) = f[1 .. n]
  BY <1>1, <1>4, <1>6
<1>8. f[{}] = base /\ \A s \in SUBSET (1 .. n) : s # {} =>
                         f[s] = Match(f[s \ {Max(s)}], Indexes(before)[Max(s)])
  BY <1>1, <1>7
<1>9. FoldsRounds(f, n, m, related, {}, base)
  <2>1. ASSUME NEW k \in 1 .. n, f[1 .. k - 1] \in Partial(n, m)
        PROVE  f[1 .. k] = Round(f[1 .. k - 1], related, {}, k)
    <3>1. k \in Nat /\ k # 0 /\ 1 .. k \in SUBSET (1 .. n)
      BY <1>1
    <3>2. Max(1 .. k) = k /\ (1 .. k) \ {k} = 1 .. k - 1 /\ 1 .. k # {}
      BY <3>1, FirstIndexes
    <3>3. f[1 .. k] = Match(f[(1 .. k) \ {Max(1 .. k)}], Indexes(before)[Max(1 .. k)])
      BY <1>8, <3>1, <3>2
    <3>4. f[1 .. k] = Match(f[1 .. k - 1], k)
      BY <1>1, <3>2, <3>3
    <3>5. QED
      BY <1>3, <2>1, <3>4
  <2>2. QED
    BY <1>8, <2>1 DEF FoldsRounds
<1>10. MadeOf(f[1 .. n], n, n, m, related, {}, base)
  BY <1>1, <1>2, <1>9, FoldMakes
<1>11. QED
  BY <1>7, <1>10 DEF related


-----------------------------------------------------------------------------
(***************************************************************************)
(* The answers in keys.                                                    *)
(***************************************************************************)

\* Resolvers that map each key to itself.
LEMMA SameKeysContract ==
  ASSUME NEW before, NEW after, NEW r,
         r = objectMappingResolver(before, after) \/ r = methodMappingResolver(before, after)
  PROVE  /\ EachKeyOnce(r, ElementsOf(before), ElementsOf(after)) /\ OneToOne(r)
         /\ RemovedKeepTheirKeys(r)
<1>1. PICK B, A : B = ElementsOf(before) /\ A = ElementsOf(after)
  OBVIOUS
<1>2. r = [added |-> A \ B, removed |-> B \ A, mapped |-> [k \in B \cap A |-> k]]
  BY <1>1 DEF objectMappingResolver, methodMappingResolver, MapKeysResult
<1>3. /\ DOMAIN r.mapped = B \cap A /\ \A k \in B \cap A : r.mapped[k] = k
      /\ r.added = A \ B /\ r.removed = B \ A
  BY <1>2
<1>4. MappedTo(r) = B \cap A
  BY <1>3 DEF MappedTo
<1>5. QED
  BY <1>1, <1>3, <1>4 DEF EachKeyOnce, OneToOne, RemovedKeepTheirKeys

LEMMA SingleContract ==
  ASSUME NEW n, NEW before, DOMAIN before = 1 .. n, NoneTwice(before),
         NEW m, NEW after, DOMAIN after = 1 .. m, NoneTwice(after),
         NEW r, r = singleOperationPathMappingResolver(before, after)
  PROVE  EachKeyOnce(r, ElementsOf(before), ElementsOf(after)) /\ OneToOne(r)
<1>1. PICK both : both = 1 .. n \cap 1 .. m
  OBVIOUS
<1>2. PICK f : f = [x \in {before[i] : i \in both} |->
                      after[CHOOSE i \in DOMAIN before : before[i] = x]]
  OBVIOUS
<1>3. r = [added |-> {after[i] : i \in (1 .. m) \ (1 .. n)},
           removed |-> {before[i] : i \in (1 .. n) \ (1 .. m)}, mapped |-> f]
  BY <1>1, <1>2 DEF singleOperationPathMappingResolver, MapKeysResult
<1>4. /\ r.added = {after[i] : i \in (1 .. m) \ (1 .. n)}
      /\ r.removed = {before[i] : i \in (1 .. n) \ (1 .. m)}
      /\ r.mapped = f /\ DOMAIN f = {before[i] : i \in both}
  BY <1>2, <1>3
<1>5. ASSUME NEW i \in both PROVE f[before[i]] = after[i]
  <2>1. (CHOOSE k \in DOMAIN before : before[k] = before[i]) = i
    BY <1>1 DEF NoneTwice
  <2>2. QED
    BY <1>2, <2>1
<1>6. MappedTo(r) = {after[i] : i \in both}
  BY <1>4, <1>5 DEF MappedTo
<1>7. /\ DOMAIN f \cup r.removed = ElementsOf(before)
      /\ DOMAIN f \cap r.removed = {}
  BY <1>1, <1>4 DEF ElementsOf, NoneTwice
<1>8. /\ MappedTo(r) \cup r.added = ElementsOf(after)
      /\ MappedTo(r) \cap r.added = {}
  BY <1>1, <1>4, <1>6 DEF ElementsOf, NoneTwice
<1>9. OneToOne(r)
  BY <1>1, <1>4, <1>5 DEF OneToOne, NoneTwice
<1>10. QED
  BY <1>4, <1>7, <1>8, <1>9 DEF EachKeyOnce

\* A matching of indexes, told in keys.
LEMMA InKeysTells ==
  ASSUME NEW n, NEW before, DOMAIN before = 1 .. n, NoneTwice(before),
         NEW m, NEW after, DOMAIN after = 1 .. m, NoneTwice(after),
         NEW r, Matching(r, n, m), NEW t, t = InKeys(r, before, after)
  PROVE  /\ EachKeyOnce(t, ElementsOf(before), ElementsOf(after)) /\ OneToOne(t)
         /\ t = [added |-> {after[j] : j \in r.added}, removed |-> {before[i] : i \in r.removed},
                 mapped |-> t.mapped]
         /\ DOMAIN t.mapped = {before[i] : i \in DOMAIN r.mapped}
         /\ \A i \in DOMAIN r.mapped : t.mapped[before[i]] = after[r.mapped[i]]
<1>1. /\ DOMAIN r.mapped \cup r.removed = 1 .. n /\ DOMAIN r.mapped \cap r.removed = {}
      /\ MappedTo(r) \cup r.added = 1 .. m /\ MappedTo(r) \cap r.added = {}
      /\ \A k, l \in DOMAIN r.mapped : r.mapped[k] = r.mapped[l] => k = l
  BY DEF Matching, EachKeyOnce, OneToOne
<1>2. PICK f : f = [x \in {before[i] : i \in DOMAIN r.mapped} |->
                      after[r.mapped[CHOOSE i \in DOMAIN before : before[i] = x]]]
  OBVIOUS
<1>3. t = [added |-> {after[j] : j \in r.added}, removed |-> {before[i] : i \in r.removed},
           mapped |-> f]
  BY <1>2 DEF InKeys, MapKeysResult
<1>4. /\ t.added = {after[j] : j \in r.added} /\ t.removed = {before[i] : i \in r.removed}
      /\ t.mapped = f /\ DOMAIN f = {before[i] : i \in DOMAIN r.mapped}
  BY <1>2, <1>3
<1>5. ASSUME NEW i \in DOMAIN r.mapped PROVE f[before[i]] = after[r.mapped[i]]
  <2>1. (CHOOSE k \in DOMAIN before : before[k] = before[i]) = i
    BY <1>1 DEF NoneTwice
  <2>2. QED
    BY <1>2, <2>1
<1>6. MappedTo(t) = {after[j] : j \in MappedTo(r)}
  BY <1>4, <1>5 DEF MappedTo
<1>7. DOMAIN f \cup t.removed = ElementsOf(before) /\ DOMAIN f \cap t.removed = {}
  BY <1>1, <1>4 DEF ElementsOf, NoneTwice
<1>8. MappedTo(t) \cup t.added = ElementsOf(after) /\ MappedTo(t) \cap t.added = {}
  BY <1>1, <1>4, <1>6 DEF ElementsOf, NoneTwice
<1>9. OneToOne(t)
  <2>1. \A i \in DOMAIN r.mapped : r.mapped[i] \in DOMAIN after
    BY <1>1 DEF MappedTo
  <2>2. QED
    BY <1>1, <1>4, <1>5, <2>1 DEF OneToOne, NoneTwice
<1>10. QED
  BY <1>3, <1>4, <1>5, <1>7, <1>8, <1>9 DEF EachKeyOnce

(***************************************************************************)
(* Media types: the matching after the three rounds.  What is equal as a   *)
(* whole is paired in the first; a pair that is left over after the second *)
(* has different base types, and the third leaves a single pair over only  *)
(* if it does not fit.                                                     *)
(***************************************************************************)
BasesOf(types) == [i \in DOMAIN types |-> getMediaTypeBase(types[i])]

MediaLoop(r, before, after, n, m) ==
  /\ Matching(r, n, m)
  /\ \A i \in 1 .. n, j \in 1 .. m : before[i] = after[j] => i \in DOMAIN r.mapped /\ r.mapped[i] = j
  /\ \A i \in r.removed, j \in r.added :
        /\ getMediaTypeBase(before[i]) # getMediaTypeBase(after[j])
        /\ r.removed = {i} /\ r.added = {j} => ~isWildcardCompatible(before[i], after[j])

LEMMA SingleIsOne ==
  ASSUME NEW n \in Nat, NEW S \in SUBSET (1 .. n)
  PROVE  Cardinality(S) = 1 <=> \E x : S = {x}
<1>1. IsFiniteSet(1 .. n)
  BY FS_Interval
<1>2. IsFiniteSet(S)
  BY <1>1, FS_Subset
<1>3. QED
  BY <1>2, FS_Singleton

\* The last round pairs two indexes that are left over, if any.
LEMMA WildcardRound ==
  ASSUME NEW n \in Nat, NEW m \in Nat, NEW before, NEW after, NEW base, Matching(base, n, m),
         NEW r, r = MapSingleWildcard(base, before, after)
  PROVE  \/ /\ r = base
            /\ \A i \in r.removed, j \in r.added :
                  r.removed = {i} /\ r.added = {j} => ~isWildcardCompatible(before[i], after[j])
         \/ /\ \E i \in base.removed, j \in base.added : r = Pairing(base, i, j)
            /\ r.removed = {}
<1>1. base \in Partial(n, m) /\ base.removed \in SUBSET (1 .. n) /\ base.added \in SUBSET (1 .. m)
  BY DEF Matching, Partial
<1>2. PICK both : both = base.removed \X base.added
  OBVIOUS
<1>3. PICK pairs : pairs = {p \in both : isWildcardCompatible(before[p[1]], after[p[2]])}
  OBVIOUS
<1>4. PICK single \in BOOLEAN :
         single <=> Cardinality(base.removed) = 1 /\ Cardinality(base.added) = 1
  OBVIOUS
<1>5. r = IF ~single \/ pairs = {} THEN base
          ELSE Pairing(base, (CHOOSE x \in pairs : TRUE)[1], (CHOOSE x \in pairs : TRUE)[2])
  BY <1>2, <1>3, <1>4 DEF MapSingleWildcard
<1>6. single <=> (\E x : base.removed = {x}) /\ (\E x : base.added = {x})
  BY <1>1, <1>4, SingleIsOne
<1>7. CASE ~single \/ pairs = {}
  <2>1. r = base
    BY <1>5, <1>7
  <2>2. ASSUME NEW i \in r.removed, NEW j \in r.added, r.removed = {i}, r.added = {j},
               isWildcardCompatible(before[i], after[j])
        PROVE  FALSE
    <3>1. single
      BY <1>6, <2>1, <2>2
    <3>2. <<i, j>> \in both
      BY <1>2, <2>1
    <3>3. <<i, j>> \in pairs
      BY <1>3, <2>2, <3>2
    <3>4. QED
      BY <1>7, <3>1, <3>3
  <2>3. QED
    BY <2>1, <2>2
<1>8. CASE ~ (~single \/ pairs = {})
  <2>1. PICK x : x = CHOOSE p \in pairs : TRUE
    OBVIOUS
  <2>2. x \in pairs
    BY <1>8, <2>1
  <2>3. x \in both
    BY <1>3, <2>2
  <2>4. x[1] \in base.removed /\ x[2] \in base.added
    BY <1>2, <2>3
  <2>5. r = Pairing(base, x[1], x[2])
    BY <1>5, <1>8, <2>1
  <2>6. r.removed = base.removed \ {x[1]}
    BY <2>5 DEF Pairing
  <2>7. r.removed = {}
    BY <1>6, <1>8, <2>4, <2>6
  <2>8. QED
    BY <2>4, <2>5, <2>7
<1>9. QED
  BY <1>7, <1>8

LEMMA MediaRounds ==
  ASSUME NEW before, NEW after, IsSequence(before), IsSequence(after),
         NoneTwice(before), NoneTwice(after), NEW n, n = Len(before), NEW m, m = Len(after)
  PROVE  \E r : /\ MediaLoop(r, before, after, n, m)
                /\ contentMediaTypeMappingResolver(before, after) = InKeys(r, before, after)
<1>1. n \in Nat /\ m \in Nat /\ DOMAIN before = 1 .. n /\ DOMAIN after = 1 .. m
  BY DEF IsSequence
<1>2. PICK none : none = Unmatched(1 .. n, 1 .. m)
  OBVIOUS
<1>3. PICK whole : whole = mapExactMatches(none, before, after)
  OBVIOUS
<1>4. PICK bb, ba : bb = BasesOf(before) /\ ba = BasesOf(after)
  OBVIOUS
<1>5. PICK base : base = mapExactMatches(whole, bb, ba)
  OBVIOUS
<1>6. PICK r : r = MapSingleWildcard(base, before, after)
  OBVIOUS
<1>7. contentMediaTypeMappingResolver(before, after) = InKeys(r, before, after)
  BY <1>1, <1>2, <1>3, <1>4, <1>5, <1>6 DEF contentMediaTypeMappingResolver, BasesOf
<1>8. Matching(none, n, m) /\ DOMAIN none.mapped = {} /\ none.added = 1 .. m
  BY <1>2, UnmatchedMatches
<1>9. MadeOf(whole, n, n, m, SameTypes(before, after), {}, none)
  BY <1>1, <1>3, <1>8, ExactMatchesLoop
<1>10. Matching(whole, n, m)
  BY <1>9 DEF MadeOf
<1>11. /\ DOMAIN bb = 1 .. n /\ DOMAIN ba = 1 .. m
       /\ \A i \in 1 .. n : bb[i] = getMediaTypeBase(before[i])
       /\ \A j \in 1 .. m : ba[j] = getMediaTypeBase(after[j])
  BY <1>1, <1>4 DEF BasesOf
<1>12. MadeOf(base, n, n, m, SameTypes(bb, ba), {}, whole)
  BY <1>1, <1>5, <1>10, <1>11, ExactMatchesLoop
<1>13. Matching(base, n, m) /\ base \in Partial(n, m)
  BY <1>12 DEF MadeOf, Matching
<1>14. ASSUME NEW i \in 1 .. n, NEW j \in 1 .. m, before[i] = after[j]
       PROVE  i \in DOMAIN base.mapped /\ base.mapped[i] = j
  <2>1. \A k \in 1 .. n, l \in 1 .. m : <<k, l>> \in SameTypes(before, after) <=> after[l] = before[k]
    <3>1. \A k \in 1 .. n, l \in 1 .. m : <<k, l>> \in (DOMAIN before) \X (DOMAIN after)
      BY <1>1
    <3>2. QED
      BY <3>1 DEF SameTypes
  <2>2. DOMAIN whole.mapped \subseteq 1 .. n /\ \A k \in DOMAIN whole.mapped : whole.mapped[k] \in 1 .. m
    BY <1>10 DEF Matching, EachKeyOnce, MappedTo
  <2>3. \A k \in DOMAIN whole.mapped : after[whole.mapped[k]] = before[k]
    BY <1>8, <1>9, <2>1, <2>2 DEF MadeOf
  <2>4. i \in DOMAIN whole.mapped
    <3>1. SUFFICES ASSUME i \in whole.removed PROVE FALSE
      BY <1>10 DEF Matching, EachKeyOnce
    <3>2. i <= n /\ j \in none.added /\ <<i, j>> \in SameTypes(before, after)
      BY <1>8, <1>14, <2>1
    <3>3. PICK l \in DOMAIN whole.mapped : l < i /\ whole.mapped[l] = j
      BY <1>9, <3>1, <3>2 DEF MadeOf
    <3>4. before[l] = before[i] /\ l \in 1 .. n
      BY <1>14, <2>2, <2>3, <3>3
    <3>5. l = i
      BY <1>1, <3>4 DEF NoneTwice
    <3>6. QED
      BY <3>3, <3>5
  <2>5. whole.mapped[i] = j
    BY <1>1, <1>14, <2>2, <2>3, <2>4 DEF NoneTwice
  <2>6. QED
    BY <1>12, <2>4, <2>5 DEF MadeOf
<1>15. ASSUME NEW i \in base.removed, NEW j \in base.added
       PROVE  getMediaTypeBase(before[i]) # getMediaTypeBase(after[j])
  <2>1. i \in 1 .. n /\ j \in 1 .. m
    BY <1>13 DEF Partial
  <2>2. SUFFICES ASSUME bb[i] = ba[j] PROVE FALSE
    BY <1>11, <2>1
  <2>3. <<i, j>> \in SameTypes(bb, ba)
    <3>1. <<i, j>> \in (DOMAIN bb) \X (DOMAIN ba)
      BY <1>11, <2>1
    <3>2. QED
      BY <2>2, <3>1 DEF SameTypes
  <2>4. j \in whole.added /\ i <= n
    BY <1>12, <2>1 DEF MadeOf
  <2>5. PICK l \in DOMAIN base.mapped : base.mapped[l] = j
    BY <1>12, <2>3, <2>4 DEF MadeOf
  <2>6. QED
    BY <1>13, <2>5 DEF Matching, EachKeyOnce, MappedTo
<1>16. CASE /\ r = base
            /\ \A i \in r.removed, j \in r.added :
                  r.removed = {i} /\ r.added = {j} => ~isWildcardCompatible(before[i], after[j])
  <2>1. MediaLoop(r, before, after, n, m)
    BY <1>13, <1>14, <1>15, <1>16 DEF MediaLoop
  <2>2. QED
    BY <1>7, <2>1
<1>17. ASSUME NEW k \in base.removed, NEW l \in base.added, r = Pairing(base, k, l), r.removed = {}
       PROVE  MediaLoop(r, before, after, n, m)
  <2>1. Matching(r, n, m)
    BY <1>13, <1>17, PairingMatches
  <2>2. k \in 1 .. n /\ l \in 1 .. m /\ k \notin DOMAIN base.mapped
    BY <1>13 DEF Matching, EachKeyOnce, Partial
  <2>3. \A i \in DOMAIN base.mapped : i \in DOMAIN r.mapped /\ r.mapped[i] = base.mapped[i]
    BY <1>13, <1>17, <2>2, PairingType
  <2>4. QED
    BY <1>14, <1>17, <2>1, <2>3 DEF MediaLoop
<1>18. QED
  BY <1>1, <1>6, <1>7, <1>13, <1>16, <1>17, WildcardRound

\* The matching of the three rounds, told in keys.
LEMMA MediaContract ==
  ASSUME NEW before, NEW after, IsSequence(before), IsSequence(after),
         NoneTwice(before), NoneTwice(after),
         NEW t, t = contentMediaTypeMappingResolver(before, after)
  PROVE  /\ EachKeyOnce(t, ElementsOf(before), ElementsOf(after)) /\ OneToOne(t)
         /\ RemovedKeepTheirKeys(t)
         /\ \A x \in ElementsOf(before) \cap ElementsOf(after) : t.mapped[x] = x
         /\ \A x \in t.removed, y \in t.added :
               /\ getMediaTypeBase(x) # getMediaTypeBase(y)
               /\ t.removed = {x} /\ t.added = {y} => ~isWildcardCompatible(x, y)
<1>1. PICK n, m : n = Len(before) /\ m = Len(after)
  OBVIOUS
<1>2. n \in Nat /\ m \in Nat /\ DOMAIN before = 1 .. n /\ DOMAIN after = 1 .. m
  BY <1>1 DEF IsSequence
<1>3. PICK r : MediaLoop(r, before, after, n, m) /\ t = InKeys(r, before, after)
  BY <1>1, MediaRounds
<1>4. Matching(r, n, m)
  BY <1>3 DEF MediaLoop
<1>5. /\ EachKeyOnce(t, ElementsOf(before), ElementsOf(after)) /\ OneToOne(t)
      /\ t = [added |-> {after[j] : j \in r.added}, removed |-> {before[i] : i \in r.removed},
              mapped |-> t.mapped]
      /\ \A i \in DOMAIN r.mapped : t.mapped[before[i]] = after[r.mapped[i]]
  BY <1>2, <1>3, <1>4, InKeysTells
<1>6. t.added = {after[j] : j \in r.added} /\ t.removed = {before[i] : i \in r.removed}
  BY <1>5
<1>7. r.removed \subseteq 1 .. n /\ r.added \subseteq 1 .. m /\ DOMAIN r.mapped \cap r.removed = {}
  BY <1>4 DEF Matching, EachKeyOnce, Partial
<1>8. ASSUME NEW i \in 1 .. n, NEW j \in 1 .. m, before[i] = after[j]
      PROVE  i \in DOMAIN r.mapped /\ r.mapped[i] = j
  BY <1>3, <1>8 DEF MediaLoop
<1>9. \A x \in ElementsOf(before) \cap ElementsOf(after) : t.mapped[x] = x
  <2>1. TAKE x \in ElementsOf(before) \cap ElementsOf(after)
  <2>2. PICK i \in 1 .. n, j \in 1 .. m : before[i] = x /\ after[j] = x
    BY <1>2 DEF ElementsOf
  <2>3. QED
    BY <1>5, <1>8, <2>2
<1>10. RemovedKeepTheirKeys(t)
  <2>1. MappedTo(t) \cup t.added = ElementsOf(after)
    BY <1>5 DEF EachKeyOnce
  <2>2. SUFFICES ASSUME NEW x \in t.removed, x \in ElementsOf(after) PROVE FALSE
    BY <2>1 DEF RemovedKeepTheirKeys
  <2>3. PICK i \in r.removed, j \in 1 .. m : before[i] = x /\ after[j] = x
    BY <1>2, <1>6, <2>2 DEF ElementsOf
  <2>4. QED
    BY <1>7, <1>8, <2>3
<1>11. ASSUME NEW x \in t.removed, NEW y \in t.added
       PROVE  /\ getMediaTypeBase(x) # getMediaTypeBase(y)
              /\ t.removed = {x} /\ t.added = {y} => ~isWildcardCompatible(x, y)
  <2>1. PICK i \in r.removed, j \in r.added : before[i] = x /\ after[j] = y
    BY <1>6
  <2>2. getMediaTypeBase(x) # getMediaTypeBase(y)
    BY <1>3, <2>1 DEF MediaLoop
  <2>3. ASSUME t.removed = {x}, t.added = {y} PROVE r.removed = {i} /\ r.added = {j}
    <3>1. \A k \in r.removed : before[k] = x
      BY <1>6, <2>3
    <3>2. \A l \in r.added : after[l] = y
      BY <1>6, <2>3
    <3>3. QED
      BY <1>2, <1>7, <2>1, <3>1, <3>2 DEF NoneTwice
  <2>4. QED
    BY <1>3, <2>1, <2>2, <2>3 DEF MediaLoop
<1>12. QED
  BY <1>5, <1>9, <1>10, <1>11

\* The matching of codes, told in keys; the removed ones in lower case.
LEMMA CodesContract ==
  ASSUME NEW before, NEW after, IsSequence(before), IsSequence(after),
         NoneTwice(before), NoneTwice(after),
         ElementsOf(before) \cup ElementsOf(after) \subseteq DOMAIN Lower,
         NEW t, t = apihubCaseInsensitiveKeyMappingResolver(before, after)
  PROVE  /\ OneToOne(t)
         /\ \A k \in DOMAIN t.mapped : Lower[t.mapped[k]] = Lower[k]
         /\ \A x \in t.removed, y \in t.added : Lower[x] # Lower[y]
<1>1. PICK n, m : n = Len(before) /\ m = Len(after)
  OBVIOUS
<1>2. n \in Nat /\ m \in Nat /\ DOMAIN before = 1 .. n /\ DOMAIN after = 1 .. m
  BY <1>1 DEF IsSequence
<1>3. PICK r : /\ Looped(r, n, m, SameCodes(before, after))
               /\ t = [InKeys(r, before, after) EXCEPT !.removed = {Lower[k] : k \in @}]
  BY <1>1, CodesLoop
<1>4. /\ Matching(r, n, m)
      /\ \A i \in DOMAIN r.mapped : <<i, r.mapped[i]>> \in SameCodes(before, after)
      /\ \A i \in r.removed : \A j \in r.added : <<i, j>> \notin SameCodes(before, after)
  BY <1>3, LoopContract
<1>5. PICK keys : keys = InKeys(r, before, after)
  OBVIOUS
<1>6. /\ OneToOne(keys)
      /\ keys = [added |-> {after[j] : j \in r.added}, removed |-> {before[i] : i \in r.removed},
                 mapped |-> keys.mapped]
      /\ DOMAIN keys.mapped = {before[i] : i \in DOMAIN r.mapped}
      /\ \A i \in DOMAIN r.mapped : keys.mapped[before[i]] = after[r.mapped[i]]
  BY <1>2, <1>4, <1>5, InKeysTells
<1>7. PICK R : R = {Lower[k] : k \in keys.removed}
  OBVIOUS
<1>8. t = [keys EXCEPT !.removed = R]
  BY <1>3, <1>5, <1>7
<1>9. t.mapped = keys.mapped /\ t.added = {after[j] : j \in r.added} /\ t.removed = R
  BY <1>6, <1>8
<1>10. R = {Lower[before[i]] : i \in r.removed}
  BY <1>6, <1>7
<1>11. /\ r.removed \subseteq 1 .. n /\ r.added \subseteq 1 .. m /\ DOMAIN r.mapped \subseteq 1 .. n
       /\ \A i \in DOMAIN r.mapped : r.mapped[i] \in 1 .. m
  BY <1>4 DEF Matching, EachKeyOnce, Partial, MappedTo
<1>12. \A i \in 1 .. n, j \in 1 .. m :
          <<i, j>> \in SameCodes(before, after) <=> Lower[before[i]] = Lower[after[j]]
  <2>1. \A i \in 1 .. n, j \in 1 .. m : <<i, j>> \in (DOMAIN before) \X (DOMAIN after)
    BY <1>2
  <2>2. QED
    BY <2>1 DEF SameCodes, SameCode
<1>13. OneToOne(t)
  BY <1>6, <1>9 DEF OneToOne
<1>14. ASSUME NEW k \in DOMAIN t.mapped PROVE Lower[t.mapped[k]] = Lower[k]
  <2>1. PICK i \in DOMAIN r.mapped : k = before[i]
    BY <1>6, <1>9
  <2>2. t.mapped[k] = after[r.mapped[i]]
    BY <1>6, <1>9, <2>1
  <2>3. PICK j \in 1 .. m : j = r.mapped[i]
    BY <1>11, <2>1
  <2>4. i \in 1 .. n /\ <<i, j>> \in SameCodes(before, after)
    BY <1>4, <1>11, <2>1, <2>3
  <2>5. Lower[before[i]] = Lower[after[j]]
    BY <1>12, <2>4
  <2>6. QED
    BY <2>1, <2>2, <2>3, <2>5
<1>15. ASSUME NEW x \in t.removed, NEW y \in t.added PROVE Lower[x] # Lower[y]
  <2>1. PICK i \in r.removed, j \in r.added : x = Lower[before[i]] /\ y = after[j]
    BY <1>9, <1>10
  <2>2. Lower[x] = Lower[before[i]]
    BY <1>2, <1>11, <2>1, ResolversAssumption DEF ElementsOf
  <2>3. QED
    BY <1>4, <1>11, <1>12, <2>1, <2>2
<1>16. QED
  BY <1>13, <1>14, <1>15

-----------------------------------------------------------------------------
(***************************************************************************)
(* Paths.                                                                  *)
(***************************************************************************)
Hide(segment) == IF segment \in ParamName THEN Star ELSE segment

\* A unified path is the URL with its parameters hidden.
HidesUrl(u, url, n) ==
  /\ n \in Nat /\ Len(url) = n /\ u = [i \in 1 .. n |-> u[i]]
  /\ \A i \in 1 .. n : url[i] # Star /\ u[i] = Hide(url[i])

LEMMA UnifyHides ==
  ASSUME NEW b, IsBase(b), NEW p, IsPath(p)
  PROVE  HidesUrl(b \o hidePathParamNames(p), b \o p, Len(b \o p))
<1>1. PICK B, P, H : B = ElementsOf(b) \ (ParamName \cup {Star}) /\ P = ElementsOf(p) \ {Star}
                     /\ H = P \cup {Star}
  OBVIOUS
<1>2. b \in Seq(B) /\ p \in Seq(P)
  BY <1>1 DEF IsBase, IsPath
<1>3. PICK lb, lp : lb = Len(b) /\ lp = Len(p)
  OBVIOUS
<1>4. /\ lb \in Nat /\ lp \in Nat /\ b \in [1 .. lb -> B] /\ p \in [1 .. lp -> P]
  BY <1>2, <1>3
<1>5. PICK h : h = hidePathParamNames(p)
  OBVIOUS
<1>6. /\ h \in [1 .. lp -> H] /\ \A i \in 1 .. lp : h[i] = Hide(p[i]) /\ p[i] # Star
  BY <1>1, <1>4, <1>5 DEF hidePathParamNames, Hide
<1>7. h \in Seq(H) /\ Len(h) = lp
  BY <1>4, <1>6
<1>8. b \in Seq(B \cup H) /\ h \in Seq(B \cup H) /\ p \in Seq(B \cup H)
  BY <1>1, <1>2, <1>4, <1>6, <1>7
<1>9. PICK u, url, n : u = b \o h /\ url = b \o p /\ n = lb + lp
  OBVIOUS
<1>10. n \in Nat /\ Len(url) = n /\ u \in Seq(B \cup H) /\ Len(u) = n
  <2>1. PICK Z : Z = B \cup H
    OBVIOUS
  <2>2. b \in Seq(Z) /\ h \in Seq(Z) /\ p \in Seq(Z)
    BY <1>8, <2>1
  <2>3. Len(b \o h) = Len(b) + Len(h) /\ Len(b \o p) = Len(b) + Len(p) /\ b \o h \in Seq(Z)
    BY <2>2
  <2>4. n \in Nat
    BY <1>4, <1>9
  <2>5. QED
    BY <1>3, <1>7, <1>9, <2>1, <2>3, <2>4
<1>11. u = [i \in 1 .. n |-> u[i]]
  BY <1>10
<1>12. \A i \in 1 .. n : /\ u[i] = IF i <= lb THEN b[i] ELSE h[i - lb]
                         /\ url[i] = IF i <= lb THEN b[i] ELSE p[i - lb]
  BY <1>3, <1>4, <1>7, <1>8, <1>9
<1>13. ASSUME NEW i \in 1 .. n PROVE url[i] # Star /\ u[i] = Hide(url[i])
  <2>1. CASE i <= lb
    <3>1. i \in 1 .. lb /\ b[i] \in B
      BY <1>4, <2>1
    <3>2. b[i] # Star /\ b[i] \notin ParamName
      BY <1>1, <3>1
    <3>3. u[i] = b[i] /\ url[i] = b[i]
      BY <1>12, <2>1
    <3>4. QED
      BY <3>2, <3>3 DEF Hide
  <2>2. CASE ~ (i <= lb)
    <3>1. i - lb \in 1 .. lp
      BY <1>4, <1>9, <2>2
    <3>2. u[i] = h[i - lb] /\ url[i] = p[i - lb]
      BY <1>12, <2>2
    <3>3. QED
      BY <1>6, <3>1, <3>2
  <2>3. QED
    BY <2>1, <2>2
<1>14. QED
  BY <1>5, <1>9, <1>10, <1>11, <1>13 DEF HidesUrl

\* Paths unify alike when their URLs are the same endpoint, and only then.
LEMMA UnifyAlike ==
  ASSUME NEW u, NEW v, NEW p, NEW q, HidesUrl(u, p, Len(p)), HidesUrl(v, q, Len(q)),
         IsSequence(p), IsSequence(q)
  PROVE  u = v <=> SameEndpoint(p, q)
<1>1. PICK n, m : n = Len(p) /\ m = Len(q)
  OBVIOUS
<1>2. /\ n \in Nat /\ m \in Nat /\ u = [i \in 1 .. n |-> u[i]] /\ v = [i \in 1 .. m |-> v[i]]
      /\ \A i \in 1 .. n : p[i] # Star /\ u[i] = Hide(p[i])
      /\ \A i \in 1 .. m : q[i] # Star /\ v[i] = Hide(q[i])
  BY <1>1 DEF HidesUrl
<1>3. DOMAIN p = 1 .. n /\ DOMAIN q = 1 .. m
  BY <1>1 DEF IsSequence
<1>4. DOMAIN u = 1 .. n /\ DOMAIN v = 1 .. m
  BY <1>2
<1>5. ASSUME u = v PROVE n = m
  <2>1. 1 .. n = 1 .. m
    BY <1>4, <1>5
  <2>2. QED
    BY <1>2, <2>1
<1>6. ASSUME n = m, NEW i \in 1 .. n
      PROVE  u[i] = v[i] <=> p[i] = q[i] \/ {p[i], q[i]} \subseteq ParamName
  BY <1>2, <1>6 DEF Hide
<1>7. ASSUME u = v PROVE SameEndpoint(p, q)
  BY <1>1, <1>3, <1>5, <1>6, <1>7 DEF SameEndpoint
<1>8. ASSUME SameEndpoint(p, q) PROVE u = v
  <2>1. n = m
    BY <1>1, <1>8 DEF SameEndpoint
  <2>2. \A i \in 1 .. n : u[i] = v[i]
    BY <1>3, <1>6, <1>8, <2>1 DEF SameEndpoint
  <2>3. QED
    BY <1>2, <2>1, <2>2
<1>9. QED
  BY <1>7, <1>8

\* No two have the same name.
Apart(names) == \A u, v \in DOMAIN names : names[u] = names[v] => u = v

\* Keys that are paired by another name each has.
Paired(b, a, both) ==
  MapKeysResult({a[u] : u \in DOMAIN a \ both}, {b[u] : u \in DOMAIN b \ both},
                [x \in {b[u] : u \in both} |-> a[CHOOSE v \in both : b[v] = x]])

PairedByNames(r, b, a, both) ==
  /\ EachKeyOnce(r, {b[u] : u \in DOMAIN b}, {a[u] : u \in DOMAIN a}) /\ OneToOne(r)
  /\ DOMAIN r.mapped = {b[u] : u \in both} /\ \A u \in both : r.mapped[b[u]] = a[u]

LEMMA RenamingContract ==
  ASSUME NEW b, NEW a, Apart(b), Apart(a), NEW both, both = DOMAIN b \cap DOMAIN a,
         NEW r, r = Paired(b, a, both)
  PROVE  PairedByNames(r, b, a, both)
<1>1. PICK f : f = [x \in {b[u] : u \in both} |-> a[CHOOSE v \in both : b[v] = x]]
  OBVIOUS
<1>2. ASSUME NEW u \in both PROVE f[b[u]] = a[u]
  <2>1. (CHOOSE v \in both : b[v] = b[u]) = u
    BY DEF Apart
  <2>2. QED
    BY <1>1, <2>1
<1>3. PICK gone, new : gone = {b[u] : u \in DOMAIN b \ both} /\ new = {a[u] : u \in DOMAIN a \ both}
  OBVIOUS
<1>4. /\ r.added = new /\ r.removed = gone /\ r.mapped = f /\ DOMAIN f = {b[u] : u \in both}
  <2>1. r = [added |-> new, removed |-> gone, mapped |-> f]
    BY <1>1, <1>3 DEF MapKeysResult, Paired
  <2>2. r.added = new /\ r.removed = gone /\ r.mapped = f
    BY <2>1
  <2>3. QED
    BY <1>1, <2>2
<1>5. MappedTo(r) = {a[u] : u \in both}
  <2>1. MappedTo(r) = {f[x] : x \in DOMAIN f}
    BY <1>4 DEF MappedTo
  <2>2. \A u \in both : b[u] \in DOMAIN f /\ f[b[u]] = a[u]
    BY <1>2, <1>4
  <2>3. \A x \in DOMAIN f : \E u \in both : x = b[u] /\ f[x] = a[u]
    BY <1>4, <2>2
  <2>4. QED
    BY <2>1, <2>2, <2>3
<1>6. DOMAIN f \cup r.removed = {b[u] : u \in DOMAIN b} /\ DOMAIN f \cap r.removed = {}
  <2>1. both \in SUBSET (DOMAIN b)
    OBVIOUS
  <2>2. {b[u] : u \in both} \cup {b[u] : u \in DOMAIN b \ both} = {b[u] : u \in DOMAIN b}
    BY <2>1
  <2>3. {b[u] : u \in both} \cap {b[u] : u \in DOMAIN b \ both} = {}
    BY <2>1 DEF Apart
  <2>4. QED
    BY <1>3, <1>4, <2>2, <2>3
<1>7. MappedTo(r) \cup r.added = {a[u] : u \in DOMAIN a} /\ MappedTo(r) \cap r.added = {}
  <2>1. both \in SUBSET (DOMAIN a)
    OBVIOUS
  <2>2. {a[u] : u \in both} \cup {a[u] : u \in DOMAIN a \ both} = {a[u] : u \in DOMAIN a}
    BY <2>1
  <2>3. {a[u] : u \in both} \cap {a[u] : u \in DOMAIN a \ both} = {}
    BY <2>1 DEF Apart
  <2>4. QED
    BY <1>3, <1>4, <1>5, <2>2, <2>3
<1>8. OneToOne(r)
  BY <1>2, <1>4 DEF OneToOne, Apart
<1>9. QED
  BY <1>2, <1>4, <1>6, <1>7, <1>8 DEF EachKeyOnce, PairedByNames

UnifyApart(root, entries) ==
  \A i, j \in DOMAIN entries :
     \/ Unify(root, entries[i]) = Unify(root, entries[j])
     \/ entries[i].path = entries[j].path
     => i = j

UnifiedToPaths(k, root, entries) ==
  /\ DOMAIN k = {Unify(root, entries[i]) : i \in DOMAIN entries}
  /\ \A i \in DOMAIN entries : k[Unify(root, entries[i])] = entries[i].path
  /\ Apart(k) /\ {k[u] : u \in DOMAIN k} = PathsOf(entries)

\* Object.fromEntries keeps every path when no two unify alike.
LEMMA UnifiedKeys ==
  ASSUME NEW entries, IsSequence(entries), NEW root, UnifyApart(root, entries),
         NEW k, k = UnifiedToKey(root, entries)
  PROVE  UnifiedToPaths(k, root, entries)
<1> USE DEF UnifyApart
<1> DEFINE IsLast(u, i) == /\ Unify(root, entries[i]) = u
                           /\ \A j \in DOMAIN entries : Unify(root, entries[j]) = u => j <= i
<1>1. k = [u \in {Unify(root, entries[i]) : i \in DOMAIN entries} |->
             entries[CHOOSE i \in DOMAIN entries : IsLast(u, i)].path]
  BY DEF UnifiedToKey
<1>2. DOMAIN k = {Unify(root, entries[i]) : i \in DOMAIN entries}
  BY <1>1
<1>3. ASSUME NEW i \in DOMAIN entries PROVE k[Unify(root, entries[i])] = entries[i].path
  <2>1. i <= i
    BY DEF IsSequence
  <2>2. IsLast(Unify(root, entries[i]), i)
    BY <2>1
  <2>3. \A j \in DOMAIN entries : IsLast(Unify(root, entries[i]), j) => j = i
    OBVIOUS
  <2> HIDE DEF IsLast
  <2>4. (CHOOSE j \in DOMAIN entries : IsLast(Unify(root, entries[i]), j)) = i
    BY <2>2, <2>3
  <2>5. QED
    BY <1>1, <2>4
<1>4. Apart(k)
  BY <1>2, <1>3 DEF Apart
<1>5. {k[u] : u \in DOMAIN k} = PathsOf(entries)
  BY <1>2, <1>3 DEF PathsOf
<1>6. QED
  BY <1>2, <1>3, <1>4, <1>5 DEF UnifiedToPaths

\* No two paths are one endpoint.
EndpointsApart(entries, root) ==
  \A i, j \in DOMAIN entries : SameEndpoint(Url(entries[i], root), Url(entries[j], root)) => i = j

PathsPaired(r, before, after, context) ==
  /\ EachKeyOnce(r, PathsOf(before), PathsOf(after)) /\ OneToOne(r)
  /\ \A i \in DOMAIN before, j \in DOMAIN after :
        SameEndpoint(Url(before[i], context.before), Url(after[j], context.after)) <=>
          before[i].path \in DOMAIN r.mapped /\ r.mapped[before[i].path] = after[j].path

\* Paths are paired by what they unify to, each with the one of the same endpoint.
LEMMA PathsContract ==
  ASSUME NEW before, IsSequence(before), NEW after, IsSequence(after), NEW context,
         ArePaths(before, context.before), ArePaths(after, context.after),
         EndpointsApart(before, context.before), EndpointsApart(after, context.after),
         NEW r, r = pathMappingResolver(before, after, context)
  PROVE  PathsPaired(r, before, after, context)
<1> DEFINE Alike(p, r1, q, r2) ==
             Unify(r1, p) = Unify(r2, q) <=> SameEndpoint(Url(p, r1), Url(q, r2))
           Under(p, root) == IF p.base = Undeclared THEN root ELSE p.base
           Proper(p, root) == IsPath(p.path) /\ IsBase(Under(p, root))
<1>1. ASSUME NEW p, NEW r1, Proper(p, r1)
      PROVE  HidesUrl(Unify(r1, p), Url(p, r1), Len(Url(p, r1))) /\ IsSequence(Url(p, r1))
  <2>1. PICK b : b = Under(p, r1)
    OBVIOUS
  <2>2. IsBase(b) /\ IsPath(p.path)
    BY <1>1, <2>1
  <2>3. Unify(r1, p) = b \o hidePathParamNames(p.path) /\ Url(p, r1) = b \o p.path
    BY <2>1 DEF Unify, Url
  <2>4. HidesUrl(b \o hidePathParamNames(p.path), b \o p.path, Len(b \o p.path))
    BY <2>2, UnifyHides
  <2>5. IsSequence(b \o p.path)
    <3>1. PICK B, P, Z : /\ B = ElementsOf(b) \ (ParamName \cup {Star})
                         /\ P = ElementsOf(p.path) \ {Star} /\ Z = B \cup P
      OBVIOUS
    <3>2. b \in Seq(B) /\ p.path \in Seq(P)
      BY <2>2, <3>1 DEF IsBase, IsPath
    <3>3. b \in Seq(Z) /\ p.path \in Seq(Z)
      BY <3>1, <3>2
    <3>4. b \o p.path \in Seq(Z)
      BY <3>3
    <3>5. QED
      BY <3>4 DEF IsSequence
  <2>6. QED
    BY <2>3, <2>4, <2>5
<1>2. \A i \in DOMAIN before : Proper(before[i], context.before)
  BY DEF ArePaths
<1>3. \A j \in DOMAIN after : Proper(after[j], context.after)
  BY DEF ArePaths
<1>4. ASSUME NEW p, NEW r1, NEW q, NEW r2, Proper(p, r1), Proper(q, r2) PROVE Alike(p, r1, q, r2)
  <2> HIDE DEF Proper
  <2>1. PICK u, v, s, t : /\ u = Unify(r1, p) /\ v = Unify(r2, q) /\ s = Url(p, r1) /\ t = Url(q, r2)
    OBVIOUS
  <2>2. HidesUrl(u, s, Len(s)) /\ HidesUrl(v, t, Len(t)) /\ IsSequence(s) /\ IsSequence(t)
    BY <1>1, <1>4, <2>1
  <2>3. u = v <=> SameEndpoint(s, t)
    BY <2>2, UnifyAlike
  <2>4. QED
    BY <2>1, <2>3
<1> HIDE DEF Proper
<1>5. \A i, j \in DOMAIN before : Alike(before[i], context.before, before[j], context.before)
  BY <1>2, <1>4
<1>6. \A i, j \in DOMAIN after : Alike(after[i], context.after, after[j], context.after)
  BY <1>3, <1>4
<1>7. \A i \in DOMAIN before, j \in DOMAIN after : Alike(before[i], context.before, after[j], context.after)
  BY <1>2, <1>3, <1>4
<1>8. PICK b, a : b = UnifiedToKey(context.before, before) /\ a = UnifiedToKey(context.after, after)
  OBVIOUS
<1>9. UnifiedToPaths(b, context.before, before)
  <2>1. \A i, j \in DOMAIN before :
           Unify(context.before, before[i]) = Unify(context.before, before[j]) => i = j
    BY <1>5 DEF EndpointsApart
  <2>2. UnifyApart(context.before, before)
    BY <2>1 DEF ArePaths, UnifyApart
  <2>3. QED
    BY <1>8, <2>2, UnifiedKeys
<1>10. UnifiedToPaths(a, context.after, after)
  <2>1. \A i, j \in DOMAIN after :
           Unify(context.after, after[i]) = Unify(context.after, after[j]) => i = j
    BY <1>6 DEF EndpointsApart
  <2>2. UnifyApart(context.after, after)
    BY <2>1 DEF ArePaths, UnifyApart
  <2>3. QED
    BY <1>8, <2>2, UnifiedKeys
<1>11. PICK both : both = DOMAIN b \cap DOMAIN a
  OBVIOUS
<1>12. r = Paired(b, a, both)
  BY <1>8, <1>11 DEF pathMappingResolver, Paired
<1>13. PairedByNames(r, b, a, both)
  <2>1. Apart(b) /\ Apart(a)
    BY <1>9, <1>10 DEF UnifiedToPaths
  <2>2. QED
    BY <1>11, <1>12, <2>1, RenamingContract
<1>14. ASSUME NEW i \in DOMAIN before, NEW j \in DOMAIN after
       PROVE  SameEndpoint(Url(before[i], context.before), Url(after[j], context.after)) <=>
                before[i].path \in DOMAIN r.mapped /\ r.mapped[before[i].path] = after[j].path
  <2>1. PICK u, v, x, y : /\ u = Unify(context.before, before[i]) /\ v = Unify(context.after, after[j])
                          /\ x = before[i].path /\ y = after[j].path
    OBVIOUS
  <2>2. u \in DOMAIN b /\ v \in DOMAIN a /\ b[u] = x /\ a[v] = y
    BY <1>9, <1>10, <2>1 DEF UnifiedToPaths
  <2>3. SameEndpoint(Url(before[i], context.before), Url(after[j], context.after)) <=> u = v
    BY <1>7, <2>1
  <2>4. ASSUME u = v PROVE x \in DOMAIN r.mapped /\ r.mapped[x] = y
    BY <1>11, <1>13, <2>2, <2>4 DEF PairedByNames
  <2>5. ASSUME x \in DOMAIN r.mapped, r.mapped[x] = y PROVE u = v
    <3>1. PICK w \in both : x = b[w]
      BY <1>13, <2>5 DEF PairedByNames
    <3>2. w = u
      BY <1>9, <1>11, <2>2, <3>1 DEF Apart, UnifiedToPaths
    <3>3. a[u] = a[v]
      BY <1>13, <2>2, <2>5, <3>1, <3>2 DEF PairedByNames
    <3>4. QED
      BY <1>10, <1>11, <2>2, <3>1, <3>2, <3>3 DEF Apart, UnifiedToPaths
  <2>6. QED
    BY <2>1, <2>3, <2>4, <2>5
<1>15. QED
  BY <1>9, <1>10, <1>13, <1>14 DEF PairedByNames, UnifiedToPaths, PathsPaired

-----------------------------------------------------------------------------
(***************************************************************************)
(* Parameters.  This loop looks at all of after each time: same[i] is what *)
(* the i-th parameter may be, its first is taken whether it is free or not.*)
(***************************************************************************)
FirstOf(n, m, same) ==
  [added |-> {j \in 1 .. m : \A i \in 1 .. n : same[i] # {} => j # Least(same[i])},
   removed |-> {i \in 1 .. n : same[i] = {}},
   mapped |-> [i \in {l \in 1 .. n : same[l] # {}} |-> Least(same[i])]]

\* What the loop has after k rounds.
FirstSoFar(k, n, m, same) ==
  [added |-> {j \in 1 .. m : \A i \in 1 .. k : same[i] # {} => j # Least(same[i])},
   removed |-> {i \in 1 .. n : i <= k => same[i] = {}},
   mapped |-> [i \in {l \in 1 .. k : same[l] # {}} |-> Least(same[i])]]

LEMMA FirstRound ==
  ASSUME NEW n \in Nat, NEW m, NEW same, NEW k \in 1 .. n,
         NEW r, r = FirstSoFar(k - 1, n, m, same)
  PROVE  FirstSoFar(k, n, m, same) =
           IF same[k] = {} THEN r ELSE Pairing(r, k, Least(same[k]))
<1>1. PICK at : at = FirstSoFar(k, n, m, same)
  OBVIOUS
<1>2. PICK A, R, D, f : /\ A = {j \in 1 .. m : \A i \in 1 .. k : same[i] # {} => j # Least(same[i])}
                        /\ R = {i \in 1 .. n : i <= k => same[i] = {}}
                        /\ D = {l \in 1 .. k : same[l] # {}} /\ f = [i \in D |-> Least(same[i])]
  OBVIOUS
<1>3. PICK B, S, E, g : /\ B = {j \in 1 .. m : \A i \in 1 .. k - 1 : same[i] # {} => j # Least(same[i])}
                        /\ S = {i \in 1 .. n : i <= k - 1 => same[i] = {}}
                        /\ E = {l \in 1 .. k - 1 : same[l] # {}} /\ g = [i \in E |-> Least(same[i])]
  OBVIOUS
<1>4. at = [added |-> A, removed |-> R, mapped |-> f] /\ r = [added |-> B, removed |-> S, mapped |-> g]
  BY <1>1, <1>2, <1>3 DEF FirstSoFar
<1>5. 1 .. k = 1 .. k - 1 \cup {k} /\ \A i \in 1 .. n : i <= k <=> i <= k - 1 \/ i = k
  OBVIOUS
<1>6. CASE same[k] = {}
  <2>1. A = B /\ R = S
    BY <1>2, <1>3, <1>5, <1>6
  <2>2. D = E
    BY <1>2, <1>3, <1>5, <1>6
  <2>3. f = g
    BY <1>2, <1>3, <2>2
  <2>4. QED
    BY <1>1, <1>4, <1>6, <2>1, <2>3
<1>7. CASE same[k] # {}
  <2>1. PICK j : j = Least(same[k])
    OBVIOUS
  <2>2. A = B \ {j}
    BY <1>2, <1>3, <1>5, <1>7, <2>1
  <2>3. R = S \ {k}
    BY <1>2, <1>3, <1>5, <1>7
  <2>4. D = E \cup {k} /\ k \notin E
    BY <1>2, <1>3, <1>5, <1>7
  <2>5. f = [i \in E \cup {k} |-> IF i = k THEN j ELSE g[i]]
    BY <1>2, <1>3, <2>1, <2>4
  <2>6. r.added = B /\ r.removed = S /\ r.mapped = g /\ DOMAIN g = E
    BY <1>3, <1>4
  <2>7. Pairing(r, k, j) = [added |-> B \ {j}, removed |-> S \ {k}, mapped |-> f]
    BY <2>5, <2>6 DEF Pairing
  <2>8. QED
    BY <1>1, <1>4, <1>7, <2>1, <2>2, <2>3, <2>7
<1>8. QED
  BY <1>6, <1>7

\* What the i-th parameter may be.
SameAs(before, after, paths) ==
  [i \in DOMAIN before |-> {j \in DOMAIN after : SameParameter(before[i], after[j], mapPathParams(paths))}]

LEMMA ParametersLoop ==
  ASSUME NEW before, NEW after, IsSequence(before), IsSequence(after),
         NEW n, n = Len(before), NEW m, m = Len(after), NEW paths
  PROVE  paramMappingResolver(before, after, paths) = FirstOf(n, m, SameAs(before, after, paths))
<1> DEFINE base == Unmatched(DOMAIN before, DOMAIN after)
           renamed == mapPathParams(paths)
           Match(r, i) ==
             IF {j \in DOMAIN after : SameParameter(before[i], after[j], renamed)} = {} THEN r
             ELSE Pairing(r, i, Least({j \in DOMAIN after : SameParameter(before[i], after[j], renamed)}))
           IsFold(g) == g = [s \in SUBSET (DOMAIN Indexes(before)) |->
                               IF s = {} THEN base
                               ELSE Match(g[s \ {Max(s)}], Indexes(before)[Max(s)])]
<1>1. /\ n \in Nat /\ m \in Nat /\ DOMAIN before = 1 .. n /\ DOMAIN after = 1 .. m
      /\ DOMAIN Indexes(before) = 1 .. n /\ \A i \in 1 .. n : Indexes(before)[i] = i
  BY DEF IsSequence, Indexes
<1>2. PICK same : same = SameAs(before, after, paths)
  OBVIOUS
<1>3. \A i \in 1 .. n : same[i] = {j \in DOMAIN after : SameParameter(before[i], after[j], renamed)}
  BY <1>1, <1>2 DEF SameAs
<1>4. \A r : \A i \in 1 .. n : Match(r, i) = IF same[i] = {} THEN r ELSE Pairing(r, i, Least(same[i]))
  BY <1>3
<1>5. paramMappingResolver(before, after, paths) = (CHOOSE h : IsFold(h))[DOMAIN Indexes(before)]
  BY DEF paramMappingResolver, FoldLeft, MapThenFoldSet
<1>6. base \in Partial(n, m)
  BY <1>1, UnmatchedMatches DEF Matching
<1>7. \A i \in 1 .. n : same[i] # {} => Least(same[i]) \in 1 .. m
  <2>1. ASSUME NEW i \in 1 .. n, same[i] # {} PROVE Least(same[i]) \in 1 .. m
    <3>1. same[i] \in SUBSET (1 .. m) /\ same[i] \in SUBSET Nat
      BY <1>1, <1>3
    <3>2. Least(same[i]) \in same[i]
      BY <2>1, <3>1, LeastIsLeast
    <3>3. QED
      BY <3>1, <3>2
  <2>2. QED
    BY <2>1
<1> HIDE DEF Match, base
<1>8. PICK T : T = Partial(n, m)
  OBVIOUS
<1>9. ASSUME NEW r \in T, NEW i \in 1 .. n PROVE Match(r, i) \in T
  <2>1. CASE same[i] = {}
    BY <1>4, <2>1
  <2>2. CASE same[i] # {}
    <3>1. PICK j \in 1 .. m : j = Least(same[i])
      BY <1>7, <2>2
    <3>2. Pairing(r, i, j) \in Partial(n, m)
      BY <1>8, PairingType
    <3>3. QED
      BY <1>4, <1>8, <2>2, <3>1, <3>2
  <2>3. QED
    BY <2>1, <2>2
<1>10. PICK step : step = [x \in T \X (1 .. n) |-> Match(x[1], x[2])]
  OBVIOUS
<1>11. step \in [T \X (1 .. n) -> T] /\ base \in T
  BY <1>6, <1>8, <1>9, <1>10
<1>12. PICK g \in [SUBSET (1 .. n) -> T] : Folding(g, n, base, step)
  BY <1>1, <1>11, FoldingExists
<1>13. IsFold(g)
  <2>1. ASSUME NEW s \in SUBSET (1 .. n)
        PROVE  g[s] = IF s = {} THEN base ELSE Match(g[s \ {Max(s)}], Indexes(before)[Max(s)])
    <3>1. CASE s = {}
      BY <1>12, <3>1 DEF Folding
    <3>2. CASE s # {}
      <4>1. Max(s) \in 1 .. n /\ g[s \ {Max(s)}] \in T
        BY <1>1, <1>12, <3>2, MaxExists
      <4>2. g[s] = step[<<g[s \ {Max(s)}], Max(s)>>]
        BY <1>12, <3>2 DEF Folding
      <4>3. g[s] = Match(g[s \ {Max(s)}], Max(s))
        BY <1>10, <4>1, <4>2
      <4>4. QED
        BY <1>1, <3>2, <4>1, <4>3
    <3>3. QED
      BY <3>1, <3>2
  <2>2. QED
    BY <1>1, <1>12, <2>1
<1>14. PICK f : IsFold(f) /\ paramMappingResolver(before, after, paths) = f[1 .. n]
  BY <1>1, <1>5, <1>13
<1>15. f[{}] = base /\ \A s \in SUBSET (1 .. n) : s # {} =>
                          f[s] = Match(f[s \ {Max(s)}], Indexes(before)[Max(s)])
  BY <1>1, <1>14
<1> DEFINE H == {k \in 0 .. n : f[1 .. k] = FirstSoFar(k, n, m, same)}
<1>16. 0 \in H
  <2>1. 0 \in 0 .. n /\ 1 .. 0 = {}
    BY <1>1
  <2>2. base = [added |-> 1 .. m, removed |-> 1 .. n, mapped |-> Nothing]
    BY <1>1 DEF base, Unmatched, MapKeysResult
  <2>3. \A i \in 1 .. n : ~ (i <= 0)
    BY <1>1
  <2>4. {i \in 1 .. n : i <= 0 => same[i] = {}} = 1 .. n
    BY <2>3
  <2>5. {j \in 1 .. m : \A i \in 1 .. 0 : same[i] # {} => j # Least(same[i])} = 1 .. m
    BY <2>1
  <2>6. [i \in {l \in 1 .. 0 : same[l] # {}} |-> Least(same[i])] = Nothing
    BY <2>1 DEF Nothing
  <2>7. FirstSoFar(0, n, m, same) = base
    BY <2>2, <2>4, <2>5, <2>6 DEF FirstSoFar
  <2>8. QED
    BY <1>15, <2>1, <2>7
<1>17. ASSUME NEW k \in 1 .. n, k - 1 \in H PROVE k \in H
  <2>1. k \in Nat /\ k # 0 /\ 1 .. k \in SUBSET (1 .. n) /\ k \in 0 .. n
    BY <1>1
  <2>2. Max(1 .. k) = k /\ (1 .. k) \ {k} = 1 .. k - 1 /\ 1 .. k # {}
    BY <2>1, FirstIndexes
  <2>3. f[1 .. k] = Match(f[(1 .. k) \ {Max(1 .. k)}], Indexes(before)[Max(1 .. k)])
    BY <1>15, <2>1, <2>2
  <2>4. f[1 .. k] = Match(f[1 .. k - 1], k)
    BY <1>1, <2>2, <2>3
  <2>5. PICK r : r = FirstSoFar(k - 1, n, m, same)
    OBVIOUS
  <2>6. f[1 .. k - 1] = r
    BY <1>17, <2>5
  <2>7. FirstSoFar(k, n, m, same) = IF same[k] = {} THEN r ELSE Pairing(r, k, Least(same[k]))
    BY <1>1, <2>5, FirstRound
  <2>8. f[1 .. k] = FirstSoFar(k, n, m, same)
    BY <1>4, <2>4, <2>6, <2>7
  <2>9. QED
    BY <2>1, <2>8
<1>18. f[1 .. n] = FirstSoFar(n, n, m, same)
  <2> HIDE DEF H
  <2>1. \A k \in 0 .. n : k \in H
    BY <1>1, <1>16, <1>17, Rounds
  <2>2. n \in H
    BY <1>1, <2>1
  <2>3. QED
    BY <2>2 DEF H
<1>19. FirstSoFar(n, n, m, same) = FirstOf(n, m, same)
  <2>1. {i \in 1 .. n : i <= n => same[i] = {}} = {i \in 1 .. n : same[i] = {}}
    BY <1>1
  <2>2. QED
    BY <2>1 DEF FirstSoFar, FirstOf
<1>20. QED
  BY <1>2, <1>14, <1>18, <1>19

\* A renaming of the parameters of a path that takes no name over.
NoneTakenOver(renamed) ==
  \A x \in DOMAIN renamed : renamed[x] # x => renamed[x] \notin DOMAIN renamed

\* Distinct parameters are renamed by their position.
ByPosition(renamed, P, Q) ==
  DOMAIN renamed = ElementsOf(P) /\ \A x \in DOMAIN P : renamed[P[x]] = Q[x]

LEMMA RenamedByPosition ==
  ASSUME NEW paths, IsSequence(ParamsOf(paths.before)), NoneTwice(ParamsOf(paths.before)),
         DOMAIN ParamsOf(paths.before) = DOMAIN ParamsOf(paths.after)
  PROVE  ByPosition(mapPathParams(paths), ParamsOf(paths.before), ParamsOf(paths.after))
<1> DEFINE P == ParamsOf(paths.before)
           Q == ParamsOf(paths.after)
           both == DOMAIN P \cap DOMAIN Q
           Where(name) == CHOOSE i \in both : P[i] = name /\ \A j \in both : P[j] = name => j <= i
           renamed == mapPathParams(paths)
<1>1. renamed = [name \in {P[i] : i \in both} |-> Q[Where(name)]]
  BY DEF mapPathParams
<1>2. both = DOMAIN P /\ IsSequence(P) /\ NoneTwice(P)
  OBVIOUS
<1> HIDE DEF P, Q, renamed
<1>3. ASSUME NEW x \in DOMAIN P PROVE renamed[P[x]] = Q[x]
  <2>1. x <= x
    BY <1>2 DEF IsSequence
  <2>2. x \in both /\ \A j \in both : P[j] = P[x] => j <= x
    BY <1>2, <2>1 DEF NoneTwice
  <2>3. Where(P[x]) = x
    BY <1>2, <2>2 DEF NoneTwice
  <2>4. P[x] \in {P[i] : i \in both}
    BY <2>2
  <2> HIDE DEF Where
  <2>5. QED
    BY <1>1, <2>3, <2>4
<1>4. DOMAIN renamed = ElementsOf(P)
  BY <1>1, <1>2 DEF ElementsOf
<1>5. ByPosition(renamed, P, Q)
  BY <1>3, <1>4 DEF ByPosition
<1>6. QED
  BY <1>5 DEF P, Q, renamed

\* Path parameters are paired by their place in the path, the others by location and name.
PairedInPlace(r, before, after, paths) ==
  /\ EachKeyOnce(r, DOMAIN before, DOMAIN after) /\ OneToOne(r)
  /\ \A i \in DOMAIN before, j \in DOMAIN after :
        (i \in DOMAIN r.mapped /\ r.mapped[i] = j) <=>
           /\ before[i].in = after[j].in
           /\ IF before[i].in = "path"
              THEN \E x \in DOMAIN ParamsOf(paths.before) :
                      ParamsOf(paths.before)[x] = before[i].name /\ ParamsOf(paths.after)[x] = after[j].name
              ELSE before[i].name = after[j].name

LEMMA ParametersContract ==
  ASSUME NEW before, NEW after, IsSequence(before), IsSequence(after), NEW paths,
         AreParameters(before, paths.before), AreParameters(after, paths.after),
         DOMAIN ParamsOf(paths.before) = DOMAIN ParamsOf(paths.after),
         NoneTakenOver(mapPathParams(paths)),
         NEW r, r = paramMappingResolver(before, after, paths)
  PROVE  PairedInPlace(r, before, after, paths)
<1>1. PICK n, m, P, Q, renamed, same :
        /\ n = Len(before) /\ m = Len(after)
        /\ P = ParamsOf(paths.before) /\ Q = ParamsOf(paths.after)
        /\ renamed = mapPathParams(paths) /\ same = SameAs(before, after, paths)
  OBVIOUS
<1>2. n \in Nat /\ m \in Nat /\ DOMAIN before = 1 .. n /\ DOMAIN after = 1 .. m
  BY <1>1 DEF IsSequence
<1>3. /\ IsSequence(P) /\ NoneTwice(P) /\ NoneTwice(Q) /\ DOMAIN P = DOMAIN Q
      /\ \A i \in 1 .. n : before[i].in = "path" => \E x \in DOMAIN P : before[i].name = P[x]
      /\ \A j \in 1 .. m : after[j].in = "path" => \E x \in DOMAIN P : after[j].name = Q[x]
      /\ \A i, k \in 1 .. n : before[i].in = before[k].in /\ before[i].name = before[k].name => i = k
      /\ \A j, l \in 1 .. m : after[j].in = after[l].in /\ after[j].name = after[l].name => j = l
  BY <1>1, <1>2 DEF AreParameters, ElementsOf
<1>4. DOMAIN renamed = ElementsOf(P) /\ \A x \in DOMAIN P : renamed[P[x]] = Q[x]
  <2>1. ByPosition(mapPathParams(paths), ParamsOf(paths.before), ParamsOf(paths.after))
    BY <1>1, <1>3, RenamedByPosition
  <2>2. QED
    BY <1>1, <2>1 DEF ByPosition
<1>5. \A x \in DOMAIN P : P[x] \in DOMAIN renamed
  BY <1>4 DEF ElementsOf
<1>6. \A x \in DOMAIN P : Q[x] # P[x] => Q[x] \notin DOMAIN renamed
  BY <1>1, <1>4, <1>5 DEF NoneTakenOver
<1>7. \A i \in 1 .. n : same[i] = {j \in 1 .. m : SameParameter(before[i], after[j], renamed)}
  BY <1>1, <1>2 DEF SameAs
<1>8. ASSUME NEW i \in 1 .. n, NEW k \in 1 .. n, NEW j \in same[i], j \in same[k] PROVE i = k
  <2>1. j \in 1 .. m /\ SameParameter(before[i], after[j], renamed) /\ SameParameter(before[k], after[j], renamed)
    BY <1>7, <1>8
  <2>2. before[i].in = after[j].in /\ before[k].in = after[j].in
    BY <2>1 DEF SameParameter
  <2>3. CASE before[i].name = after[j].name /\ before[k].name = after[j].name
    BY <1>3, <2>2, <2>3
  <2>4. CASE ~ (before[i].name = after[j].name /\ before[k].name = after[j].name)
    <3>1. before[i].in = "path" /\ before[k].in = "path"
      BY <2>1, <2>2, <2>4 DEF SameParameter
    <3>2. PICK x \in DOMAIN P, y \in DOMAIN P : before[i].name = P[x] /\ before[k].name = P[y]
      BY <1>3, <3>1
    <3>3. P[x] = after[j].name \/ Q[x] = after[j].name
      BY <1>4, <2>1, <3>2 DEF SameParameter
    <3>4. P[y] = after[j].name \/ Q[y] = after[j].name
      BY <1>4, <2>1, <3>2 DEF SameParameter
    <3>5. x = y
      BY <1>3, <1>5, <1>6, <3>3, <3>4 DEF NoneTwice
    <3>6. QED
      BY <1>3, <3>1, <3>2, <3>5
  <2>5. QED
    BY <2>3, <2>4
<1>9. ASSUME NEW i \in 1 .. n, same[i] # {} PROVE Least(same[i]) \in same[i]
  <2>1. same[i] \in SUBSET Nat
    BY <1>7
  <2>2. QED
    BY <1>9, <2>1, LeastIsLeast
<1>10. r = FirstOf(n, m, same)
  BY <1>1, <1>2, ParametersLoop
<1>11. PICK D, A, R, f : /\ D = {l \in 1 .. n : same[l] # {}} /\ f = [i \in D |-> Least(same[i])]
                         /\ A = {j \in 1 .. m : \A i \in 1 .. n : same[i] # {} => j # Least(same[i])}
                         /\ R = {i \in 1 .. n : same[i] = {}}
  OBVIOUS
<1>12. r.added = A /\ r.removed = R /\ r.mapped = f /\ DOMAIN f = D
  <2>1. r = [added |-> A, removed |-> R, mapped |-> f]
    BY <1>10, <1>11 DEF FirstOf
  <2>2. QED
    BY <1>11, <2>1
<1>13. \A i \in D : f[i] = Least(same[i]) /\ f[i] \in same[i] /\ f[i] \in 1 .. m /\ i \in 1 .. n
  BY <1>7, <1>9, <1>11
<1>14. OneToOne(r)
  BY <1>8, <1>12, <1>13 DEF OneToOne
<1>15. EachKeyOnce(r, DOMAIN before, DOMAIN after)
  <2>1. D \cup R = 1 .. n /\ D \cap R = {}
    BY <1>11
  <2>2. MappedTo(r) = {f[i] : i \in D}
    BY <1>12 DEF MappedTo
  <2>3. {f[i] : i \in D} \cup A = 1 .. m /\ {f[i] : i \in D} \cap A = {}
    BY <1>11, <1>13
  <2>4. QED
    BY <1>2, <1>12, <2>1, <2>2, <2>3 DEF EachKeyOnce
<1>16. ASSUME NEW i \in 1 .. n, NEW j \in 1 .. m, before[i].in = "path", after[j].in = "path",
              NEW x \in DOMAIN P, P[x] = before[i].name, Q[x] = after[j].name
       PROVE  i \in DOMAIN r.mapped /\ r.mapped[i] = j
  <2>1. j \in same[i]
    BY <1>4, <1>5, <1>7, <1>16 DEF SameParameter
  <2>2. ASSUME NEW l \in same[i] PROVE l = j
    <3>1. l \in 1 .. m /\ SameParameter(before[i], after[l], renamed)
      BY <1>7
    <3>2. after[l].in = "path" /\ (after[l].name = P[x] \/ after[l].name = Q[x])
      BY <1>4, <1>16, <3>1 DEF SameParameter
    <3>3. PICK y \in DOMAIN P : after[l].name = Q[y]
      BY <1>3, <3>1, <3>2
    <3>4. CASE after[l].name = P[x]
      <4>1. Q[y] = P[y]
        BY <1>5, <1>6, <3>3, <3>4
      <4>2. y = x
        BY <1>3, <3>3, <3>4, <4>1 DEF NoneTwice
      <4>3. QED
        BY <1>3, <1>16, <3>1, <3>2, <3>3, <4>2
    <3>5. CASE after[l].name = Q[x]
      BY <1>3, <1>16, <3>1, <3>2, <3>5
    <3>6. QED
      BY <3>2, <3>4, <3>5
  <2>3. i \in D
    BY <1>11, <2>1
  <2>4. QED
    BY <1>12, <1>13, <2>2, <2>3
<1>17. ASSUME NEW i \in 1 .. n, NEW j \in 1 .. m, before[i].in # "path",
              before[i].in = after[j].in, before[i].name = after[j].name
       PROVE  i \in DOMAIN r.mapped /\ r.mapped[i] = j
  <2>1. j \in same[i]
    BY <1>7, <1>17 DEF SameParameter
  <2>2. ASSUME NEW l \in same[i] PROVE l = j
    <3>1. l \in 1 .. m /\ SameParameter(before[i], after[l], renamed)
      BY <1>7
    <3>2. after[l].in = after[j].in /\ after[l].name = after[j].name
      BY <1>17, <3>1 DEF SameParameter
    <3>3. QED
      BY <1>3, <3>1, <3>2
  <2>3. i \in D
    BY <1>11, <2>1
  <2>4. QED
    BY <1>12, <1>13, <2>2, <2>3
<1>18. ASSUME NEW i \in D
       PROVE  /\ f[i] \in 1 .. m /\ before[i].in = after[f[i]].in
              /\ before[i].in # "path" => before[i].name = after[f[i]].name
              /\ before[i].in = "path" =>
                    \E x \in DOMAIN P : P[x] = before[i].name /\ Q[x] = after[f[i]].name
  <2>1. i \in 1 .. n /\ f[i] \in 1 .. m /\ SameParameter(before[i], after[f[i]], renamed)
    BY <1>7, <1>13
  <2>2. /\ before[i].in = after[f[i]].in
        /\ before[i].in # "path" => before[i].name = after[f[i]].name
    BY <2>1 DEF SameParameter
  <2>3. ASSUME before[i].in = "path"
        PROVE  \E x \in DOMAIN P : P[x] = before[i].name /\ Q[x] = after[f[i]].name
    <3>1. PICK x \in DOMAIN P : before[i].name = P[x]
      BY <1>3, <2>1, <2>3
    <3>2. PICK y \in DOMAIN P : after[f[i]].name = Q[y]
      BY <1>3, <2>1, <2>2, <2>3
    <3>3. Q[y] = P[x] \/ Q[y] = Q[x]
      BY <1>4, <2>1, <3>1, <3>2 DEF SameParameter
    <3>4. CASE Q[y] = P[x]
      <4>1. Q[y] = P[y]
        BY <1>5, <1>6, <3>4
      <4>2. y = x
        BY <1>3, <3>4, <4>1 DEF NoneTwice
      <4>3. QED
        BY <3>1, <3>2, <4>2
    <3>5. CASE Q[y] = Q[x]
      BY <3>1, <3>2, <3>5
    <3>6. QED
      BY <3>3, <3>4, <3>5
  <2>4. QED
    BY <2>1, <2>2, <2>3
<1>19. ASSUME NEW i \in 1 .. n, NEW j \in 1 .. m
       PROVE  (i \in DOMAIN r.mapped /\ r.mapped[i] = j) <=>
                /\ before[i].in = after[j].in
                /\ IF before[i].in = "path"
                   THEN \E x \in DOMAIN P : P[x] = before[i].name /\ Q[x] = after[j].name
                   ELSE before[i].name = after[j].name
  <2>1. ASSUME i \in D, f[i] = j
        PROVE  /\ before[i].in = after[j].in
               /\ IF before[i].in = "path"
                  THEN \E x \in DOMAIN P : P[x] = before[i].name /\ Q[x] = after[j].name
                  ELSE before[i].name = after[j].name
    BY <1>18, <2>1
  <2>2. QED
    BY <1>12, <1>16, <1>17, <2>1
<1>20. QED
  BY <1>1, <1>2, <1>14, <1>15, <1>19 DEF PairedInPlace

-----------------------------------------------------------------------------
(***************************************************************************)
(* The answers are those of the resolvers asked.                           *)
(***************************************************************************)
AnswerIs(resolver, result) == Answered(resolver) => answer = result

Told ==
  /\ asked \in Query
  /\ AnswerIs("array", arrayMappingResolver(asked.before, asked.after))
  /\ AnswerIs("uniqueItems", customUniqueItemsArrayMappingResolver(Equality, asked.before, asked.after))
  /\ AnswerIs("key", createKeyMappingResolver(
                       KeysOfItems(asked.before), KeysOfItems(asked.after), NoIdentity))
  /\ AnswerIs("object", objectMappingResolver(asked.before, asked.after))
  /\ ~asked.context.openApiPathItemPerOperationDiffs =>
        AnswerIs("single", singleOperationPathMappingResolver(asked.before, asked.after))
  /\ ~asked.context.openApiPathItemPerOperationDiffs =>
        AnswerIs("paths", pathMappingResolver(asked.before, asked.after, asked.context))
  /\ AnswerIs("methods", methodMappingResolver(asked.before, asked.after))
  /\ AnswerIs("parameters", paramMappingResolver(asked.before, asked.after, asked.context))
  /\ AnswerIs("media", contentMediaTypeMappingResolver(asked.before, asked.after))
  /\ AnswerIs("responses", apihubCaseInsensitiveKeyMappingResolver(asked.before, asked.after))

LEMMA ToldHolds == Spec => []Told
<1>1. Init => Told
  BY DEF Init, Told, AnswerIs, Answered
<1>2. Told /\ [Next]_vars => Told'
  <2> SUFFICES ASSUME Told, [Next]_vars PROVE Told'
    OBVIOUS
  <2>1. CASE MapByPosition
    BY <2>1 DEF Told, AnswerIs, Answered, MapByPosition, Answer
  <2>2. CASE MapUniqueItems
    BY <2>2 DEF Told, AnswerIs, Answered, MapUniqueItems, Answer
  <2>3. CASE MapByKey
    BY <2>3 DEF Told, AnswerIs, Answered, MapByKey, Answer
  <2>4. CASE MapProperties
    BY <2>4 DEF Told, AnswerIs, Answered, MapProperties, Answer
  <2>5. CASE MapPaths
    BY <2>5 DEF Told, AnswerIs, Answered, MapPaths, Answer, WithSyntheticDiffs
  <2>6. CASE MapSingleOperation
    BY <2>6 DEF Told, AnswerIs, Answered, MapSingleOperation, Answer, WithSyntheticDiffs
  <2>7. CASE MapMethods
    BY <2>7 DEF Told, AnswerIs, Answered, MapMethods, Answer
  <2>8. CASE MapParameters
    BY <2>8 DEF Told, AnswerIs, Answered, MapParameters, Answer
  <2>9. CASE MapMediaTypes
    BY <2>9 DEF Told, AnswerIs, Answered, MapMediaTypes, Answer
  <2>10. CASE MapResponses
    BY <2>10 DEF Told, AnswerIs, Answered, MapResponses, Answer
  <2>11. CASE UNCHANGED vars
    BY <2>11 DEF Told, AnswerIs, Answered, vars
  <2>12. QED
    BY <2>1, <2>2, <2>3, <2>4, <2>5, <2>6, <2>7, <2>8, <2>9, <2>10, <2>11 DEF Next
<1>3. QED
  BY <1>1, <1>2, PTL DEF Spec

\* What is asked.
LEMMA QueryFacts ==
  ASSUME Told
  PROVE  /\ IsSequence(asked.before) /\ IsSequence(asked.after)
         /\ asked.resolver \in ByKeys => NoneTwice(asked.before) /\ NoneTwice(asked.after)
         /\ asked.resolver = "responses" =>
              ElementsOf(asked.before) \cup ElementsOf(asked.after) \subseteq DOMAIN Lower
         /\ asked.resolver = "paths" =>
              ArePaths(asked.before, asked.context.before) /\ ArePaths(asked.after, asked.context.after)
         /\ asked.resolver = "parameters" =>
              /\ AreParameters(asked.before, asked.context.before)
              /\ AreParameters(asked.after, asked.context.after)
              /\ DOMAIN ParamsOf(asked.context.before) = DOMAIN ParamsOf(asked.context.after)
         /\ Len(asked.before) \in Nat /\ Len(asked.after) \in Nat
         /\ DOMAIN asked.before = 1 .. Len(asked.before) /\ DOMAIN asked.after = 1 .. Len(asked.after)
<1>1. asked \in Query
  BY DEF Told
<1>2. /\ IsSequence(asked.before) /\ IsSequence(asked.after)
      /\ asked.resolver \in ByKeys => NoneTwice(asked.before) /\ NoneTwice(asked.after)
      /\ asked.resolver = "responses" =>
           ElementsOf(asked.before) \cup ElementsOf(asked.after) \subseteq DOMAIN Lower
      /\ asked.resolver = "paths" =>
           ArePaths(asked.before, asked.context.before) /\ ArePaths(asked.after, asked.context.after)
      /\ asked.resolver = "parameters" =>
           /\ AreParameters(asked.before, asked.context.before)
           /\ AreParameters(asked.after, asked.context.after)
           /\ DOMAIN ParamsOf(asked.context.before) = DOMAIN ParamsOf(asked.context.after)
  BY <1>1, ResolversAssumption
<1>3. QED
  BY <1>2 DEF IsSequence

-----------------------------------------------------------------------------
(***************************************************************************)
(* Theorems                                                                *)
(***************************************************************************)

(***************************************************************************)
(* Whatever two objects or arrays are compared by position, by equality,   *)
(* by key, by name or by order (mapping.ts, singleOperationPathMapping and *)
(* methodMapping of openapi3.mapping.ts): each key is told once, none is   *)
(* compared twice, and a removed property keeps its place.                 *)
(***************************************************************************)
THEOREM AnswersKeepContract == Spec => []AnswersContract
<1>1. ASSUME Told PROVE AnswersContract
  <2>1. PICK before, after, n, m :
          /\ before = asked.before /\ after = asked.after
          /\ n = Len(asked.before) /\ m = Len(asked.after)
    OBVIOUS
  <2>2. /\ IsSequence(before) /\ IsSequence(after) /\ n \in Nat /\ m \in Nat
        /\ DOMAIN before = 1 .. n /\ DOMAIN after = 1 .. m
        /\ n = Len(before) /\ m = Len(after)
    BY <1>1, <2>1, QueryFacts
  <2>3. ASSUME Answered("array")
        PROVE  EachKeyOnce(answer, DOMAIN before, DOMAIN after) /\ OneToOne(answer)
    <3>1. answer = arrayMappingResolver(before, after)
      BY <1>1, <2>1, <2>3 DEF Told, AnswerIs
    <3>2. QED
      BY <2>2, <3>1, ByPositionContract
  <2>4. ASSUME Answered("uniqueItems")
        PROVE  EachKeyOnce(answer, DOMAIN before, DOMAIN after) /\ OneToOne(answer)
    <3>1. answer = customUniqueItemsArrayMappingResolver(Equality, before, after)
      BY <1>1, <2>1, <2>4 DEF Told, AnswerIs
    <3>2. Looped(answer, n, m, EqualItems(Equality, before, after))
      BY <2>2, <3>1, UniqueItemsLoop
    <3>3. QED
      BY <2>2, <3>2, LoopContract
  <2>5. ASSUME Answered("key")
        PROVE  EachKeyOnce(answer, DOMAIN before, DOMAIN after) /\ OneToOne(answer)
    <3>1. PICK b, a : b = KeysOfItems(before) /\ a = KeysOfItems(after)
      OBVIOUS
    <3>2. answer = createKeyMappingResolver(b, a, NoIdentity)
      BY <1>1, <2>1, <2>5, <3>1 DEF Told, AnswerIs
    <3>3. DOMAIN b = 1 .. n /\ DOMAIN a = 1 .. m
      BY <2>2, <3>1 DEF KeysOfItems
    <3>4. Looped(answer, n, m, KeyedItems(b, a, NoIdentity))
      BY <2>2, <3>2, <3>3, KeyLoop
    <3>5. QED
      BY <2>2, <3>4, LoopContract
  <2>6. ASSUME Answered("object") \/ Answered("methods")
        PROVE  /\ EachKeyOnce(answer, ElementsOf(before), ElementsOf(after)) /\ OneToOne(answer)
               /\ RemovedKeepTheirKeys(answer)
    <3>1. answer = objectMappingResolver(before, after) \/ answer = methodMappingResolver(before, after)
      BY <1>1, <2>1, <2>6 DEF Told, AnswerIs
    <3>2. QED
      BY <3>1, SameKeysContract
  <2>7. ASSUME Answered("single") /\ ~asked.context.openApiPathItemPerOperationDiffs
        PROVE  EachKeyOnce(answer, ElementsOf(before), ElementsOf(after)) /\ OneToOne(answer)
    <3>1. answer = singleOperationPathMappingResolver(before, after)
      BY <1>1, <2>1, <2>7 DEF Told, AnswerIs
    <3>2. asked.resolver \in ByKeys
      BY <2>7 DEF Answered, ByKeys
    <3>3. NoneTwice(before) /\ NoneTwice(after)
      BY <1>1, <2>1, <3>2, QueryFacts
    <3>4. QED
      BY <2>2, <3>1, <3>3, SingleContract
  <2>8. QED
    BY <2>1, <2>3, <2>4, <2>5, <2>6, <2>7 DEF AnswersContract, AnsweredInKeys, AnsweredInIndexes
<1>2. QED
  BY <1>1, ToldHolds, PTL

(***************************************************************************)
(* customUniqueItemsArrayMappingResolver leaves no equal elements over on  *)
(* both sides, for arrays of any length and any equality function.         *)
(***************************************************************************)
THEOREM EqualItemsPaired == Spec => []NoEqualLeftOver
<1>1. ASSUME Told PROVE NoEqualLeftOver
  <2>1. SUFFICES ASSUME Answered("uniqueItems"), NEW i \in answer.removed, NEW j \in answer.added,
                        <<asked.before[i], asked.after[j]>> \in Equality
                 PROVE  FALSE
    BY DEF NoEqualLeftOver
  <2>2. PICK before, after, n, m :
          /\ before = asked.before /\ after = asked.after
          /\ n = Len(asked.before) /\ m = Len(asked.after)
    OBVIOUS
  <2>3. /\ IsSequence(before) /\ IsSequence(after) /\ n = Len(before) /\ m = Len(after)
        /\ DOMAIN before = 1 .. n /\ DOMAIN after = 1 .. m /\ n \in Nat /\ m \in Nat
    BY <1>1, <2>2, QueryFacts
  <2>4. answer = customUniqueItemsArrayMappingResolver(Equality, before, after)
    BY <1>1, <2>1, <2>2 DEF Told, AnswerIs
  <2>5. Looped(answer, n, m, EqualItems(Equality, before, after))
    BY <2>3, <2>4, UniqueItemsLoop
  <2>6. Matching(answer, n, m) /\ <<i, j>> \notin EqualItems(Equality, before, after)
    BY <2>1, <2>5, LoopContract
  <2>7. i \in 1 .. n /\ j \in 1 .. m
    BY <2>1, <2>6 DEF Matching, Partial
  <2>8. <<i, j>> \in (DOMAIN before) \X (DOMAIN after)
    BY <2>3, <2>7
  <2>9. QED
    BY <2>1, <2>2, <2>6, <2>8 DEF EqualItems
<1>2. QED
  BY <1>1, ToldHolds, PTL

(***************************************************************************)
(* createKeyMappingResolver finds the partner of each element whose key no *)
(* two elements of after share, unless an earlier element with that key    *)
(* took it.                                                                *)
(***************************************************************************)
THEOREM KeysFindPairs == Spec => []KeyedPairsFound
<1>1. ASSUME Told PROVE KeyedPairsFound
  <2>1. SUFFICES ASSUME Answered("key"), DistinctKeys(asked.after)
                 PROVE  /\ \A i \in DOMAIN answer.mapped :
                              /\ Identity[asked.before[i]] = Identity[asked.after[answer.mapped[i]]]
                              /\ Identity[asked.before[i]] # NoIdentity
                        /\ \A i \in answer.removed, j \in DOMAIN asked.after :
                              Identity[asked.before[i]] = Identity[asked.after[j]]
                                /\ Identity[asked.after[j]] # NoIdentity
                              => \E l \in DOMAIN answer.mapped : l < i /\ answer.mapped[l] = j
    BY DEF KeyedPairsFound
  <2>2. PICK before, after, n, m :
          /\ before = asked.before /\ after = asked.after
          /\ n = Len(asked.before) /\ m = Len(asked.after)
    OBVIOUS
  <2>3. /\ IsSequence(before) /\ IsSequence(after) /\ n = Len(before) /\ m = Len(after)
        /\ DOMAIN before = 1 .. n /\ DOMAIN after = 1 .. m /\ n \in Nat /\ m \in Nat
    BY <1>1, <2>2, QueryFacts
  <2>4. PICK b, a : b = KeysOfItems(before) /\ a = KeysOfItems(after)
    OBVIOUS
  <2>5. /\ DOMAIN b = 1 .. n /\ \A i \in 1 .. n : b[i] = Identity[before[i]]
        /\ DOMAIN a = 1 .. m /\ \A j \in 1 .. m : a[j] = Identity[after[j]]
    BY <2>3, <2>4 DEF KeysOfItems
  <2>6. Looped(answer, n, m, KeyedItems(b, a, NoIdentity)) /\ KeyedOnce(a, NoIdentity)
    <3>1. answer = createKeyMappingResolver(b, a, NoIdentity)
      BY <1>1, <2>1, <2>2, <2>4 DEF Told, AnswerIs
    <3>2. Looped(answer, n, m, KeyedItems(b, a, NoIdentity))
      BY <2>3, <2>5, <3>1, KeyLoop
    <3>3. KeyedOnce(a, NoIdentity)
      BY <2>1, <2>2, <2>3, <2>5 DEF DistinctKeys, KeyedOnce
    <3>4. QED
      BY <3>2, <3>3
  <2>7. /\ Matching(answer, n, m)
        /\ \A i \in DOMAIN answer.mapped : <<i, answer.mapped[i]>> \in KeyedItems(b, a, NoIdentity)
        /\ \A i \in answer.removed : \A j \in 1 .. m :
              <<i, j>> \in KeyedItems(b, a, NoIdentity)
              => \E l \in DOMAIN answer.mapped : l < i /\ answer.mapped[l] = j
    BY <2>6, LoopContract
  <2>8. /\ answer.removed \subseteq 1 .. n /\ DOMAIN answer.mapped \subseteq 1 .. n
        /\ \A i \in DOMAIN answer.mapped : answer.mapped[i] \in 1 .. m
    BY <2>7 DEF Matching, EachKeyOnce, Partial, MappedTo
  <2>9. ASSUME NEW i \in DOMAIN answer.mapped
        PROVE  /\ Identity[before[i]] = Identity[after[answer.mapped[i]]]
               /\ Identity[before[i]] # NoIdentity
    <3>1. PICK j \in 1 .. m : j = answer.mapped[i]
      BY <2>8, <2>9
    <3>2. i \in 1 .. n /\ <<i, j>> \in KeyedItems(b, a, NoIdentity)
      BY <2>7, <2>8, <2>9, <3>1
    <3>3. b[i] = a[j] /\ b[i] # NoIdentity
      BY <2>3, <2>5, <3>2, KeyedItemsShareKeys
    <3>4. QED
      BY <2>5, <3>1, <3>2, <3>3
  <2>10. ASSUME NEW i \in answer.removed, NEW j \in 1 .. m,
                Identity[before[i]] = Identity[after[j]], Identity[after[j]] # NoIdentity
         PROVE  \E l \in DOMAIN answer.mapped : l < i /\ answer.mapped[l] = j
    <3>1. i \in 1 .. n /\ b[i] = a[j] /\ a[j] # NoIdentity
      BY <2>5, <2>8, <2>10
    <3>2. <<i, j>> \in KeyedItems(b, a, NoIdentity)
      BY <2>3, <2>5, <2>6, <3>1, KeyedItemsShareKeys
    <3>3. QED
      BY <2>7, <3>2
  <2>11. QED
    BY <2>2, <2>3, <2>9, <2>10
<1>2. QED
  BY <1>1, ToldHolds, PTL

(***************************************************************************)
(* pathMappingResolver, for documents with any number of paths of which no *)
(* two are one endpoint: exactly the paths of the same endpoint are paired.*)
(***************************************************************************)
THEOREM EndpointsArePaired == Spec => []SameEndpointMapped
<1>1. ASSUME Told PROVE SameEndpointMapped
  <2>1. SUFFICES ASSUME Answered("paths"), EndpointsDiffer,
                        ~asked.context.openApiPathItemPerOperationDiffs
                 PROVE  SameEndpointMapped
    BY DEF SameEndpointMapped
  <2>2. PICK before, after, context :
          before = asked.before /\ after = asked.after /\ context = asked.context
    OBVIOUS
  <2>3. asked.resolver = "paths" /\ answer = pathMappingResolver(before, after, context)
    BY <1>1, <2>1, <2>2 DEF Told, AnswerIs, Answered
  <2>4. /\ IsSequence(before) /\ IsSequence(after)
        /\ ArePaths(before, context.before) /\ ArePaths(after, context.after)
    BY <1>1, <2>2, <2>3, QueryFacts
  <2>5. /\ EndpointsApart(before, context.before) /\ EndpointsApart(after, context.after)
    BY <2>1, <2>2 DEF EndpointsDiffer, UrlBefore, UrlAfter, EndpointsApart
  <2>6. PathsPaired(answer, before, after, context)
    BY <2>3, <2>4, <2>5, PathsContract
  <2>7. QED
    BY <2>2, <2>6 DEF SameEndpointMapped, PathsPaired, UrlBefore, UrlAfter
<1>2. QED
  BY <1>1, ToldHolds, PTL

(***************************************************************************)
(* paramMappingResolver, for any number of parameters: path parameters are *)
(* paired by their position, when no name is taken over, and the others by *)
(* their location and name; nothing else is paired.                        *)
(***************************************************************************)
THEOREM ParametersArePaired == Spec => []ParametersPaired
<1>1. ASSUME Told PROVE ParametersPaired
  <2>1. SUFFICES ASSUME Answered("parameters"), NoNameTakenOver PROVE ParametersPaired
    BY DEF ParametersPaired
  <2>2. PICK before, after, paths :
          before = asked.before /\ after = asked.after /\ paths = asked.context
    OBVIOUS
  <2>3. asked.resolver = "parameters" /\ answer = paramMappingResolver(before, after, paths)
    BY <1>1, <2>1, <2>2 DEF Told, AnswerIs, Answered
  <2>4. /\ IsSequence(before) /\ IsSequence(after)
        /\ AreParameters(before, paths.before) /\ AreParameters(after, paths.after)
        /\ DOMAIN ParamsOf(paths.before) = DOMAIN ParamsOf(paths.after)
    BY <1>1, <2>2, <2>3, QueryFacts
  <2>5. NoneTakenOver(mapPathParams(paths))
    BY <2>1, <2>2 DEF NoNameTakenOver, NoneTakenOver
  <2>6. PairedInPlace(answer, before, after, paths)
    BY <2>3, <2>4, <2>5, ParametersContract
  <2>7. DOMAIN ParamsOf(paths.before) \cap DOMAIN ParamsOf(paths.after) = DOMAIN ParamsOf(paths.before)
    BY <2>4
  <2>8. QED
    BY <2>2, <2>6, <2>7 DEF ParametersPaired, PairedInPlace
<1>2. QED
  BY <1>1, ToldHolds, PTL

(***************************************************************************)
(* contentMediaTypeMappingResolver, for contents with any number of media  *)
(* types: what both sides declare is compared with itself, and nothing     *)
(* that belongs together is left over.                                     *)
(***************************************************************************)
THEOREM MediaTypesArePaired == Spec => []MediaTypesPaired
<1>1. ASSUME Told PROVE MediaTypesPaired
  <2>1. SUFFICES ASSUME Answered("media") PROVE MediaTypesPaired
    BY DEF MediaTypesPaired
  <2>2. answer = contentMediaTypeMappingResolver(asked.before, asked.after)
    BY <1>1, <2>1 DEF Told, AnswerIs
  <2>3. asked.resolver \in ByKeys
    BY <2>1 DEF Answered, ByKeys
  <2>4. /\ IsSequence(asked.before) /\ IsSequence(asked.after)
        /\ NoneTwice(asked.before) /\ NoneTwice(asked.after)
    BY <1>1, <2>3, QueryFacts
  <2>5. QED
    BY <2>2, <2>4, MediaContract DEF MediaTypesPaired
<1>2. QED
  BY <1>1, ToldHolds, PTL

(***************************************************************************)
(* apihubCaseInsensitiveKeyMappingResolver, for any number of responses:   *)
(* codes are paired one to one with themselves, whatever their case.       *)
(***************************************************************************)
THEOREM CodesArePaired == Spec => []ResponsesPaired
<1>1. ASSUME Told PROVE ResponsesPaired
  <2>1. SUFFICES ASSUME Answered("responses") PROVE ResponsesPaired
    BY DEF ResponsesPaired
  <2>2. answer = apihubCaseInsensitiveKeyMappingResolver(asked.before, asked.after)
    BY <1>1, <2>1 DEF Told, AnswerIs
  <2>3. asked.resolver = "responses" /\ asked.resolver \in ByKeys
    BY <2>1 DEF Answered, ByKeys
  <2>4. /\ IsSequence(asked.before) /\ IsSequence(asked.after)
        /\ NoneTwice(asked.before) /\ NoneTwice(asked.after)
        /\ ElementsOf(asked.before) \cup ElementsOf(asked.after) \subseteq DOMAIN Lower
    BY <1>1, <2>3, QueryFacts
  <2>5. QED
    BY <2>2, <2>4, CodesContract DEF ResponsesPaired
<1>2. QED
  BY <1>1, ToldHolds, PTL

=============================================================================
