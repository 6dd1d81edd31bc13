-------------------------------- MODULE FoldFacts --------------------------------
(***************************************************************************)
(* What a loop over the indexes of a sequence does, when it is written as  *)
(* a fold: SequencesExt defines a fold by a function on the sets of        *)
(* indexes that takes the greatest one off first.  Such a function exists, *)
(* and on the first k indexes it is what the loop has after k rounds.      *)
(* The resolvers of CoreMapping that pair the elements of two arrays are   *)
(* such loops.                                                             *)
(***************************************************************************)
EXTENDS CoreMapping, Integers, TLAPS, NaturalsInduction, WellFoundedInduction

\* What holds before the first round and is kept by each holds after the last.
LEMMA Rounds ==
  ASSUME NEW n \in Nat, NEW H, 0 \in H, \A k \in 1 .. n : k - 1 \in H => k \in H
  PROVE  \A k \in 0 .. n : k \in H
<1> DEFINE R == {ss \in Nat \X Nat : ss[1] < ss[2]}
           Not == {k \in 0 .. n : k \notin H}
<1> SUFFICES ASSUME Not # {} PROVE FALSE
  OBVIOUS
<1>1. IsWellFoundedOn(R, Nat)
  BY NatLessThanWellFounded DEF OpToRel
<1>2. Not \in SUBSET Nat
  OBVIOUS
<1>3. PICK k \in Not : \A j \in Not : ~ (<<j, k>> \in R)
  BY <1>1, <1>2, WFMin
<1>4. k \in Nat /\ k # 0 /\ k \in 1 .. n
  OBVIOUS
<1>5. k - 1 \in Nat /\ k - 1 < k /\ k - 1 \in 0 .. n
  BY <1>4
<1>6. <<k - 1, k>> \in R
  BY <1>4, <1>5
<1>7. k - 1 \in H
  BY <1>3, <1>5, <1>6
<1>8. QED
  BY <1>4, <1>7

LEMMA MaxIs ==
  ASSUME NEW S \in SUBSET Int, NEW m \in S, \A x \in S : x <= m
  PROVE  Max(S) = m
<1>1. Max(S) \in S /\ \A x \in S : Max(S) >= x
  BY DEF Max
<1>2. Max(S) >= m /\ Max(S) <= m /\ Max(S) \in Int
  BY <1>1
<1>3. QED
  BY <1>2

\* The greatest of the first k indexes, and those before it.
LEMMA FirstIndexes ==
  ASSUME NEW k \in Nat, k # 0
  PROVE  Max(1 .. k) = k /\ (1 .. k) \ {k} = 1 .. k - 1 /\ 1 .. k # {}
<1>1. 1 .. k \in SUBSET Int /\ k \in 1 .. k /\ \A x \in 1 .. k : x <= k
  OBVIOUS
<1>2. Max(1 .. k) = k
  BY <1>1, MaxIs
<1>3. (1 .. k) \ {k} = 1 .. k - 1
  OBVIOUS
<1>4. QED
  BY <1>1, <1>2, <1>3

LEMMA MaxExists ==
  ASSUME NEW n \in Nat, NEW S \in SUBSET (1 .. n), S # {}
  PROVE  Max(S) \in S
<1> DEFINE H == {k \in 0 .. n : \A s \in SUBSET (1 .. k) : s # {} => Max(s) \in s}
<1>1. 0 \in H
  <2>1. 1 .. 0 = {} /\ 0 \in 0 .. n
    OBVIOUS
  <2>2. QED
    BY <2>1
<1>2. ASSUME NEW k \in 1 .. n, k - 1 \in H PROVE k \in H
  <2>1. ASSUME NEW s \in SUBSET (1 .. k), s # {} PROVE Max(s) \in s
    <3>1. CASE k \in s
      <4>1. s \in SUBSET Int /\ \A x \in s : x <= k
        OBVIOUS
      <4>2. QED
        BY <3>1, <4>1, MaxIs
    <3>2. CASE k \notin s
      <4>1. s \in SUBSET (1 .. k - 1)
        BY <3>2
      <4>2. QED
        BY <1>2, <2>1, <4>1
    <3>3. QED
      BY <3>1, <3>2
  <2>2. k \in 0 .. n
    OBVIOUS
  <2>3. QED
    BY <2>1, <2>2
<1>3. n \in H
  <2> HIDE DEF H
  <2>1. n \in 0 .. n /\ \A k \in 0 .. n : k \in H
    BY <1>1, <1>2, Rounds
  <2>2. QED
    BY <2>1
<1>4. QED
  BY <1>3

\* Functions on the sets of the first k indexes that fold.
Folding(g, k, base, step) ==
  \A s \in SUBSET (1 .. k) :
     g[s] = IF s = {} THEN base ELSE step[<<g[s \ {Max(s)}], Max(s)>>]

(***************************************************************************)
(* The function by which a fold is defined exists, when T holds what the   *)
(* loop starts with and all that its rounds make.                          *)
(***************************************************************************)
LEMMA FoldingExists ==
  ASSUME NEW n \in Nat, NEW T, NEW base \in T, NEW step \in [T \X (1 .. n) -> T]
  PROVE  \E g \in [SUBSET (1 .. n) -> T] : Folding(g, n, base, step)
<1> DEFINE H == {k \in 0 .. n : \E g \in [SUBSET (1 .. k) -> T] : Folding(g, k, base, step)}
<1>1. 0 \in H
  <2>1. 1 .. 0 = {}
    OBVIOUS
  <2>2. PICK g : g = [s \in SUBSET (1 .. 0) |-> base]
    OBVIOUS
  <2>3. g \in [SUBSET (1 .. 0) -> T] /\ Folding(g, 0, base, step)
    BY <2>1, <2>2 DEF Folding
  <2>4. 0 \in 0 .. n
    OBVIOUS
  <2>5. QED
    BY <2>3, <2>4
<1>2. ASSUME NEW k \in 1 .. n, k - 1 \in H PROVE k \in H
  <2>1. PICK f \in [SUBSET (1 .. k - 1) -> T] : Folding(f, k - 1, base, step)
    BY <1>2
  <2>2. k \in Nat /\ k # 0 /\ k \in 0 .. n /\ (1 .. k - 1) \subseteq 1 .. k
    OBVIOUS
  <2>3. \A s \in SUBSET (1 .. k) : s \ {k} \in SUBSET (1 .. k - 1)
    OBVIOUS
  <2>4. \A s \in SUBSET (1 .. k) : k \notin s => s \in SUBSET (1 .. k - 1)
    OBVIOUS
  <2>5. \A s \in SUBSET (1 .. k) : k \in s => Max(s) = k
    <3>1. ASSUME NEW s \in SUBSET (1 .. k), k \in s PROVE Max(s) = k
      <4>1. s \in SUBSET Int /\ \A x \in s : x <= k
        BY <2>2
      <4>2. QED
        BY <3>1, <4>1, MaxIs
    <3>2. QED
      BY <3>1
  <2>6. PICK g : g = [s \in SUBSET (1 .. k) |->
                        IF k \in s THEN step[<<f[s \ {k}], k>>] ELSE f[s]]
    OBVIOUS
  <2>7. g \in [SUBSET (1 .. k) -> T]
    <3>1. \A s \in SUBSET (1 .. k) : k \in s => step[<<f[s \ {k}], k>>] \in T
      BY <2>1, <2>3
    <3>2. \A s \in SUBSET (1 .. k) : k \notin s => f[s] \in T
      BY <2>1, <2>4
    <3>3. QED
      BY <2>6, <3>1, <3>2
  <2>8. ASSUME NEW s \in SUBSET (1 .. k)
        PROVE  g[s] = IF s = {} THEN base ELSE step[<<g[s \ {Max(s)}], Max(s)>>]
    <3>1. CASE k \in s
      <4>1. Max(s) = k /\ s # {} /\ s \ {k} \in SUBSET (1 .. k) /\ k \notin s \ {k}
        BY <2>5, <3>1
      <4>2. g[s] = step[<<f[s \ {k}], k>>] /\ g[s \ {k}] = f[s \ {k}]
        BY <2>6, <3>1, <4>1
      <4>3. QED
        BY <4>1, <4>2
    <3>2. CASE k \notin s
      <4>1. s \in SUBSET (1 .. k - 1)
        BY <2>4, <3>2
      <4>2. g[s] = f[s]
        BY <2>6, <3>2
      <4>3. f[s] = IF s = {} THEN base ELSE step[<<f[s \ {Max(s)}], Max(s)>>]
        BY <2>1, <4>1 DEF Folding
      <4>4. s \ {Max(s)} \in SUBSET (1 .. k) /\ k \notin s \ {Max(s)}
        BY <3>2
      <4>5. g[s \ {Max(s)}] = f[s \ {Max(s)}]
        BY <2>6, <4>4
      <4>6. QED
        BY <4>2, <4>3, <4>5
    <3>3. QED
      BY <3>1, <3>2
  <2>9. Folding(g, k, base, step)
    BY <2>8 DEF Folding
  <2>10. QED
    BY <2>2, <2>7, <2>9
<1>3. \A k \in 0 .. n : k \in H
  <2> HIDE DEF H
  <2>1. QED
    BY <1>1, <1>2, Rounds
<1>4. n \in H
  <2> HIDE DEF H
  <2>1. n \in 0 .. n
    OBVIOUS
  <2>2. QED
    BY <1>3, <2>1
<1>5. QED
  BY <1>4

-----------------------------------------------------------------------------
(***************************************************************************)
(* Pairing of indexes.                                                     *)
(***************************************************************************)

\* What a loop that pairs n indexes with m may have at hand.
Partial(n, m) ==
  [added : SUBSET (1 .. m), removed : SUBSET (1 .. n),
   mapped : UNION {[D -> 1 .. m] : D \in SUBSET (1 .. n)}]

\* What it should have: each index is told once, none is paired twice.
Matching(r, n, m) ==
  r \in Partial(n, m) /\ EachKeyOnce(r, 1 .. n, 1 .. m) /\ OneToOne(r)

LEMMA LeastIsLeast ==
  ASSUME NEW S \in SUBSET Nat, S # {}
  PROVE  Least(S) \in S /\ \A j \in S : Least(S) <= j
<1> DEFINE R == {ss \in Nat \X Nat : ss[1] < ss[2]}
<1>1. IsWellFoundedOn(R, Nat)
  BY NatLessThanWellFounded DEF OpToRel
<1>2. PICK i \in S : \A j \in S : ~ (<<j, i>> \in R)
  BY <1>1, WFMin
<1>3. ASSUME NEW j \in S PROVE i <= j
  <2>1. i \in Nat /\ j \in Nat
    OBVIOUS
  <2>2. <<j, i>> \notin R
    BY <1>2
  <2>3. ~ (j < i)
    BY <2>1, <2>2
  <2>4. QED
    BY <2>1, <2>3
<1>4. QED
  BY <1>3 DEF Least

LEMMA PairingType ==
  ASSUME NEW n, NEW m, NEW r \in Partial(n, m), NEW i \in 1 .. n, NEW j \in 1 .. m
  PROVE  /\ Pairing(r, i, j) \in Partial(n, m)
         /\ DOMAIN r.mapped \subseteq 1 .. n
         /\ Pairing(r, i, j).added = r.added \ {j} /\ Pairing(r, i, j).removed = r.removed \ {i}
         /\ DOMAIN Pairing(r, i, j).mapped = DOMAIN r.mapped \cup {i}
         /\ Pairing(r, i, j).mapped[i] = j
         /\ \A k \in DOMAIN r.mapped : k # i => Pairing(r, i, j).mapped[k] = r.mapped[k]
<1>1. PICK D \in SUBSET (1 .. n) : r.mapped \in [D -> 1 .. m]
  BY DEF Partial
<1>2. PICK f : f = [k \in D \cup {i} |-> IF k = i THEN j ELSE r.mapped[k]]
  OBVIOUS
<1>3. Pairing(r, i, j) = [added |-> r.added \ {j}, removed |-> r.removed \ {i}, mapped |-> f]
  BY <1>1, <1>2 DEF Pairing
<1>4. D \cup {i} \in SUBSET (1 .. n) /\ f \in [D \cup {i} -> 1 .. m]
  BY <1>1, <1>2
<1>5. f \in UNION {[E -> 1 .. m] : E \in SUBSET (1 .. n)}
  BY <1>4
<1>6. r.added \ {j} \in SUBSET (1 .. m) /\ r.removed \ {i} \in SUBSET (1 .. n)
  BY DEF Partial
<1>7. Pairing(r, i, j) \in Partial(n, m)
  BY <1>3, <1>5, <1>6 DEF Partial
<1>8. DOMAIN r.mapped = D /\ DOMAIN f = D \cup {i} /\ f[i] = j
  BY <1>1, <1>2
<1>9. \A k \in D : k # i => f[k] = r.mapped[k]
  BY <1>2
<1>10. /\ Pairing(r, i, j).added = r.added \ {j} /\ Pairing(r, i, j).removed = r.removed \ {i}
       /\ Pairing(r, i, j).mapped = f
  BY <1>3
<1>11. QED
  BY <1>7, <1>8, <1>9, <1>10

LEMMA PairingMatches ==
  ASSUME NEW n, NEW m, NEW r, Matching(r, n, m), NEW i \in r.removed, NEW j \in r.added
  PROVE  Matching(Pairing(r, i, j), n, m)
<1>1. r \in Partial(n, m) /\ i \in 1 .. n /\ j \in 1 .. m
  BY DEF Matching, Partial
<1>2. PICK p : p = Pairing(r, i, j)
  OBVIOUS
<1>3. /\ p \in Partial(n, m)
      /\ p.added = r.added \ {j} /\ p.removed = r.removed \ {i}
      /\ DOMAIN p.mapped = DOMAIN r.mapped \cup {i} /\ p.mapped[i] = j
      /\ \A k \in DOMAIN r.mapped : k # i => p.mapped[k] = r.mapped[k]
  BY <1>1, <1>2, PairingType
<1>4. /\ DOMAIN r.mapped \cup r.removed = 1 .. n /\ DOMAIN r.mapped \cap r.removed = {}
      /\ MappedTo(r) \cup r.added = 1 .. m /\ MappedTo(r) \cap r.added = {}
      /\ \A k, l \in DOMAIN r.mapped : r.mapped[k] = r.mapped[l] => k = l
  BY DEF Matching, EachKeyOnce, OneToOne
<1>5. i \notin DOMAIN r.mapped /\ j \notin MappedTo(r)
  BY <1>4
<1>6. \A k \in DOMAIN r.mapped : p.mapped[k] = r.mapped[k]
  BY <1>3, <1>5
<1>7. MappedTo(p) = MappedTo(r) \cup {j}
  BY <1>3, <1>6 DEF MappedTo
<1>8. EachKeyOnce(p, 1 .. n, 1 .. m)
  BY <1>3, <1>4, <1>7 DEF EachKeyOnce
<1>9. OneToOne(p)
  BY <1>3, <1>4, <1>5, <1>6 DEF OneToOne, MappedTo
<1>10. QED
  BY <1>2, <1>3, <1>8, <1>9 DEF Matching

LEMMA UnmatchedMatches ==
  ASSUME NEW n, NEW m
  PROVE  /\ Matching(Unmatched(1 .. n, 1 .. m), n, m)
         /\ Unmatched(1 .. n, 1 .. m).removed = 1 .. n
         /\ Unmatched(1 .. n, 1 .. m).added = 1 .. m
         /\ DOMAIN Unmatched(1 .. n, 1 .. m).mapped = {}
<1>1. Nothing \in [{} -> 1 .. m] /\ DOMAIN Nothing = {}
  BY DEF Nothing
<1>2. Nothing \in UNION {[D -> 1 .. m] : D \in SUBSET (1 .. n)}
  BY <1>1
<1>3. PICK r : r = Unmatched(1 .. n, 1 .. m)
  OBVIOUS
<1>4. r = [added |-> 1 .. m, removed |-> 1 .. n, mapped |-> Nothing]
  BY <1>3 DEF Unmatched, MapKeysResult
<1>5. r \in Partial(n, m)
  BY <1>2, <1>4 DEF Partial
<1>6. EachKeyOnce(r, 1 .. n, 1 .. m) /\ OneToOne(r)
  BY <1>1, <1>4 DEF EachKeyOnce, OneToOne, MappedTo
<1>7. QED
  BY <1>1, <1>3, <1>4, <1>5, <1>6 DEF Matching


-----------------------------------------------------------------------------
(***************************************************************************)
(* The loops.  Each goes over the indexes of before and pairs an index     *)
(* with the first one of after that is related to it and still free.  Some *)
(* skip an index that is paired already; those in "always" are looked at   *)
(* in any case.                                                            *)
(***************************************************************************)
Candidates(r, related, i) == {j \in r.added : <<i, j>> \in related}

Round(r, related, always, i) ==
  IF i \notin r.removed \cup always \/ Candidates(r, related, i) = {} THEN r
  ELSE Pairing(r, i, Least(Candidates(r, related, i)))

LEMMA FirstCandidate ==
  ASSUME NEW n, NEW m, NEW r \in Partial(n, m), NEW related, NEW i,
         Candidates(r, related, i) # {}, NEW j, j = Least(Candidates(r, related, i))
  PROVE  j \in 1 .. m /\ j \in r.added /\ <<i, j>> \in related
<1>1. Candidates(r, related, i) \subseteq 1 .. m
  BY DEF Candidates, Partial
<1>2. Candidates(r, related, i) \in SUBSET Int
  BY <1>1
<1>3. j \in Candidates(r, related, i)
  BY <1>1, LeastIsLeast
<1>4. QED
  BY <1>1, <1>3 DEF Candidates

LEMMA RoundType ==
  ASSUME NEW n, NEW m, NEW r \in Partial(n, m), NEW related, NEW always, NEW i \in 1 .. n
  PROVE  Round(r, related, always, i) \in Partial(n, m)
<1>1. CASE Round(r, related, always, i) = r
  BY <1>1
<1>2. CASE Round(r, related, always, i) # r
  <2>1. PICK j : j = Least(Candidates(r, related, i))
    OBVIOUS
  <2>2. Candidates(r, related, i) # {} /\ Round(r, related, always, i) = Pairing(r, i, j)
    BY <1>2, <2>1 DEF Round
  <2>3. j \in 1 .. m
    BY <2>1, <2>2, FirstCandidate
  <2>4. QED
    BY <2>2, <2>3, PairingType
<1>3. QED
  BY <1>1, <1>2

\* The fold of the rounds.
RoundsFolded(g, n, m, related, always, base) ==
  /\ g = [s \in SUBSET (1 .. n) |-> g[s]] /\ g[{}] = base
  /\ \A s \in SUBSET (1 .. n) :
        /\ g[s] \in Partial(n, m)
        /\ s # {} => /\ Max(s) \in 1 .. n /\ g[s \ {Max(s)}] \in Partial(n, m)
                     /\ g[s] = Round(g[s \ {Max(s)}], related, always, Max(s))

LEMMA RoundsFold ==
  ASSUME NEW n \in Nat, NEW m, NEW related, NEW always, NEW base \in Partial(n, m)
  PROVE  \E g : RoundsFolded(g, n, m, related, always, base)
<1>1. PICK T : T = Partial(n, m)
  OBVIOUS
<1>2. PICK step : step = [x \in T \X (1 .. n) |-> Round(x[1], related, always, x[2])]
  OBVIOUS
<1>3. step \in [T \X (1 .. n) -> T]
  BY <1>1, <1>2, RoundType
<1>4. base \in T
  BY <1>1
<1>5. PICK g \in [SUBSET (1 .. n) -> T] : Folding(g, n, base, step)
  BY <1>3, <1>4, FoldingExists
<1>6. g[{}] = base
  BY <1>5 DEF Folding
<1>7. ASSUME NEW s \in SUBSET (1 .. n), s # {}
      PROVE  /\ Max(s) \in 1 .. n /\ g[s \ {Max(s)}] \in T
             /\ g[s] = Round(g[s \ {Max(s)}], related, always, Max(s))
  <2>1. Max(s) \in 1 .. n
    BY <1>7, MaxExists
  <2>2. g[s \ {Max(s)}] \in T
    BY <1>5
  <2>3. g[s] = step[<<g[s \ {Max(s)}], Max(s)>>]
    BY <1>5, <1>7 DEF Folding
  <2>4. QED
    BY <1>2, <2>1, <2>2, <2>3
<1>8. RoundsFolded(g, n, m, related, always, base)
  BY <1>1, <1>5, <1>6, <1>7 DEF RoundsFolded
<1>9. QED
  BY <1>8

\* What the loop has after each round.
IsLoop(at, n, m, related, always, base) ==
  /\ at[0] = base /\ \A k \in 0 .. n : at[k] \in Partial(n, m)
  /\ \A k \in 1 .. n : at[k] = Round(at[k - 1], related, always, k)

\* A function that folds the rounds has the loop on the first indexes.
FoldsRounds(f, n, m, related, always, base) ==
  /\ f[{}] = base
  /\ \A k \in 1 .. n : f[1 .. k - 1] \in Partial(n, m)
                          => f[1 .. k] = Round(f[1 .. k - 1], related, always, k)

LEMMA FoldIsLoop ==
  ASSUME NEW n \in Nat, NEW m, NEW related, NEW always, NEW base \in Partial(n, m),
         NEW f, FoldsRounds(f, n, m, related, always, base)
  PROVE  \E at : IsLoop(at, n, m, related, always, base) /\ at[n] = f[1 .. n]
<1>1. PICK at : at = [k \in 0 .. n |-> f[1 .. k]]
  OBVIOUS
<1>2. at[0] = base
  <2>1. 1 .. 0 = {} /\ 0 \in 0 .. n
    OBVIOUS
  <2>2. QED
    BY <1>1, <2>1 DEF FoldsRounds
<1>3. \A k \in 1 .. n : at[k - 1] = f[1 .. k - 1] /\ at[k] = f[1 .. k]
  BY <1>1
<1>4. PICK H : H = {k \in 0 .. n : at[k] \in Partial(n, m)}
  OBVIOUS
<1>5. 0 \in H
  BY <1>2, <1>4
<1>6. ASSUME NEW k \in 1 .. n, k - 1 \in H PROVE k \in H
  <2>1. at[k - 1] \in Partial(n, m) /\ k \in 0 .. n
    BY <1>4, <1>6
  <2>2. at[k] = Round(at[k - 1], related, always, k)
    BY <1>3, <2>1 DEF FoldsRounds
  <2>3. QED
    BY <1>4, <2>1, <2>2, RoundType
<1>7. \A k \in 0 .. n : at[k] \in Partial(n, m)
  BY <1>4, <1>5, <1>6, Rounds
<1>8. ASSUME NEW k \in 1 .. n PROVE at[k] = Round(at[k - 1], related, always, k)
  <2>1. at[k - 1] \in Partial(n, m)
    BY <1>7
  <2>2. QED
    BY <1>3, <2>1 DEF FoldsRounds
<1>9. at[n] = f[1 .. n]
  BY <1>1
<1>10. QED
  BY <1>2, <1>7, <1>8, <1>9 DEF IsLoop

(***************************************************************************)
(* What the loop makes of base: it stays a matching, what was paired stays *)
(* paired, what is paired newly is related, and an index that was passed   *)
(* over lost what is related to it to an earlier one.                      *)
(***************************************************************************)
MadeOf(r, k, n, m, related, always, base) ==
  /\ Matching(r, n, m) /\ r.removed \subseteq base.removed /\ r.added \subseteq base.added
  /\ \A i \in always : i > k => i \in r.removed
  /\ \A i \in DOMAIN base.mapped : i \in DOMAIN r.mapped /\ r.mapped[i] = base.mapped[i]
  /\ \A i \in DOMAIN r.mapped : i \notin DOMAIN base.mapped => i <= k /\ <<i, r.mapped[i]>> \in related
  /\ \A i \in r.removed : \A j \in base.added :
        i <= k /\ <<i, j>> \in related => \E l \in DOMAIN r.mapped : l < i /\ r.mapped[l] = j

LEMMA RoundMakes ==
  ASSUME NEW n \in Nat, NEW m \in Nat, NEW related, NEW base, Matching(base, n, m),
         NEW always \in SUBSET base.removed, NEW k \in 1 .. n, NEW r, MadeOf(r, k - 1, n, m, related, always, base)
  PROVE  MadeOf(Round(r, related, always, k), k, n, m, related, always, base)
<1>1. /\ r \in Partial(n, m) /\ r.removed \subseteq 1 .. n /\ r.added \subseteq 1 .. m
      /\ DOMAIN r.mapped \cup r.removed = 1 .. n /\ DOMAIN r.mapped \cap r.removed = {}
      /\ MappedTo(r) \cup r.added = 1 .. m /\ MappedTo(r) \cap r.added = {}
  BY DEF MadeOf, Matching, EachKeyOnce, Partial
<1>2. /\ base.removed \subseteq 1 .. n /\ base.added \subseteq 1 .. m
      /\ DOMAIN base.mapped \cap base.removed = {} /\ MappedTo(base) \cap base.added = {}
  BY DEF Matching, EachKeyOnce, Partial
<1>3. \A i \in 1 .. n : /\ i > k => i > k - 1
                        /\ i <= k => i <= k - 1 \/ i = k
                        /\ i <= k - 1 => i <= k /\ i < k
  OBVIOUS
<1>4. k \in 1 .. n /\ k > k - 1 /\ ~ (k <= k - 1) /\ k <= k
  OBVIOUS
<1>5. ASSUME k \notin r.removed \cup always \/ Candidates(r, related, k) = {}
      PROVE  MadeOf(r, k, n, m, related, always, base)
  <2>1. /\ Matching(r, n, m) /\ r.removed \subseteq base.removed /\ r.added \subseteq base.added
        /\ \A i \in DOMAIN base.mapped : i \in DOMAIN r.mapped /\ r.mapped[i] = base.mapped[i]
    BY DEF MadeOf
  <2>2. \A i \in always : i > k => i \in r.removed
    <3>1. always \subseteq 1 .. n
      BY <1>2
    <3>2. QED
      BY <1>3, <3>1 DEF MadeOf
  <2>3. ASSUME NEW i \in DOMAIN r.mapped, i \notin DOMAIN base.mapped
        PROVE  i <= k /\ <<i, r.mapped[i]>> \in related
    BY <1>1, <1>3, <2>3 DEF MadeOf
  <2>4. ASSUME NEW i \in r.removed, NEW j \in base.added, i <= k, <<i, j>> \in related
        PROVE  \E l \in DOMAIN r.mapped : l < i /\ r.mapped[l] = j
    <3>1. CASE i <= k - 1
      BY <2>4, <3>1 DEF MadeOf
    <3>2. CASE i = k
      <4>1. j \notin r.added
        BY <1>5, <2>4, <3>2 DEF Candidates
      <4>2. PICK l \in DOMAIN r.mapped : r.mapped[l] = j
        BY <1>1, <1>2, <4>1 DEF MappedTo
      <4>3. l \notin DOMAIN base.mapped
        BY <1>2, <2>1, <4>2 DEF MappedTo
      <4>4. l <= k - 1 /\ l \in 1 .. n
        BY <1>1, <4>3 DEF MadeOf
      <4>5. QED
        BY <1>3, <3>2, <4>2, <4>4
    <3>3. QED
      BY <1>1, <1>3, <2>4, <3>1, <3>2
  <2>5. QED
    BY <2>1, <2>2, <2>3, <2>4 DEF MadeOf
<1>6. ASSUME ~ (k \notin r.removed \cup always \/ Candidates(r, related, k) = {})
      PROVE  MadeOf(Pairing(r, k, Least(Candidates(r, related, k))), k, n, m, related, always, base)
  <2>1. PICK j : j = Least(Candidates(r, related, k))
    OBVIOUS
  <2>2. j \in 1 .. m /\ j \in r.added /\ <<k, j>> \in related
    BY <1>1, <1>6, <2>1, FirstCandidate
  <2>3. k \in r.removed
    BY <1>4, <1>6 DEF MadeOf
  <2>4. PICK p : p = Pairing(r, k, j)
    OBVIOUS
  <2>5. /\ p.added = r.added \ {j} /\ p.removed = r.removed \ {k}
        /\ DOMAIN p.mapped = DOMAIN r.mapped \cup {k} /\ p.mapped[k] = j
        /\ \A i \in DOMAIN r.mapped : i # k => p.mapped[i] = r.mapped[i]
    BY <1>1, <2>2, <2>4, PairingType
  <2>6. \A i \in DOMAIN r.mapped : i # k /\ p.mapped[i] = r.mapped[i]
    BY <1>1, <2>3, <2>5
  <2>7. Matching(p, n, m)
    BY <2>2, <2>3, <2>4, PairingMatches DEF MadeOf
  <2>8. p.removed \subseteq base.removed /\ p.added \subseteq base.added
    BY <2>5 DEF MadeOf
  <2>9. ASSUME NEW i \in always, i > k PROVE i \in p.removed
    <3>1. i \in r.removed
      <4>1. i \in 1 .. n
        BY <1>2
      <4>2. QED
        BY <1>3, <2>9, <4>1 DEF MadeOf
    <3>2. QED
      BY <1>1, <2>5, <2>9, <3>1
  <2>10. \A i \in DOMAIN base.mapped : i \in DOMAIN p.mapped /\ p.mapped[i] = base.mapped[i]
    BY <2>5, <2>6 DEF MadeOf
  <2>11. ASSUME NEW i \in DOMAIN p.mapped, i \notin DOMAIN base.mapped
         PROVE  i <= k /\ <<i, p.mapped[i]>> \in related
    <3>1. CASE i = k
      BY <1>4, <2>2, <2>5, <3>1
    <3>2. CASE i # k
      <4>1. i \in DOMAIN r.mapped /\ p.mapped[i] = r.mapped[i] /\ i \in 1 .. n
        BY <1>1, <2>5, <3>2
      <4>2. i <= k - 1 /\ <<i, r.mapped[i]>> \in related
        BY <2>11, <4>1 DEF MadeOf
      <4>3. QED
        BY <1>3, <4>1, <4>2
    <3>3. QED
      BY <3>1, <3>2
  <2>12. ASSUME NEW i \in p.removed, NEW x \in base.added, i <= k, <<i, x>> \in related
         PROVE  \E l \in DOMAIN p.mapped : l < i /\ p.mapped[l] = x
    <3>1. i \in r.removed /\ i # k /\ i \in 1 .. n
      BY <1>1, <2>5
    <3>2. i <= k - 1
      BY <1>3, <2>12, <3>1
    <3>3. PICK l \in DOMAIN r.mapped : l < i /\ r.mapped[l] = x
      BY <2>12, <3>1, <3>2 DEF MadeOf
    <3>4. QED
      BY <2>5, <2>6, <3>3
  <2>13. QED
    BY <2>1, <2>4, <2>7, <2>8, <2>9, <2>10, <2>11, <2>12 DEF MadeOf
<1>7. QED
  BY <1>5, <1>6 DEF Round

LEMMA LoopMakes ==
  ASSUME NEW n \in Nat, NEW m \in Nat, NEW related, NEW base, Matching(base, n, m),
         NEW always \in SUBSET base.removed, NEW at, IsLoop(at, n, m, related, always, base)
  PROVE  MadeOf(at[n], n, n, m, related, always, base)
<1> DEFINE H == {k \in 0 .. n : MadeOf(at[k], k, n, m, related, always, base)}
<1>1. 0 \in H
  <2>1. \A i \in base.removed : i \in 1 .. n /\ ~ (i <= 0)
    BY DEF Matching, Partial
  <2>2. MadeOf(base, 0, n, m, related, always, base)
    BY <2>1 DEF MadeOf
  <2>3. at[0] = base /\ 0 \in 0 .. n
    BY DEF IsLoop
  <2>4. QED
    BY <2>2, <2>3
<1>2. ASSUME NEW k \in 1 .. n, k - 1 \in H PROVE k \in H
  <2>1. MadeOf(at[k - 1], k - 1, n, m, related, always, base)
    BY <1>2
  <2>2. at[k] = Round(at[k - 1], related, always, k) /\ k \in 0 .. n
    BY DEF IsLoop
  <2>3. MadeOf(at[k], k, n, m, related, always, base)
    BY <2>1, <2>2, RoundMakes
  <2>4. QED
    BY <2>2, <2>3
<1>3. n \in H
  <2> HIDE DEF H
  <2>1. n \in 0 .. n /\ \A k \in 0 .. n : k \in H
    BY <1>1, <1>2, Rounds
  <2>2. QED
    BY <2>1
<1>4. QED
  BY <1>3

\* What a fold of the rounds comes to.
LEMMA FoldMakes ==
  ASSUME NEW n \in Nat, NEW m \in Nat, NEW related, NEW base, Matching(base, n, m),
         NEW always \in SUBSET base.removed, NEW f, FoldsRounds(f, n, m, related, always, base)
  PROVE  MadeOf(f[1 .. n], n, n, m, related, always, base)
<1>1. base \in Partial(n, m)
  BY DEF Matching
<1>2. PICK at : IsLoop(at, n, m, related, always, base) /\ at[n] = f[1 .. n]
  BY <1>1, FoldIsLoop
<1>3. QED
  BY <1>2, LoopMakes

-----------------------------------------------------------------------------
(***************************************************************************)
(* The resolvers as such loops.                                            *)
(***************************************************************************)
\* The loop a resolver is, when it looks at every index of before.
Looped(r, n, m, related) ==
  MadeOf(r, n, n, m, related, 1 .. n, Unmatched(1 .. n, 1 .. m))

\* Items the equality function accepts.
EqualItems(equality, before, after) ==
  {x \in (DOMAIN before) \X (DOMAIN after) : <<before[x[1]], after[x[2]]>> \in equality}

LEMMA UniqueItemsLoop ==
  ASSUME NEW equality, NEW n \in Nat, NEW before, DOMAIN before = 1 .. n,
         NEW m \in Nat, NEW after, DOMAIN after = 1 .. m
  PROVE  Looped(customUniqueItemsArrayMappingResolver(equality, before, after), n, m,
                EqualItems(equality, before, after))
<1> DEFINE related == EqualItems(equality, before, after)
           base == Unmatched(DOMAIN before, DOMAIN after)
           Match(r, i) ==
             IF FreeEqual(equality, r, before, after, i) = {} THEN r
             ELSE Pairing(r, i, Least(FreeEqual(equality, r, before, after, i)))
           IsFold(g) == g = [s \in SUBSET (DOMAIN Indexes(before)) |->
                               IF s = {} THEN base
                               ELSE Match(g[s \ {Max(s)}], Indexes(before)[Max(s)])]
<1>1. /\ n \in Nat /\ m \in Nat /\ DOMAIN before = 1 .. n /\ DOMAIN after = 1 .. m
      /\ DOMAIN Indexes(before) = 1 .. n /\ \A i \in 1 .. n : Indexes(before)[i] = i
  BY DEF Indexes
<1>2. Matching(base, n, m) /\ base \in Partial(n, m) /\ 1 .. n \in SUBSET base.removed
  BY <1>1, UnmatchedMatches DEF Matching
<1>3. ASSUME NEW r \in Partial(n, m), NEW i \in 1 .. n
      PROVE  Match(r, i) = Round(r, related, 1 .. n, i)
  <2>1. \A j \in r.added : <<before[i], after[j]>> \in equality <=> <<i, j>> \in related
    <3>1. i \in DOMAIN before /\ r.added \subseteq DOMAIN after
      BY <1>1 DEF Partial
    <3>2. \A x \in (DOMAIN before) \X (DOMAIN after) :
             x \in related <=> <<before[x[1]], after[x[2]]>> \in equality
      BY DEF EqualItems
    <3>3. ASSUME NEW j \in r.added PROVE <<i, j>> \in (DOMAIN before) \X (DOMAIN after)
      <4>1. j \in DOMAIN after /\ i \in DOMAIN before
        BY <3>1
      <4>2. QED
        BY <4>1
    <3>4. QED
      BY <3>2, <3>3
  <2>2. FreeEqual(equality, r, before, after, i) = Candidates(r, related, i)
    BY <2>1 DEF FreeEqual, Candidates
  <2>3. QED
    BY <2>2 DEF Round
<1>4. customUniqueItemsArrayMappingResolver(equality, before, after) = (CHOOSE h : IsFold(h))[DOMAIN Indexes(before)]
  BY DEF customUniqueItemsArrayMappingResolver, FoldLeft, MapThenFoldSet
<1> HIDE DEF related, Match, base
<1>5. PICK g : RoundsFolded(g, n, m, related, 1 .. n, base)
  BY <1>1, <1>2, RoundsFold
<1>6. IsFold(g)
  <2>1. ASSUME NEW s \in SUBSET (1 .. n)
        PROVE  g[s] = IF s = {} THEN base ELSE Match(g[s \ {Max(s)}], Indexes(before)[Max(s)])
    <3>1. CASE s = {}
      BY <1>5, <3>1 DEF RoundsFolded
    <3>2. CASE s # {}
      <4>1. /\ Max(s) \in 1 .. n /\ g[s \ {Max(s)}] \in Partial(n, m)
            /\ g[s] = Round(g[s \ {Max(s)}], related, 1 .. n, Max(s))
        BY <1>5, <3>2 DEF RoundsFolded
      <4>2. g[s] = Match(g[s \ {Max(s)}], Max(s))
        BY <1>3, <4>1
      <4>3. QED
        BY <1>1, <3>2, <4>1, <4>2
    <3>3. QED
      BY <3>1, <3>2
  <2>2. QED
    BY <1>1, <1>5, <2>1 DEF RoundsFolded
<1>7. PICK f : IsFold(f) /\ customUniqueItemsArrayMappingResolver(equality, before, after) = f[1 .. n]
  BY <1>1, <1>4, <1>6
<1>8. f[{}] = base /\ \A s \in SUBSET (1 .. n) : s # {} =>
                         f[s] = Match(f[s \ {Max(s)}], Indexes(before)[Max(s)])
  BY <1>1, <1>7
<1>9. FoldsRounds(f, n, m, related, 1 .. n, base)
  <2>1. ASSUME NEW k \in 1 .. n, f[1 .. k - 1] \in Partial(n, m)
        PROVE  f[1 .. k] = Round(f[1 .. k - 1], related, 1 .. n, k)
    <3>1. k \in Nat /\ k # 0 /\ 1 .. k \in SUBSET (1 .. n)
      BY <1>1
    <3>2. Max(1 .. k) = k /\ (1 .. k) \ {k} = 1 .. k - 1 /\ 1 .. k # {}
      BY <3>1, FirstIndexes
    <3>3. f[1 .. k] = Match(f[(1 .. k) \ {Max(1 .. k)}], Indexes(before)[Max(1 .. k)])
      BY <1>8, <3>1, <3>2
    <3>4. f[1 .. k] = Match(f[1 .. k - 1], k)
      BY <1>1, <3>2, <3>3
    <3>5. QED
      BY <1>3, <2>1, <3>4
  <2>2. QED
    BY <1>8, <2>1 DEF FoldsRounds
<1>10. MadeOf(f[1 .. n], n, n, m, related, 1 .. n, base)
  BY <1>1, <1>2, <1>9, FoldMakes
<1>11. QED
  BY <1>1, <1>7, <1>10 DEF Looped, related, base

\* An item and the first one of after with its key.
KeyedItems(before, after, noKey) ==
  {x \in (DOMAIN before) \X (DOMAIN after) : /\ before[x[1]] \in DOMAIN FirstWithKey(after, noKey)
                 /\ x[2] = FirstWithKey(after, noKey)[before[x[1]]]}

LEMMA KeyLoop ==
  ASSUME NEW noKey, NEW n \in Nat, NEW before, DOMAIN before = 1 .. n,
         NEW m \in Nat, NEW after, DOMAIN after = 1 .. m
  PROVE  Looped(createKeyMappingResolver(before, after, noKey), n, m, KeyedItems(before, after, noKey))
<1> DEFINE related == KeyedItems(before, after, noKey)
           base == Unmatched(DOMAIN before, DOMAIN after)
           Match(r, i) ==
             IF /\ before[i] \in DOMAIN FirstWithKey(after, noKey)
                /\ FirstWithKey(after, noKey)[before[i]] \in r.added
             THEN Pairing(r, i, FirstWithKey(after, noKey)[before[i]]) ELSE r
           IsFold(g) == g = [s \in SUBSET (DOMAIN Indexes(before)) |->
                               IF s = {} THEN base
                               ELSE Match(g[s \ {Max(s)}], Indexes(before)[Max(s)])]
<1>1. /\ n \in Nat /\ m \in Nat /\ DOMAIN before = 1 .. n /\ DOMAIN after = 1 .. m
      /\ DOMAIN Indexes(before) = 1 .. n /\ \A i \in 1 .. n : Indexes(before)[i] = i
  BY DEF Indexes
<1>2. Matching(base, n, m) /\ base \in Partial(n, m) /\ 1 .. n \in SUBSET base.removed
  BY <1>1, UnmatchedMatches DEF Matching
<1>3. ASSUME NEW r \in Partial(n, m), NEW i \in 1 .. n
      PROVE  Match(r, i) = Round(r, related, 1 .. n, i)
  <2>1. PICK key, j : key = before[i] /\ j = FirstWithKey(after, noKey)[key]
    OBVIOUS
  <2>2. i \in DOMAIN before /\ r.added \subseteq DOMAIN after /\ r.added \subseteq Nat
    BY <1>1 DEF Partial
  <2>3. \A x \in (DOMAIN before) \X (DOMAIN after) :
           x \in related <=> /\ before[x[1]] \in DOMAIN FirstWithKey(after, noKey)
                             /\ x[2] = FirstWithKey(after, noKey)[before[x[1]]]
    BY DEF KeyedItems
  <2>4. ASSUME NEW l \in r.added
        PROVE  <<i, l>> \in related <=> key \in DOMAIN FirstWithKey(after, noKey) /\ l = j
    <3>1. l \in DOMAIN after /\ i \in DOMAIN before
      BY <2>2
    <3>2. <<i, l>> \in (DOMAIN before) \X (DOMAIN after)
      BY <3>1
    <3>3. QED
      BY <2>1, <2>3, <3>2
  <2>5. CASE key \in DOMAIN FirstWithKey(after, noKey) /\ j \in r.added
    <3>1. Candidates(r, related, i) = {j}
      BY <2>4, <2>5 DEF Candidates
    <3>2. {j} \in SUBSET Nat /\ {j} # {}
      BY <2>2, <2>5
    <3>3. Least({j}) = j
      BY <3>2, LeastIsLeast
    <3>4. Candidates(r, related, i) # {} /\ Round(r, related, 1 .. n, i) = Pairing(r, i, j)
      BY <3>1, <3>3 DEF Round
    <3>5. QED
      BY <2>1, <2>5, <3>4
  <2>6. CASE ~ (key \in DOMAIN FirstWithKey(after, noKey) /\ j \in r.added)
    <3>1. Candidates(r, related, i) = {}
      BY <2>4, <2>6 DEF Candidates
    <3>2. QED
      BY <2>1, <2>6, <3>1 DEF Round
  <2>7. QED
    BY <2>5, <2>6
<1>4. createKeyMappingResolver(before, after, noKey) = (CHOOSE h : IsFold(h))[DOMAIN Indexes(before)]
  BY DEF createKeyMappingResolver, FoldLeft, MapThenFoldSet
<1> HIDE DEF related, Match, base
<1>5. PICK g : RoundsFolded(g, n, m, related, 1 .. n, base)
  BY <1>1, <1>2, RoundsFold
<1>6. IsFold(g)
  <2>1. ASSUME NEW s \in SUBSET (1 .. n)
        PROVE  g[s] = IF s = {} THEN base ELSE Match(g[s \ {Max(s)}], Indexes(before)[Max(s)])
    <3>1. CASE s = {}
      BY <1>5, <3>1 DEF RoundsFolded
    <3>2. CASE s # {}
      <4>1. /\ Max(s) \in 1 .. n /\ g[s \ {Max(s)}] \in Partial(n, m)
            /\ g[s] = Round(g[s \ {Max(s)}], related, 1 .. n, Max(s))
        BY <1>5, <3>2 DEF RoundsFolded
      <4>2. g[s] = Match(g[s \ {Max(s)}], Max(s))
        BY <1>3, <4>1
      <4>3. QED
        BY <1>1, <3>2, <4>1, <4>2
    <3>3. QED
      BY <3>1, <3>2
  <2>2. QED
    BY <1>1, <1>5, <2>1 DEF RoundsFolded
<1>7. PICK f : IsFold(f) /\ createKeyMappingResolver(before, after, noKey) = f[1 .. n]
  BY <1>1, <1>4, <1>6
<1>8. f[{}] = base /\ \A s \in SUBSET (1 .. n) : s # {} =>
                         f[s] = Match(f[s \ {Max(s)}], Indexes(before)[Max(s)])
  BY <1>1, <1>7
<1>9. FoldsRounds(f, n, m, related, 1 .. n, base)
  <2>1. ASSUME NEW k \in 1 .. n, f[1 .. k - 1] \in Partial(n, m)
        PROVE  f[1 .. k] = Round(f[1 .. k - 1], related, 1 .. n, k)
    <3>1. k \in Nat /\ k # 0 /\ 1 .. k \in SUBSET (1 .. n)
      BY <1>1
    <3>2. Max(1 .. k) = k /\ (1 .. k) \ {k} = 1 .. k - 1 /\ 1 .. k # {}
      BY <3>1, FirstIndexes
    <3>3. f[1 .. k] = Match(f[(1 .. k) \ {Max(1 .. k)}], Indexes(before)[Max(1 .. k)])
      BY <1>8, <3>1, <3>2
    <3>4. f[1 .. k] = Match(f[1 .. k - 1], k)
      BY <1>1, <3>2, <3>3
    <3>5. QED
      BY <1>3, <2>1, <3>4
  <2>2. QED
    BY <1>8, <2>1 DEF FoldsRounds
<1>10. MadeOf(f[1 .. n], n, n, m, related, 1 .. n, base)
  BY <1>1, <1>2, <1>9, FoldMakes
<1>11. QED
  BY <1>1, <1>7, <1>10 DEF Looped, related, base

-----------------------------------------------------------------------------
(***************************************************************************)
(* The answers in indexes.                                                 *)
(***************************************************************************)
LEMMA ByPositionContract ==
  ASSUME NEW n, NEW before, DOMAIN before = 1 .. n, NEW m, NEW after, DOMAIN after = 1 .. m,
         NEW r, r = arrayMappingResolver(before, after)
  PROVE  EachKeyOnce(r, 1 .. n, 1 .. m) /\ OneToOne(r)
<1>1. PICK both : both = 1 .. n \cap 1 .. m
  OBVIOUS
<1>2. r = [added |-> (1 .. m) \ (1 .. n), removed |-> (1 .. n) \ (1 .. m),
           mapped |-> [i \in both |-> i]]
  BY <1>1 DEF arrayMappingResolver, MapKeysResult
<1>3. /\ DOMAIN r.mapped = both /\ \A i \in both : r.mapped[i] = i
      /\ r.added = (1 .. m) \ (1 .. n) /\ r.removed = (1 .. n) \ (1 .. m)
  BY <1>2
<1>4. MappedTo(r) = both
  BY <1>3 DEF MappedTo
<1>5. QED
  BY <1>1, <1>3, <1>4 DEF EachKeyOnce, OneToOne

LEMMA LoopContract ==
  ASSUME NEW n, NEW m, NEW related, NEW r, Looped(r, n, m, related)
  PROVE  /\ EachKeyOnce(r, 1 .. n, 1 .. m) /\ OneToOne(r) /\ Matching(r, n, m)
         /\ \A i \in DOMAIN r.mapped : <<i, r.mapped[i]>> \in related
         /\ \A i \in r.removed : \A j \in 1 .. m :
               <<i, j>> \in related => \E l \in DOMAIN r.mapped : l < i /\ r.mapped[l] = j
         /\ \A i \in r.removed : \A j \in r.added : <<i, j>> \notin related
<1>1. PICK base : base = Unmatched(1 .. n, 1 .. m)
  OBVIOUS
<1>2. base.added = 1 .. m /\ DOMAIN base.mapped = {}
  BY <1>1, UnmatchedMatches
<1>3. MadeOf(r, n, n, m, related, 1 .. n, base)
  BY <1>1 DEF Looped
<1>4. EachKeyOnce(r, 1 .. n, 1 .. m) /\ OneToOne(r) /\ Matching(r, n, m) /\ r \in Partial(n, m)
  BY <1>3 DEF MadeOf, Matching
<1>5. r.removed \subseteq 1 .. n /\ r.added \subseteq 1 .. m
  BY <1>4 DEF Partial
<1>6. \A i \in DOMAIN r.mapped : <<i, r.mapped[i]>> \in related
  BY <1>2, <1>3 DEF MadeOf
<1>7. ASSUME NEW i \in r.removed, NEW j \in 1 .. m, <<i, j>> \in related
      PROVE  \E l \in DOMAIN r.mapped : l < i /\ r.mapped[l] = j
  <2>1. i <= n
    BY <1>5
  <2>2. QED
    BY <1>2, <1>3, <1>7, <2>1 DEF MadeOf
<1>8. ASSUME NEW i \in r.removed, NEW j \in r.added, <<i, j>> \in related PROVE FALSE
  <2>1. PICK l \in DOMAIN r.mapped : r.mapped[l] = j
    BY <1>5, <1>7, <1>8
  <2>2. QED
    BY <1>4, <2>1 DEF EachKeyOnce, MappedTo
<1>9. QED
  BY <1>4, <1>6, <1>7, <1>8

\* No two elements have the same key.
KeyedOnce(keys, noKey) == \A i, j \in DOMAIN keys : keys[i] = keys[j] /\ keys[i] # noKey => i = j

\* The first element with a key has it.
LEMMA FirstHasKey ==
  ASSUME NEW noKey, NEW m \in Nat, NEW after, DOMAIN after = 1 .. m, NEW key \in DOMAIN FirstWithKey(after, noKey)
  PROVE  /\ key # noKey /\ FirstWithKey(after, noKey)[key] \in 1 .. m
         /\ after[FirstWithKey(after, noKey)[key]] = key
<1>1. PICK S : S = {j \in DOMAIN after : after[j] = key}
  OBVIOUS
<1>2. key \in ElementsOf(after) \ {noKey}
  BY DEF FirstWithKey
<1>3. FirstWithKey(after, noKey)[key] = Least(S)
  BY <1>1, <1>2 DEF FirstWithKey
<1>4. S \in SUBSET Nat /\ S # {}
  BY <1>1, <1>2 DEF ElementsOf
<1>5. Least(S) \in S
  BY <1>4, LeastIsLeast
<1>6. QED
  BY <1>1, <1>2, <1>3, <1>5

LEMMA KeyedItemsShareKeys ==
  ASSUME NEW noKey, NEW n \in Nat, NEW before, DOMAIN before = 1 .. n,
         NEW m \in Nat, NEW after, DOMAIN after = 1 .. m, NEW i \in 1 .. n, NEW j \in 1 .. m
  PROVE  /\ <<i, j>> \in KeyedItems(before, after, noKey) =>
               before[i] = after[j] /\ before[i] # noKey
         /\ KeyedOnce(after, noKey) /\ before[i] = after[j]
              /\ after[j] # noKey => <<i, j>> \in KeyedItems(before, after, noKey)
<1>1. PICK key : key = before[i]
  OBVIOUS
<1>2. <<i, j>> \in KeyedItems(before, after, noKey) <=>
        key \in DOMAIN FirstWithKey(after, noKey) /\ j = FirstWithKey(after, noKey)[key]
  <2>1. \A x \in (DOMAIN before) \X (DOMAIN after) :
           x \in KeyedItems(before, after, noKey) <=>
             /\ before[x[1]] \in DOMAIN FirstWithKey(after, noKey)
             /\ x[2] = FirstWithKey(after, noKey)[before[x[1]]]
    BY DEF KeyedItems
  <2>2. <<i, j>> \in (DOMAIN before) \X (DOMAIN after)
    OBVIOUS
  <2>3. QED
    BY <1>1, <2>1, <2>2
<1>3. ASSUME <<i, j>> \in KeyedItems(before, after, noKey)
      PROVE  key = after[j] /\ key # noKey
  BY <1>2, <1>3, FirstHasKey
<1>4. ASSUME KeyedOnce(after, noKey), key = after[j], key # noKey
      PROVE  <<i, j>> \in KeyedItems(before, after, noKey)
  <2>1. key \in DOMAIN FirstWithKey(after, noKey)
    BY <1>4 DEF FirstWithKey, ElementsOf
  <2>2. PICK l \in 1 .. m : l = FirstWithKey(after, noKey)[key] /\ after[l] = key
    BY <2>1, FirstHasKey
  <2>3. l = j
    BY <1>4, <2>2 DEF KeyedOnce
  <2>4. QED
    BY <1>2, <2>1, <2>2, <2>3
<1>5. QED
  BY <1>1, <1>3, <1>4

=============================================================================
