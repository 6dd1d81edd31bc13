----------------------------- MODULE Verdicts_proofs -----------------------------
(***************************************************************************)
(* Facts about classify rules, for every rule; and about the verdicts on   *)
(* the differences of two schemas, for every pair of them.                 *)
(***************************************************************************)
EXTENDS Verdicts, FoldFacts, FiniteSetTheorems

LEMMA ReversedVerdict ==
  ASSUME NEW v \in Slots
  PROVE  reverseDiffType(v) \in Slots /\ reverseDiffType(reverseDiffType(v)) = v
  BY RulesAssumption DEF Slots, Verdicts, reverseDiffType

(***************************************************************************)
(* Reversing a rule whose three slots are there yields such a rule: the    *)
(* schema rules of a response, and of a "not" inside of it, are rules      *)
(* (reverseClassifyRule, rules.ts:57-63).                                  *)
(***************************************************************************)
THEOREM ReversedIsRule ==
  ASSUME NEW r \in ClassifyRule, \A n \in 1 .. 3 : r[n] # None
  PROVE  /\ reverseClassifyRule(r) \in ClassifyRule
         /\ \A n \in 1 .. 3 : reverseClassifyRule(r)[n] \in Slots
<1> DEFINE Slot(n) == IF r[n + 3] # None THEN r[n + 3] ELSE reverseDiffType(r[n])
<1>1. ASSUME NEW n \in 1 .. 3 PROVE Slot(n) \in Slots
  <2>1. r[n] \in Slots /\ r[n + 3] \in Slots \cup {None}
    BY DEF ClassifyRule
  <2> QED BY <2>1, ReversedVerdict
<1>2. Slot(1) \in Slots /\ Slot(2) \in Slots /\ Slot(3) \in Slots
  BY <1>1
<1>3. reverseClassifyRule(r) = <<Slot(1), Slot(2), Slot(3), None, None, None>>
  BY DEF reverseClassifyRule, ThreeSlots
<1> HIDE DEF Slot
<1> QED BY <1>2, <1>3 DEF ClassifyRule

(***************************************************************************)
(* Reversing at the time a difference is made (dynamicReverseClassifyRule, *)
(* rules.ts:123-130) yields the verdicts of the reversed rule when the     *)
(* predicate says so, and those of the rule itself when it does not.       *)
(***************************************************************************)
THEOREM DynamicReversal ==
  ASSUME NEW r \in ClassifyRule
  PROVE  /\ dynamicReverseClassifyRule(r, TRUE) = reverseClassifyRule(r)
         /\ \A n \in 1 .. 3 : dynamicReverseClassifyRule(r, FALSE)[n] = r[n]
<1>1. dynamicReverseClassifyRule(r, TRUE) = reverseClassifyRule(r)
  BY DEF dynamicReverseClassifyRule, reverseClassifyRule
<1>2. dynamicReverseClassifyRule(r, FALSE) = <<r[1], r[2], r[3], None, None, None>>
  BY DEF dynamicReverseClassifyRule, ThreeSlots
<1>3. ASSUME NEW n \in 1 .. 3 PROVE <<r[1], r[2], r[3], None, None, None>>[n] = r[n]
  <2>1. n = 1 \/ n = 2 \/ n = 3
    BY SMT
  <2> QED BY <2>1
<1> QED BY <1>1, <1>2, <1>3

(***************************************************************************)
(* A rule without verdicts of its own for the reverse is itself again when *)
(* it is reversed twice, as a schema inside a "not" of a response is.      *)
(***************************************************************************)
THEOREM ReversedTwice ==
  ASSUME NEW a \in Slots, NEW b \in Slots, NEW c \in Slots
  PROVE  reverseClassifyRule(reverseClassifyRule(ThreeSlots(a, b, c))) = ThreeSlots(a, b, c)
<1>1. reverseClassifyRule(ThreeSlots(a, b, c))
        = ThreeSlots(reverseDiffType(a), reverseDiffType(b), reverseDiffType(c))
  BY DEF reverseClassifyRule, ThreeSlots
<1>2. reverseClassifyRule(ThreeSlots(reverseDiffType(a), reverseDiffType(b), reverseDiffType(c)))
        = ThreeSlots(reverseDiffType(reverseDiffType(a)), reverseDiffType(reverseDiffType(b)),
                     reverseDiffType(reverseDiffType(c)))
  BY DEF reverseClassifyRule, ThreeSlots
<1> QED BY <1>1, <1>2, ReversedVerdict

-----------------------------------------------------------------------------
(***************************************************************************)
(* Every rule has its three slots, whichever keyword it is of and however  *)
(* often it is reversed.                                                   *)
(***************************************************************************)
IsRule(r) == r \in ClassifyRule /\ \A n \in 1 .. 3 : r[n] \in Slots

Keywords == Simple \cup {"enum", "required", "properties", "default"}
Actions == {"add", "remove", "replace"}

IsDifference(c) == c.keyword \in Keywords /\ c.action \in Actions

LEMMA ReversedRule ==
  ASSUME NEW r, IsRule(r)
  PROVE  IsRule(reverseClassifyRule(r))
<1>1. r \in ClassifyRule /\ \A n \in 1 .. 3 : r[n] # None
  BY RulesAssumption DEF IsRule
<1>2. QED
  BY <1>1, ReversedIsRule DEF IsRule

LEMMA RuleOfSlots ==
  ASSUME NEW a \in Slots, NEW b \in Slots, NEW c \in Slots,
         NEW d \in Slots \cup {None}, NEW e \in Slots \cup {None}, NEW f \in Slots \cup {None}
  PROVE  IsRule(<<a, b, c, d, e, f>>)
<1>1. PICK r : r = <<a, b, c, d, e, f>>
  OBVIOUS
<1>2. r \in ClassifyRule
  BY <1>1 DEF ClassifyRule
<1>3. r[1] \in Slots /\ r[2] \in Slots /\ r[3] \in Slots
  BY <1>1
<1>4. \A n \in 1 .. 3 : n = 1 \/ n = 2 \/ n = 3
  OBVIOUS
<1>5. QED
  BY <1>1, <1>2, <1>3, <1>4 DEF IsRule

\* What the classifiers yield.
Yields == {"breaking", "nonBreaking", "risky", "unclassified"}

LEMMA YieldsAreSlots ==
  /\ Yields \subseteq Slots
  /\ \A b : breakingIf(b) \in Yields /\ riskyIf(b) \in Yields
  BY DEF Yields, Slots, Verdicts, breakingIf, riskyIf

LEMMA RuleOfVerdicts ==
  ASSUME NEW a \in Yields, NEW b \in Yields, NEW c \in Yields,
         NEW d \in Yields \cup {None}, NEW e \in Yields \cup {None}, NEW f \in Yields \cup {None}
  PROVE  IsRule(<<a, b, c, d, e, f>>)
  BY RuleOfSlots, YieldsAreSlots

LEMMA EffectiveBoundRule ==
  ASSUME NEW c, NEW side
  PROVE  IsRule(effectiveBoundClassifier(c, side))
<1>1. ASSUME NEW stricter \in Yields, NEW looser \in Yields
      PROVE  classifyByEffectiveBound(c, side, stricter, looser) \in Yields
  BY <1>1 DEF classifyByEffectiveBound, Yields
<1>2. PICK q : q = classifyByEffectiveBound(c, side, "breaking", "nonBreaking")
  OBVIOUS
<1>3. PICK p : p = classifyByEffectiveBound(c, side, "nonBreaking", "risky")
  OBVIOUS
<1>4. q \in Yields /\ p \in Yields
  BY <1>1, <1>2, <1>3 DEF Yields
<1>5. effectiveBoundClassifier(c, side) = <<q, q, q, p, p, p>>
  BY <1>2, <1>3 DEF effectiveBoundClassifier
<1>6. QED
  BY <1>4, <1>5, RuleOfVerdicts

LEMMA KeywordRule ==
  ASSUME NEW x, IsComparison(x), NEW c, c.keyword \in Keywords
  PROVE  IsRule(jsonSchemaRules(x, c))
<1> DEFINE r == jsonSchemaRules(x, c)
<1>1. /\ \A b : breakingIf(b) \in Yields /\ riskyIf(b) \in Yields
      /\ {"breaking", "nonBreaking", "risky", "unclassified"} \subseteq Yields
  BY YieldsAreSlots DEF Yields
<1>2. \A side : IsRule(numericClassifier(c, side))
  BY <1>1, RuleOfVerdicts DEF numericClassifier
<1>3. IsRule(exclusiveBooleanClassifier(c))
  BY <1>1, RuleOfVerdicts DEF exclusiveBooleanClassifier
<1>4. \A side : IsRule(lengthClassifier(c, side))
  BY <1>1, RuleOfVerdicts DEF lengthClassifier, ThreeSlots
<1>5. IsRule(multipleOfClassifier(c)) /\ IsRule(typeClassifier(c))
  BY <1>1, RuleOfVerdicts DEF multipleOfClassifier, typeClassifier
<1>6. IsRule(enumKeywordClassifier) /\ IsRule(enumClassifyRule(c))
  BY <1>1, RuleOfVerdicts DEF enumKeywordClassifier, enumClassifyRule
<1>7. IsRule(requiredItemClassifyRule(c)) /\ IsRule(propertyClassifyRule(c))
  BY <1>1, RuleOfVerdicts DEF requiredItemClassifyRule, propertyClassifyRule
<1>8. IsRule(defaultClassifier)
  BY <1>1, RuleOfVerdicts DEF defaultClassifier, ThreeSlots
<1>9. IsRule(x.custom)
  BY DEF IsComparison, IsRule, ClassifyRule
<1>10. x.draft04 \in BOOLEAN
  BY DEF IsComparison
<1>11. \A side : IsRule(effectiveBoundClassifier(c, side))
  BY EffectiveBoundRule
<1>12. CASE c.keyword \in {"minimum", "maximum", "exclusiveMinimum", "exclusiveMaximum"}
  BY <1>2, <1>3, <1>10, <1>11, <1>12 DEF jsonSchemaRules
<1>13. CASE c.keyword \in {"minLength", "maxLength"}
  BY <1>4, <1>13 DEF jsonSchemaRules
<1>14. CASE c.keyword \in {"multipleOf", "type", "enum", "required", "properties", "default", "custom"}
  BY <1>5, <1>6, <1>7, <1>8, <1>9, <1>14 DEF jsonSchemaRules
<1>15. QED
  BY <1>12, <1>13, <1>14 DEF Keywords, Simple

\* What a rule is after n reversals.
AfterNots(r, n) ==
  IF n = 0 THEN r
  ELSE IF n % 2 = 1 THEN reverseClassifyRule(r)
  ELSE reverseClassifyRule(reverseClassifyRule(r))

LEMMA ReversedThrice ==
  ASSUME NEW r, IsRule(r)
  PROVE  reverseClassifyRule(reverseClassifyRule(reverseClassifyRule(r))) = reverseClassifyRule(r)
<1>1. PICK q : q = reverseClassifyRule(r)
  OBVIOUS
<1>2. IsRule(q)
  BY <1>1, ReversedRule
<1>3. q[1] \in Slots /\ q[2] \in Slots /\ q[3] \in Slots
  BY <1>2 DEF IsRule
<1>4. \E a, b, c : q = ThreeSlots(a, b, c)
  BY <1>1 DEF reverseClassifyRule
<1>5. PICK a, b, c : q = ThreeSlots(a, b, c)
  BY <1>4
<1>6. a \in Slots /\ b \in Slots /\ c \in Slots
  BY <1>3, <1>5 DEF ThreeSlots
<1>7. reverseClassifyRule(reverseClassifyRule(q)) = q
  BY <1>5, <1>6, ReversedTwice
<1>8. QED
  BY <1>1, <1>7

(***************************************************************************)
(* Inside of any number of "not" a rule is the rule, its reverse or the    *)
(* reverse of that: every further "not" takes the one before back          *)
(* (jsonSchemaRules reverses the rules of what "not" holds).               *)
(***************************************************************************)
THEOREM NotsCollapse ==
  ASSUME NEW r, IsRule(r), NEW nots \in Nat
  PROVE  /\ WithinNots(r, nots) = AfterNots(r, nots)
         /\ IsRule(WithinNots(r, nots))
<1> DEFINE IsNots(g) == g = [n \in 0 .. nots |-> IF n = 0 THEN r ELSE reverseClassifyRule(g[n - 1])]
<1>1. WithinNots(r, nots) = (CHOOSE g : IsNots(g))[nots]
  BY DEF WithinNots
<1>2. PICK once : once = reverseClassifyRule(r)
  OBVIOUS
<1>3. PICK twice : twice = reverseClassifyRule(once)
  OBVIOUS
<1>4. reverseClassifyRule(twice) = once
  BY <1>2, <1>3, ReversedThrice
<1>5. \A n : AfterNots(r, n) = IF n = 0 THEN r ELSE IF n % 2 = 1 THEN once ELSE twice
  BY <1>2, <1>3 DEF AfterNots
<1>6. ASSUME NEW n \in 1 .. nots
      PROVE  AfterNots(r, n) = reverseClassifyRule(AfterNots(r, n - 1))
  <2>1. CASE n = 1
    <3>1. n % 2 = 1 /\ n # 0 /\ n - 1 = 0
      BY <2>1
    <3>2. QED
      BY <1>2, <1>5, <3>1
  <2>2. CASE n # 1
    <3>1. n # 0 /\ n - 1 # 0 /\ n \in Nat
      BY <2>2
    <3>2. CASE n % 2 = 1
      <4>1. (n - 1) % 2 # 1
        BY <3>1, <3>2
      <4>2. QED
        BY <1>4, <1>5, <3>1, <3>2, <4>1
    <3>3. CASE n % 2 # 1
      <4>1. (n - 1) % 2 = 1
        BY <3>1, <3>3
      <4>2. QED
        BY <1>3, <1>5, <3>1, <3>3, <4>1
    <3>4. QED
      BY <3>2, <3>3
  <2>3. QED
    BY <2>1, <2>2
<1>7. PICK g : g = [n \in 0 .. nots |-> AfterNots(r, n)]
  OBVIOUS
<1>8. IsNots(g)
  <2>1. \A n \in 0 .. nots : g[n] = IF n = 0 THEN r ELSE reverseClassifyRule(g[n - 1])
    <3>1. g[0] = r
      BY <1>5, <1>7
    <3>2. ASSUME NEW n \in 1 .. nots PROVE g[n] = reverseClassifyRule(g[n - 1])
      <4>1. n \in 0 .. nots /\ n - 1 \in 0 .. nots
        OBVIOUS
      <4>2. QED
        BY <1>6, <1>7, <4>1
    <3>3. \A n \in 0 .. nots : n = 0 \/ n \in 1 .. nots
      OBVIOUS
    <3>4. QED
      BY <3>1, <3>2, <3>3
  <2>2. QED
    BY <1>7, <2>1
<1>9. PICK f : f = (CHOOSE h : IsNots(h))
  OBVIOUS
<1>10. IsNots(f)
  <2> HIDE DEF IsNots
  <2>1. QED
    BY <1>8, <1>9
<1>11. f[0] = r /\ \A n \in 1 .. nots : f[n] = reverseClassifyRule(f[n - 1])
  <2>1. \A n \in 0 .. nots : f[n] = IF n = 0 THEN r ELSE reverseClassifyRule(f[n - 1])
    BY <1>10
  <2>2. 0 \in 0 .. nots /\ \A n \in 1 .. nots : n \in 0 .. nots /\ n # 0
    OBVIOUS
  <2>3. QED
    BY <2>1, <2>2
<1>12. \A n \in 0 .. nots : f[n] = AfterNots(r, n)
  <2>1. PICK H : H = {n \in 0 .. nots : f[n] = AfterNots(r, n)}
    OBVIOUS
  <2>2. 0 \in H
    BY <1>5, <1>11, <2>1
  <2>3. ASSUME NEW n \in 1 .. nots, n - 1 \in H PROVE n \in H
    <3>1. f[n] = reverseClassifyRule(AfterNots(r, n - 1)) /\ n \in 0 .. nots
      BY <1>11, <2>1, <2>3
    <3>2. QED
      BY <1>6, <2>1, <3>1
  <2>4. \A n \in 0 .. nots : n \in H
    BY <2>2, <2>3, Rounds
  <2>5. QED
    BY <2>1, <2>4
<1>13. WithinNots(r, nots) = AfterNots(r, nots)
  <2>1. nots \in 0 .. nots
    OBVIOUS
  <2>2. QED
    BY <1>1, <1>9, <1>12, <2>1
<1>14. IsRule(once) /\ IsRule(twice)
  BY <1>2, <1>3, ReversedRule
<1>15. QED
  BY <1>5, <1>13, <1>14

-----------------------------------------------------------------------------
(***************************************************************************)
(* The slots of the rule of a difference: those of the rule within the     *)
(* nots, or of its reverse.                                                *)
(***************************************************************************)
Slot(x, c) == RuleOf(x, c)[Index(c.action)]

TurnedRound(x) == x.place \in {"response", "receive"}

Straight(x, c) == WithinNots(jsonSchemaRules(x, c), x.nots)

LEMMA RuleTurned ==
  ASSUME NEW x, IsComparison(x), NEW c, IsDifference(c)
  PROVE  /\ Index(c.action) \in 1 .. 3
         /\ IsRule(Straight(x, c))
         /\ Slot(x, c) = IF TurnedRound(x) THEN reverseClassifyRule(Straight(x, c))[Index(c.action)]
                         ELSE Straight(x, c)[Index(c.action)]
         /\ Slot(x, c) \in Slots
<1> DEFINE n == Index(c.action)
           r == Straight(x, c)
<1>1. n \in 1 .. 3
  BY DEF IsDifference, Actions, Index
<1>2. IsRule(r)
  <2>1. IsRule(jsonSchemaRules(x, c)) /\ x.nots \in Nat
    BY KeywordRule DEF IsDifference, IsComparison
  <2>2. QED
    BY <2>1, NotsCollapse DEF Straight
<1>3. /\ dynamicReverseClassifyRule(r, TRUE) = reverseClassifyRule(r)
      /\ \A k \in 1 .. 3 : dynamicReverseClassifyRule(r, FALSE)[k] = r[k]
  BY <1>2, DynamicReversal DEF IsRule
<1>4. x.place \in {"request", "response", "send", "receive"}
  BY DEF IsComparison
<1>5. Slot(x, c) = IF TurnedRound(x) THEN reverseClassifyRule(r)[n] ELSE r[n]
  <2> HIDE DEF n
  <2>1. CASE x.place = "request"
    BY <2>1 DEF Slot, RuleOf, Straight, TurnedRound, n
  <2>2. CASE x.place = "response"
    BY <2>2 DEF Slot, RuleOf, Straight, TurnedRound, n
  <2>3. CASE x.place = "send"
    <3>1. RuleOf(x, c) = dynamicReverseClassifyRule(r, FALSE)
      BY <2>3 DEF RuleOf, Straight
    <3>2. QED
      BY <1>1, <1>3, <2>3, <3>1 DEF Slot, TurnedRound, n
  <2>4. CASE x.place = "receive"
    <3>1. RuleOf(x, c) = dynamicReverseClassifyRule(r, TRUE)
      BY <2>4 DEF RuleOf, Straight
    <3>2. QED
      BY <1>1, <1>3, <2>4, <3>1 DEF Slot, TurnedRound, n
  <2>5. QED
    BY <1>4, <2>1, <2>2, <2>3, <2>4
<1>6. IsRule(reverseClassifyRule(r))
  BY <1>2, ReversedRule
<1>7. Slot(x, c) \in Slots
  BY <1>1, <1>2, <1>5, <1>6 DEF IsRule
<1>8. QED
  BY <1>1, <1>2, <1>5, <1>7

-----------------------------------------------------------------------------
(***************************************************************************)
(* The pipeline of reclassification rules, round by round.                 *)
(***************************************************************************)
Outcome == [type : Verdicts, errors : Nat]
Reclassification == [Verdicts -> Slots \cup {None}]

Computed(v) == [type |-> v, errors |-> 0]

\* What a rule leaves of a verdict.
Left(rule, v) == IF rule[v] \in {None, Throws} THEN v ELSE rule[v]

Tried(o, rule) ==
  [type |-> Left(rule, o.type), errors |-> o.errors + (IF rule[o.type] = Throws THEN 1 ELSE 0)]

LEMMA TriedType ==
  ASSUME NEW o \in Outcome, NEW rule \in Reclassification
  PROVE  Tried(o, rule) \in Outcome
<1>1. o.type \in Verdicts /\ o.errors \in Nat /\ rule[o.type] \in Slots \cup {None}
  BY DEF Outcome, Reclassification
<1>2. Left(rule, o.type) \in Verdicts
  BY <1>1 DEF Left, Slots
<1>3. o.errors + (IF rule[o.type] = Throws THEN 1 ELSE 0) \in Nat
  BY <1>1
<1>4. QED
  BY <1>2, <1>3 DEF Tried, Outcome

\* What the pipeline has after each rule.
Tries(at, rules, v) ==
  /\ at[0] = Computed(v) /\ \A k \in 0 .. Len(rules) : at[k] \in Outcome
  /\ \A k \in 1 .. Len(rules) : at[k] = Tried(at[k - 1], rules[k])

LEMMA PipelineTries ==
  ASSUME NEW rules \in Seq(Reclassification), NEW v \in Verdicts
  PROVE  \E at : Tries(at, rules, v) /\ at[Len(rules)] = runReclassificationPipeline(rules, v)
<1> DEFINE n == Len(rules)
           base == Computed(v)
           IsFold(g) == g = [s \in SUBSET (DOMAIN rules) |->
                               IF s = {} THEN base
                               ELSE Tried(g[s \ {Max(s)}], rules[Max(s)])]
<1>1. n \in Nat /\ DOMAIN rules = 1 .. n /\ \A k \in 1 .. n : rules[k] \in Reclassification
  OBVIOUS
<1>2. base \in Outcome
  BY DEF Computed, Outcome
<1>3. runReclassificationPipeline(rules, v) = (CHOOSE h : IsFold(h))[DOMAIN rules]
  BY DEF runReclassificationPipeline, FoldLeft, MapThenFoldSet, Tried, Left, Computed
<1> HIDE DEF base, n
<1>4. PICK step : step = [x \in Outcome \X (1 .. n) |-> Tried(x[1], rules[x[2]])]
  OBVIOUS
<1>5. step \in [Outcome \X (1 .. n) -> Outcome]
  BY <1>1, <1>4, TriedType
<1>6. PICK g \in [SUBSET (1 .. n) -> Outcome] : Folding(g, n, base, step)
  BY <1>1, <1>2, <1>5, FoldingExists
<1>7. IsFold(g)
  <2>1. ASSUME NEW s \in SUBSET (1 .. n)
        PROVE  g[s] = IF s = {} THEN base ELSE Tried(g[s \ {Max(s)}], rules[Max(s)])
    <3>1. CASE s = {}
      BY <1>6, <3>1 DEF Folding
    <3>2. CASE s # {}
      <4>1. Max(s) \in 1 .. n
        BY <1>1, <3>2, MaxExists
      <4>2. g[s \ {Max(s)}] \in Outcome
        BY <1>6
      <4>3. g[s] = step[<<g[s \ {Max(s)}], Max(s)>>]
        BY <1>6, <3>2 DEF Folding
      <4>4. QED
        BY <1>4, <3>2, <4>1, <4>2, <4>3
    <3>3. QED
      BY <3>1, <3>2
  <2>2. QED
    BY <1>1, <1>6, <2>1
<1>8. PICK f : IsFold(f) /\ runReclassificationPipeline(rules, v) = f[1 .. n]
  BY <1>1, <1>3, <1>7
<1>9. f[{}] = base /\ \A s \in SUBSET (1 .. n) : s # {} =>
                         f[s] = Tried(f[s \ {Max(s)}], rules[Max(s)])
  BY <1>1, <1>8
<1>10. PICK at : at = [k \in 0 .. n |-> f[1 .. k]]
  OBVIOUS
<1>11. at[0] = base
  <2>1. 1 .. 0 = {} /\ 0 \in 0 .. n
    BY <1>1
  <2>2. QED
    BY <1>9, <1>10, <2>1
<1>12. ASSUME NEW k \in 1 .. n PROVE at[k] = Tried(at[k - 1], rules[k])
  <2>1. k \in Nat /\ k # 0 /\ 1 .. k \in SUBSET (1 .. n) /\ k \in 0 .. n /\ k - 1 \in 0 .. n
    BY <1>1
  <2>2. Max(1 .. k) = k /\ (1 .. k) \ {k} = 1 .. k - 1 /\ 1 .. k # {}
    BY <2>1, FirstIndexes
  <2>3. f[1 .. k] = Tried(f[(1 .. k) \ {Max(1 .. k)}], rules[Max(1 .. k)])
    BY <1>9, <2>1, <2>2
  <2>4. f[1 .. k] = Tried(f[1 .. k - 1], rules[k])
    BY <2>2, <2>3
  <2>5. QED
    BY <1>10, <2>1, <2>4
<1>13. \A k \in 0 .. n : at[k] \in Outcome
  <2>1. PICK H : H = {k \in 0 .. n : at[k] \in Outcome}
    OBVIOUS
  <2>2. 0 \in H
    BY <1>1, <1>2, <1>11, <2>1
  <2>3. ASSUME NEW k \in 1 .. n, k - 1 \in H PROVE k \in H
    <3>1. at[k - 1] \in Outcome /\ k \in 0 .. n
      BY <2>1, <2>3
    <3>2. QED
      BY <1>1, <1>12, <2>1, <3>1, TriedType
  <2>4. \A k \in 0 .. n : k \in H
    BY <1>1, <2>2, <2>3, Rounds
  <2>5. QED
    BY <2>1, <2>4
<1>14. Tries(at, rules, v)
  BY <1>11, <1>12, <1>13 DEF Tries, base, n
<1>15. at[n] = f[1 .. n]
  BY <1>1, <1>10
<1>16. QED
  BY <1>8, <1>14, <1>15 DEF n

\* Without rules of the caller a verdict is what the classifier computed.
LEMMA NoReclassification ==
  ASSUME NEW v \in Verdicts
  PROVE  runReclassificationPipeline(<<>>, v) = Computed(v)
<1>1. <<>> \in Seq(Reclassification) /\ Len(<<>>) = 0
  OBVIOUS
<1>2. PICK rules : rules = <<>>
  OBVIOUS
<1>3. PICK at : Tries(at, rules, v) /\ at[Len(rules)] = runReclassificationPipeline(rules, v)
  BY <1>1, <1>2, PipelineTries
<1>4. QED
  BY <1>1, <1>2, <1>3 DEF Tries

-----------------------------------------------------------------------------
(***************************************************************************)
(* The invariant: a verdict is that of the pipeline, started with the slot *)
(* of the rule, and the differences made and left are those of the two     *)
(* schemas.                                                                *)
(***************************************************************************)
Start(x, c) == IF Slot(x, c) = Throws THEN "unclassified" ELSE Slot(x, c)

Result(x, c) == runReclassificationPipeline(x.reclassification, Start(x, c))

AsMade(c) ==
  /\ type[c] = Result(asked, c).type
  /\ errors[c] = Result(asked, c).errors + (IF Slot(asked, c) = Throws THEN 1 ELSE 0)

VerdictsInv ==
  /\ asked \in Input
  /\ \A c \in left \cup DOMAIN type : IsDifference(c)
  /\ DOMAIN errors = DOMAIN type /\ \A c \in DOMAIN type : AsMade(c)
  /\ \/ round = "adapt" /\ left = {} /\ DOMAIN type = {}
     \/ round = "classify" /\ left \cup DOMAIN type = Differences(Adapted(asked))

LEMMA DifferencesAre ==
  ASSUME NEW x, NEW c \in Differences(x)
  PROVE  IsDifference(c)
<1>1. \A b, a : Changed(b, a) \in Actions
  BY DEF Changed, Actions
<1>2. \A k, i, a : Difference(x, k, i, a).keyword = k /\ Difference(x, k, i, a).action = a
  BY DEF Difference
<1>3. {"add", "remove", "replace"} \subseteq Actions
  BY DEF Actions
<1>4. Simple \cup {"enum", "required", "properties", "default"} \subseteq Keywords
  BY DEF Keywords
<1>5. CASE c \in SimpleDifferences(x)
  BY <1>1, <1>2, <1>4, <1>5 DEF SimpleDifferences, IsDifference
<1>6. ASSUME NEW k \in {"enum", "required"}, c \in ItemDifferences(x, k) PROVE IsDifference(c)
  BY <1>2, <1>3, <1>4, <1>6 DEF ItemDifferences, IsDifference
<1>7. CASE c \in EnumDifferences(x)
  BY <1>1, <1>2, <1>4, <1>6, <1>7 DEF EnumDifferences, IsDifference
<1>8. CASE c \in PropertyDifferences(x)
  <2>1. PICK p : \/ c = Difference(x, "properties", p,
                                   Changed(x.before.properties[p], x.after.properties[p]))
                 \/ c = Difference(x, "default", p, "add")
                 \/ c = Difference(x, "default", p, "remove")
    BY <1>8 DEF PropertyDifferences
  <2>2. QED
    BY <1>1, <1>2, <1>3, <1>4, <2>1 DEF IsDifference
<1>9. QED
  BY <1>5, <1>6, <1>7, <1>8 DEF Differences

LEMMA InvInitially ==
  Init => VerdictsInv
<1> SUFFICES ASSUME Init PROVE VerdictsInv
  OBVIOUS
<1>1. DOMAIN type = {} /\ DOMAIN errors = {}
  BY DEF Init
<1>2. QED
  BY <1>1 DEF Init, VerdictsInv

LEMMA AdaptKeepsInv ==
  ASSUME VerdictsInv, Adapt
  PROVE  VerdictsInv'
<1>1. asked \in Input /\ DOMAIN type = {}
  BY DEF VerdictsInv, Adapt
<1>2. asked' = asked /\ type' = type /\ errors' = errors /\ round' = "classify"
  BY DEF Adapt
<1>3. left' = Differences(Adapted(asked))
  BY DEF Adapt
<1>4. \A c \in left' : IsDifference(c)
  BY <1>3, DifferencesAre
<1>5. DOMAIN errors = {}
  BY <1>1 DEF VerdictsInv
<1>6. QED
  BY <1>1, <1>2, <1>3, <1>4, <1>5 DEF VerdictsInv

LEMMA CreateDiffKeepsInv ==
  ASSUME VerdictsInv, NEW c \in left, CreateDiff(c)
  PROVE  VerdictsInv'
<1>1. asked \in Input /\ asked' = asked /\ round = "classify" /\ round' = round
  BY DEF VerdictsInv, CreateDiff
<1>2. /\ DOMAIN errors = DOMAIN type
      /\ left \cup DOMAIN type = Differences(Adapted(asked))
      /\ \A x \in left \cup DOMAIN type : IsDifference(x)
  BY <1>1 DEF VerdictsInv
<1>3. left' = left \ {c}
  BY DEF CreateDiff
<1>4. /\ type' = [x \in DOMAIN type \cup {c} |-> IF x = c THEN Result(asked, c).type ELSE type[x]]
      /\ errors' = [x \in DOMAIN errors \cup {c} |->
                      IF x = c THEN Result(asked, c).errors + (IF Slot(asked, c) = Throws THEN 1 ELSE 0)
                      ELSE errors[x]]
  BY DEF CreateDiff, Result, Start, Slot
<1>5. DOMAIN type' = DOMAIN type \cup {c} /\ DOMAIN errors' = DOMAIN errors \cup {c}
  BY <1>4
<1>6. ASSUME NEW x \in DOMAIN type' PROVE AsMade(x)'
  <2>1. CASE x = c
    <3>1. /\ type'[c] = Result(asked, c).type
          /\ errors'[c] = Result(asked, c).errors + (IF Slot(asked, c) = Throws THEN 1 ELSE 0)
      BY <1>4
    <3>2. QED
      BY <1>1, <2>1, <3>1 DEF AsMade
  <2>2. CASE x # c
    <3>1. x \in DOMAIN type /\ x \in DOMAIN errors
      BY <1>2, <1>5, <2>2
    <3>2. AsMade(x)
      BY <3>1 DEF VerdictsInv
    <3>3. type'[x] = type[x] /\ errors'[x] = errors[x]
      BY <1>4, <2>2, <3>1
    <3>4. QED
      BY <1>1, <3>2, <3>3 DEF AsMade
  <2>3. QED
    BY <2>1, <2>2
<1>7. left' \cup DOMAIN type' = left \cup DOMAIN type
  BY <1>3, <1>5
<1>8. QED
  BY <1>1, <1>2, <1>5, <1>6, <1>7 DEF VerdictsInv

(***************************************************************************)
(* The invariant of createDiff: at every time each verdict is the slot of  *)
(* its rule, handed down the pipeline, and each difference of the two      *)
(* schemas is made or left to be made.                                     *)
(***************************************************************************)
THEOREM VerdictsHold == Spec => []VerdictsInv
<1>1. VerdictsInv /\ [Next]_vars => VerdictsInv'
  <2> SUFFICES ASSUME VerdictsInv, [Next]_vars PROVE VerdictsInv'
    OBVIOUS
  <2>1. CASE Adapt
    BY <2>1, AdaptKeepsInv
  <2>2. ASSUME NEW c \in left, CreateDiff(c) PROVE VerdictsInv'
    BY <2>2, CreateDiffKeepsInv
  <2>3. CASE UNCHANGED vars
    BY <2>3 DEF vars, VerdictsInv, AsMade
  <2>4. QED
    BY <2>1, <2>2, <2>3 DEF Next
<1>2. QED
  BY InvInitially, <1>1, PTL DEF Spec

LEMMA StartIsVerdict ==
  ASSUME NEW x \in Input, NEW c, IsDifference(c)
  PROVE  Start(x, c) \in Verdicts
<1>1. Slot(x, c) \in Slots
  BY VerdictsAssumption, RuleTurned
<1>2. QED
  BY <1>1 DEF Start, Slots, Verdicts

(***************************************************************************)
(* The two reversals agree: a schema received has the verdicts of a        *)
(* response, a schema sent those of a request, for every rule of every     *)
(* keyword under any number of "not" (rules.ts:133-137).                   *)
(***************************************************************************)
THEOREM ReversedAlike == Spec => []ReversalsAgree
<1>1. VerdictsInv => ReversalsAgree
  <2> SUFFICES ASSUME VerdictsInv, asked.reclassification = <<>>, NEW c \in DOMAIN type,
                      NEW openApi,
                      openApi = [asked EXCEPT !.place =
                        IF asked.place \in {"receive", "response"} THEN "response" ELSE "request"]
               PROVE  type[c] = Start(openApi, c)
    BY DEF ReversalsAgree, Start, Slot
  <2>1. asked \in Input /\ IsComparison(asked) /\ IsDifference(c) /\ AsMade(c)
    BY VerdictsAssumption DEF VerdictsInv
  <2>2. /\ DOMAIN asked = {"before", "after", "place", "nots", "draft04", "crossing", "custom",
                           "reclassification"}
        /\ asked.place \in {"request", "response", "send", "receive"}
    BY <2>1 DEF IsComparison
  <2>3. /\ openApi.nots = asked.nots /\ openApi.draft04 = asked.draft04
        /\ openApi.custom = asked.custom
        /\ openApi.place = IF TurnedRound(asked) THEN "response" ELSE "request"
    BY <2>2 DEF TurnedRound
  <2>4. jsonSchemaRules(openApi, c) = jsonSchemaRules(asked, c)
    BY <2>3 DEF jsonSchemaRules
  <2>5. RuleOf(openApi, c) = IF TurnedRound(asked) THEN reverseClassifyRule(Straight(asked, c))
                             ELSE Straight(asked, c)
    <3>1. Straight(openApi, c) = Straight(asked, c)
      BY <2>3, <2>4 DEF Straight
    <3>2. CASE TurnedRound(asked)
      BY <2>3, <3>1, <3>2 DEF RuleOf, Straight
    <3>3. CASE ~TurnedRound(asked)
      BY <2>3, <3>1, <3>3 DEF RuleOf, Straight
    <3>4. QED
      BY <3>2, <3>3
  <2>6. Slot(openApi, c) = Slot(asked, c)
    BY <2>1, <2>5, RuleTurned DEF Slot
  <2>7. Start(openApi, c) = Start(asked, c)
    BY <2>6 DEF Start
  <2>8. type[c] = Start(asked, c)
    <3>1. Start(asked, c) \in Verdicts
      BY <2>1, StartIsVerdict
    <3>2. Result(asked, c) = Computed(Start(asked, c))
      BY <3>1, NoReclassification DEF Result
    <3>3. QED
      BY <2>1, <3>2 DEF AsMade, Computed
  <2>9. QED
    BY <2>7, <2>8
<1>2. QED
  BY VerdictsHold, <1>1, PTL

-----------------------------------------------------------------------------
(***************************************************************************)
(* Failing rules.                                                          *)
(***************************************************************************)
\* The rules, as if they declined where they throw.
Mute(rules) ==
  [n \in DOMAIN rules |-> [v \in Verdicts |-> IF rules[n][v] = Throws THEN None ELSE rules[n][v]]]

LEMMA MuteFollows ==
  ASSUME NEW rules \in Seq(Reclassification), NEW v \in Verdicts, NEW at, Tries(at, rules, v),
         NEW k \in 0 .. Len(rules)
  PROVE  runReclassificationPipeline(SubSeq(Mute(rules), 1, k), v).type = at[k].type
<1>1. PICK n : n = Len(rules)
  OBVIOUS
<1>2. n \in Nat /\ k \in Nat /\ k <= n /\ DOMAIN rules = 1 .. n
      /\ \A j \in 1 .. n : rules[j] \in Reclassification
  BY <1>1
<1>3. PICK mute : mute = Mute(rules)
  OBVIOUS
<1>4. DOMAIN mute = 1 .. n /\ mute = [j \in 1 .. n |-> mute[j]]
  BY <1>2, <1>3 DEF Mute
<1>5. ASSUME NEW j \in 1 .. n
      PROVE  /\ mute[j] \in Reclassification
             /\ \A u \in Verdicts : Left(mute[j], u) = Left(rules[j], u)
  <2>1. mute[j] = [u \in Verdicts |-> IF rules[j][u] = Throws THEN None ELSE rules[j][u]]
    BY <1>2, <1>3 DEF Mute
  <2>2. \A u \in Verdicts : rules[j][u] \in Slots \cup {None}
    BY <1>2 DEF Reclassification
  <2>3. mute[j] \in Reclassification
    BY <2>1, <2>2 DEF Reclassification
  <2>4. ASSUME NEW u \in Verdicts PROVE Left(mute[j], u) = Left(rules[j], u)
    <3>1. mute[j][u] = IF rules[j][u] = Throws THEN None ELSE rules[j][u]
      BY <2>1
    <3>2. QED
      BY <3>1 DEF Left
  <2>5. QED
    BY <2>3, <2>4
<1>6. mute \in Seq(Reclassification) /\ Len(mute) = n
  BY <1>2, <1>4, <1>5
<1>7. PICK part : part = SubSeq(mute, 1, k)
  OBVIOUS
<1>8. part \in Seq(Reclassification) /\ Len(part) = k /\ \A j \in 1 .. k : part[j] = mute[j]
  BY <1>2, <1>6, <1>7
<1>9. PICK bt : Tries(bt, part, v) /\ bt[Len(part)] = runReclassificationPipeline(part, v)
  BY <1>8, PipelineTries
<1>10. \A j \in 0 .. k : bt[j].type = at[j].type
  <2>1. PICK H : H = {j \in 0 .. k : bt[j].type = at[j].type}
    OBVIOUS
  <2>2. 0 \in H
    BY <1>2, <1>9, <2>1 DEF Tries
  <2>3. ASSUME NEW j \in 1 .. k, j - 1 \in H PROVE j \in H
    <3>1. j \in 1 .. n /\ j \in 0 .. k /\ j - 1 \in 0 .. n /\ j - 1 \in 0 .. k
      BY <1>2
    <3>2. bt[j] = Tried(bt[j - 1], part[j]) /\ at[j] = Tried(at[j - 1], rules[j])
          /\ at[j - 1] \in Outcome
      BY <1>1, <1>8, <1>9, <3>1 DEF Tries
    <3>3. bt[j - 1].type = at[j - 1].type /\ at[j - 1].type \in Verdicts
      BY <2>1, <2>3, <3>2 DEF Outcome
    <3>4. bt[j].type = Left(mute[j], bt[j - 1].type) /\ at[j].type = Left(rules[j], at[j - 1].type)
      BY <1>8, <3>2 DEF Tried
    <3>5. bt[j].type = at[j].type
      BY <1>5, <3>1, <3>3, <3>4
    <3>6. QED
      BY <2>1, <3>1, <3>5
  <2>4. \A j \in 0 .. k : j \in H
    BY <1>2, <2>2, <2>3, Rounds
  <2>5. QED
    BY <2>1, <2>4
<1>11. k \in 0 .. k /\ bt[k] = runReclassificationPipeline(part, v)
  BY <1>2, <1>8, <1>9
<1>12. QED
  BY <1>3, <1>7, <1>10, <1>11

\* The first k rules that throw on the verdicts they get.
Failed(rules, at, k) == {m \in 1 .. k : rules[m][at[m - 1].type] = Throws}

LEMMA FailuresCounted ==
  ASSUME NEW rules \in Seq(Reclassification), NEW v \in Verdicts, NEW at, Tries(at, rules, v)
  PROVE  at[Len(rules)].errors = Cardinality(Failed(rules, at, Len(rules)))
<1>1. PICK n : n = Len(rules)
  OBVIOUS
<1>2. n \in Nat
  BY <1>1
<1>3. PICK H : H = {k \in 0 .. n : /\ IsFiniteSet(Failed(rules, at, k))
                                   /\ at[k].errors = Cardinality(Failed(rules, at, k))}
  OBVIOUS
<1>4. 0 \in H
  <2>1. Failed(rules, at, 0) = {}
    BY DEF Failed
  <2>2. at[0].errors = 0 /\ 0 \in 0 .. n
    BY <1>2 DEF Tries, Computed
  <2>3. QED
    BY <1>3, <2>1, <2>2, FS_EmptySet
<1>5. ASSUME NEW k \in 1 .. n, k - 1 \in H PROVE k \in H
  <2>1. k \in 0 .. n /\ k \in Nat /\ k # 0 /\ k - 1 \in 0 .. n
    BY <1>2
  <2>2. at[k] = Tried(at[k - 1], rules[k]) /\ at[k - 1] \in Outcome
    BY <1>1, <2>1 DEF Tries
  <2>3. PICK S : S = Failed(rules, at, k - 1)
    OBVIOUS
  <2>4. IsFiniteSet(S) /\ at[k - 1].errors = Cardinality(S) /\ at[k - 1].errors \in Nat
    BY <1>3, <1>5, <2>2, <2>3 DEF Outcome
  <2>5. \A m : m \in 1 .. k <=> m \in 1 .. k - 1 \/ m = k
    BY <2>1
  <2>6. k \notin S
    BY <2>1, <2>3 DEF Failed
  <2>7. CASE rules[k][at[k - 1].type] = Throws
    <3>1. Failed(rules, at, k) = S \cup {k}
      BY <2>3, <2>5, <2>7 DEF Failed
    <3>2. at[k].errors = at[k - 1].errors + 1
      BY <2>2, <2>7 DEF Tried
    <3>3. IsFiniteSet(S \cup {k}) /\ Cardinality(S \cup {k}) = Cardinality(S) + 1
      BY <2>4, <2>6, FS_AddElement
    <3>4. QED
      BY <1>3, <2>1, <2>4, <3>1, <3>2, <3>3
  <2>8. CASE rules[k][at[k - 1].type] # Throws
    <3>1. Failed(rules, at, k) = S
      BY <2>3, <2>5, <2>8 DEF Failed
    <3>2. at[k].errors = at[k - 1].errors
      BY <2>2, <2>4, <2>8 DEF Tried
    <3>3. QED
      BY <1>3, <2>1, <2>4, <3>1, <3>2
  <2>9. QED
    BY <2>7, <2>8
<1>6. \A k \in 0 .. n : k \in H
  BY <1>2, <1>4, <1>5, Rounds
<1>7. n \in 0 .. n
  BY <1>2
<1>8. QED
  BY <1>1, <1>3, <1>6, <1>7

(***************************************************************************)
(* A classifier or a rule of the caller that fails is reported once and    *)
(* leaves the verdict where it was, whatever the other rules are, and      *)
(* however many of them (createDiff, diff.ts; types/compare.ts:172-173).   *)
(***************************************************************************)
THEOREM FailuresStayContained == Spec => []FailuresContained
<1>1. VerdictsInv => FailuresContained
  <2> DEFINE Muted(c, n) ==
               runReclassificationPipeline(SubSeq(Mute(asked.reclassification), 1, n), Start(asked, c)).type
  <2> SUFFICES ASSUME VerdictsInv, NEW c \in DOMAIN type
               PROVE  /\ type[c] = Muted(c, Len(asked.reclassification))
                      /\ errors[c] =
                           Cardinality({n \in DOMAIN asked.reclassification :
                              asked.reclassification[n][Muted(c, n - 1)] = Throws})
                             + (IF Slot(asked, c) = Throws THEN 1 ELSE 0)
    BY DEF FailuresContained, Start, Slot, Mute
  <2> HIDE DEF Muted
  <2>a. PICK rules : rules = asked.reclassification
    OBVIOUS
  <2>b. PICK v : v = Start(asked, c)
    OBVIOUS
  <2>c. \A k : Muted(c, k) = runReclassificationPipeline(SubSeq(Mute(rules), 1, k), v).type
    BY <2>a, <2>b DEF Muted
  <2>1. asked \in Input /\ IsComparison(asked) /\ IsDifference(c) /\ AsMade(c)
    BY VerdictsAssumption DEF VerdictsInv
  <2>2. rules \in Seq(Reclassification) /\ v \in Verdicts
    BY <2>1, <2>a, <2>b, StartIsVerdict DEF IsComparison, Reclassification
  <2>3. PICK at : Tries(at, rules, v) /\ at[Len(rules)] = runReclassificationPipeline(rules, v)
    BY <2>2, PipelineTries
  <2>4. PICK n : n = Len(rules)
    OBVIOUS
  <2>5. n \in Nat /\ DOMAIN rules = 1 .. n
    BY <2>2, <2>4
  <2>6. \A k \in 0 .. n : Muted(c, k) = at[k].type
    BY <2>2, <2>3, <2>4, <2>c, MuteFollows
  <2>7. type[c] = at[n].type
        /\ errors[c] = at[n].errors + (IF Slot(asked, c) = Throws THEN 1 ELSE 0)
    BY <2>1, <2>3, <2>4, <2>a, <2>b DEF AsMade, Result
  <2>8. {k \in DOMAIN rules : rules[k][Muted(c, k - 1)] = Throws} = Failed(rules, at, n)
    <3>1. \A k \in 1 .. n : k - 1 \in 0 .. n
      BY <2>5
    <3>2. \A k \in 1 .. n : Muted(c, k - 1) = at[k - 1].type
      BY <2>6, <3>1
    <3>3. QED
      BY <2>5, <3>2 DEF Failed
  <2>9. at[n].errors = Cardinality(Failed(rules, at, n))
    BY <2>2, <2>3, <2>4, FailuresCounted
  <2>10. n \in 0 .. n
    BY <2>5
  <2>11. QED
    BY <2>a, <2>4, <2>6, <2>7, <2>8, <2>9, <2>10
<1>2. QED
  BY VerdictsHold, <1>1, PTL

-----------------------------------------------------------------------------
(***************************************************************************)
(* Nothing that is lost goes unflagged.  First, what flags a loss: a       *)
(* difference whose verdict, or whose reverse verdict, is breaking or      *)
(* risky.                                                                  *)
(***************************************************************************)
Flagged == {"breaking", "risky"}

VerdictAt(x, reversed, c) ==
  IF reversed THEN reverseClassifyRule(jsonSchemaRules(x, c))[Index(c.action)]
  ELSE jsonSchemaRules(x, c)[Index(c.action)]

\* y: the two schemas, as adapted.
LossTold(x, y, reversed) == \E c \in Differences(y) : VerdictAt(x, reversed, c) \in Flagged

LEMMA ReversedSlot ==
  ASSUME NEW r
  PROVE  /\ reverseClassifyRule(r)[1] = IF r[4] # None THEN r[4] ELSE reverseDiffType(r[1])
         /\ reverseClassifyRule(r)[2] = IF r[5] # None THEN r[5] ELSE reverseDiffType(r[2])
         /\ reverseClassifyRule(r)[3] = IF r[6] # None THEN r[6] ELSE reverseDiffType(r[3])
<1> DEFINE S(n) == IF r[n + 3] # None THEN r[n + 3] ELSE reverseDiffType(r[n])
<1>1. reverseClassifyRule(r) = ThreeSlots(S(1), S(2), S(3))
  BY DEF reverseClassifyRule
<1>2. 1 + 3 = 4 /\ 2 + 3 = 5 /\ 3 + 3 = 6
  OBVIOUS
<1>3. /\ S(1) = IF r[4] # None THEN r[4] ELSE reverseDiffType(r[1])
      /\ S(2) = IF r[5] # None THEN r[5] ELSE reverseDiffType(r[2])
      /\ S(3) = IF r[6] # None THEN r[6] ELSE reverseDiffType(r[3])
  BY <1>2
<1> HIDE DEF S
<1>4. ThreeSlots(S(1), S(2), S(3))[1] = S(1) /\ ThreeSlots(S(1), S(2), S(3))[2] = S(2)
      /\ ThreeSlots(S(1), S(2), S(3))[3] = S(3)
  BY DEF ThreeSlots
<1>5. QED
  BY <1>1, <1>3, <1>4

\* The difference of a keyword with a value that is not an array.
OfKeyword(y, k) == Difference(y, k, None, Changed(y.before[k], y.after[k]))

LEMMA KeywordDifference ==
  ASSUME NEW y, NEW k \in Simple, y.before[k] # y.after[k], NEW c, c = OfKeyword(y, k)
  PROVE  /\ c \in Differences(y) /\ c.keyword = k /\ c.before = y.before /\ c.after = y.after
         /\ y.before[k] = None => Index(c.action) = 1
         /\ y.after[k] = None => Index(c.action) = 2
         /\ y.before[k] # None /\ y.after[k] # None => Index(c.action) = 3
<1>1. c \in SimpleDifferences(y)
  BY DEF SimpleDifferences, OfKeyword
<1>2. c = [keyword |-> k, item |-> None, action |-> Changed(y.before[k], y.after[k]),
           before |-> y.before, after |-> y.after]
  BY DEF OfKeyword, Difference
<1>3. QED
  BY <1>1, <1>2 DEF Differences, Changed, Index

LEMMA BoundRules ==
  ASSUME NEW x, NEW c, NEW side \in {lower, upper}
  PROVE  /\ side.low \in BOOLEAN /\ side.inclusive \in Simple /\ side.exclusive \in Simple
         /\ side.inclusive # side.exclusive
         /\ c.keyword = side.inclusive /\ x.draft04 => jsonSchemaRules(x, c) = numericClassifier(c, side)
         /\ c.keyword = side.exclusive /\ x.draft04 => jsonSchemaRules(x, c) = exclusiveBooleanClassifier(c)
         /\ c.keyword \in {side.inclusive, side.exclusive} /\ ~x.draft04
              => jsonSchemaRules(x, c) = effectiveBoundClassifier(c, side)
<1>1. CASE side = lower
  <2>1. side.low = TRUE /\ side.inclusive = "minimum" /\ side.exclusive = "exclusiveMinimum"
    BY <1>1 DEF lower
  <2>2. Side("minimum") = side /\ Side("exclusiveMinimum") = side
    BY <1>1 DEF Side
  <2>3. QED
    BY <2>1, <2>2 DEF jsonSchemaRules, Simple
<1>2. CASE side = upper
  <2>1. side.low = FALSE /\ side.inclusive = "maximum" /\ side.exclusive = "exclusiveMaximum"
    BY <1>2 DEF upper
  <2>2. Side("maximum") = side /\ Side("exclusiveMaximum") = side
    BY <1>2 DEF Side
  <2>3. QED
    BY <2>1, <2>2 DEF jsonSchemaRules, Simple
<1>3. QED
  BY <1>1, <1>2

(***************************************************************************)
(* Bounds with flags.                                                      *)
(***************************************************************************)
FlagBounds(s, side) ==
  s[side.inclusive] \in Int \cup {None} /\ s[side.exclusive] \in {None, true, false}

LEMMA FlagBoundTightened ==
  ASSUME NEW x, x.draft04, NEW y, NEW side \in {lower, upper}, NEW n \in Int,
         FlagBounds(y.before, side), FlagBounds(y.after, side),
         WithinBound(y.before, TRUE, side, n), ~WithinBound(y.after, TRUE, side, n)
  PROVE  LossTold(x, y, FALSE)
<1>1. PICK p, q, e, f : /\ p = y.before[side.inclusive] /\ q = y.after[side.inclusive]
                        /\ e = y.before[side.exclusive] /\ f = y.after[side.exclusive]
  OBVIOUS
<1>2. side.low \in BOOLEAN /\ side.inclusive \in Simple /\ side.exclusive \in Simple
  BY BoundRules
<1>3. /\ q \in Int /\ q # None /\ ~(Stricter(side, n, 2 * q) \/ (n = 2 * q /\ f # true))
      /\ p = None \/ (p \in Int /\ (Stricter(side, n, 2 * p) \/ (n = 2 * p /\ e # true)))
      /\ e \in {None, true, false} /\ f \in {None, true, false}
  BY <1>1 DEF WithinBound, FlagBounds
<1>4. CASE p # q
  <2>1. PICK c : c = OfKeyword(y, side.inclusive)
    OBVIOUS
  <2>2. /\ c \in Differences(y) /\ c.keyword = side.inclusive
        /\ c.before = y.before /\ c.after = y.after
        /\ Index(c.action) = IF p = None THEN 1 ELSE 3
    BY <1>1, <1>2, <1>3, <1>4, <2>1, KeywordDifference
  <2>3. jsonSchemaRules(x, c) = numericClassifier(c, side)
    BY <2>2, BoundRules
  <2>4. p # None => Stricter(side, q, p)
    BY <1>2, <1>3, <1>4 DEF Stricter
  <2>5. /\ numericClassifier(c, side)[1] = "breaking"
        /\ p # None => numericClassifier(c, side)[3] = "breaking"
    BY <1>1, <2>2, <2>4 DEF numericClassifier, breakingIf
  <2>6. VerdictAt(x, FALSE, c) \in Flagged
    BY <2>2, <2>3, <2>5 DEF VerdictAt, Flagged
  <2>7. QED
    BY <2>2, <2>6 DEF LossTold
<1>5. CASE p = q
  <2>1. f = true /\ e # true
    BY <1>2, <1>3, <1>5 DEF Stricter
  <2>2. f # None /\ e # f
    BY <2>1, SchemaRulesAssumption
  <2>3. PICK c : c = OfKeyword(y, side.exclusive)
    OBVIOUS
  <2>4. /\ c \in Differences(y) /\ c.keyword = side.exclusive
        /\ c.before = y.before /\ c.after = y.after
        /\ Index(c.action) = IF e = None THEN 1 ELSE 3
    BY <1>1, <1>2, <2>2, <2>3, KeywordDifference
  <2>5. jsonSchemaRules(x, c) = exclusiveBooleanClassifier(c)
    BY <2>4, BoundRules
  <2>6. exclusiveBooleanClassifier(c)[1] = "breaking" /\ exclusiveBooleanClassifier(c)[3] = "breaking"
    BY <1>1, <2>1, <2>4 DEF exclusiveBooleanClassifier, breakingIf
  <2>7. VerdictAt(x, FALSE, c) \in Flagged
    BY <2>4, <2>5, <2>6 DEF VerdictAt, Flagged
  <2>8. QED
    BY <2>4, <2>7 DEF LossTold
<1>6. QED
  BY <1>4, <1>5

LEMMA FlagBoundLoosened ==
  ASSUME NEW x, x.draft04, NEW y, NEW side \in {lower, upper}, NEW n \in Int,
         FlagBounds(y.before, side), FlagBounds(y.after, side),
         WithinBound(y.after, TRUE, side, n), ~WithinBound(y.before, TRUE, side, n)
  PROVE  LossTold(x, y, TRUE)
<1>1. PICK p, q, e, f : /\ p = y.before[side.inclusive] /\ q = y.after[side.inclusive]
                        /\ e = y.before[side.exclusive] /\ f = y.after[side.exclusive]
  OBVIOUS
<1>2. side.low \in BOOLEAN /\ side.inclusive \in Simple /\ side.exclusive \in Simple
  BY BoundRules
<1>3. /\ p \in Int /\ p # None /\ ~(Stricter(side, n, 2 * p) \/ (n = 2 * p /\ e # true))
      /\ q = None \/ (q \in Int /\ (Stricter(side, n, 2 * q) \/ (n = 2 * q /\ f # true)))
      /\ e \in {None, true, false} /\ f \in {None, true, false}
  BY <1>1 DEF WithinBound, FlagBounds
<1>4. None # "risky"
  BY RulesAssumption DEF Slots, Verdicts
<1>5. CASE p # q
  <2>1. PICK c : c = OfKeyword(y, side.inclusive)
    OBVIOUS
  <2>2. /\ c \in Differences(y) /\ c.keyword = side.inclusive
        /\ c.before = y.before /\ c.after = y.after
        /\ Index(c.action) = IF q = None THEN 2 ELSE 3
    BY <1>1, <1>2, <1>3, <1>5, <2>1, KeywordDifference
  <2>3. jsonSchemaRules(x, c) = numericClassifier(c, side)
    BY <2>2, BoundRules
  <2>4. q # None => Stricter(side, p, q)
    BY <1>2, <1>3, <1>5 DEF Stricter
  <2>5. /\ numericClassifier(c, side)[5] = "risky"
        /\ q # None => numericClassifier(c, side)[6] = "risky"
    BY <1>1, <2>2, <2>4 DEF numericClassifier, riskyIf
  <2>6. VerdictAt(x, TRUE, c) \in Flagged
    BY <1>4, <2>2, <2>3, <2>5, ReversedSlot DEF VerdictAt, Flagged
  <2>7. QED
    BY <2>2, <2>6 DEF LossTold
<1>6. CASE p = q
  <2>1. e = true /\ f # true
    BY <1>2, <1>3, <1>6 DEF Stricter
  <2>2. e # None /\ e # f
    BY <2>1, SchemaRulesAssumption
  <2>3. PICK c : c = OfKeyword(y, side.exclusive)
    OBVIOUS
  <2>4. /\ c \in Differences(y) /\ c.keyword = side.exclusive
        /\ c.before = y.before /\ c.after = y.after
        /\ Index(c.action) = IF f = None THEN 2 ELSE 3
    BY <1>1, <1>2, <2>2, <2>3, KeywordDifference
  <2>5. jsonSchemaRules(x, c) = exclusiveBooleanClassifier(c)
    BY <2>4, BoundRules
  <2>6. /\ exclusiveBooleanClassifier(c)[5] = "risky"
        /\ f # None => exclusiveBooleanClassifier(c)[6] = "risky"
    BY <1>1, <1>3, <2>1, <2>4 DEF exclusiveBooleanClassifier
  <2>7. VerdictAt(x, TRUE, c) \in Flagged
    BY <1>4, <2>4, <2>5, <2>6, ReversedSlot DEF VerdictAt, Flagged
  <2>8. QED
    BY <2>4, <2>7 DEF LossTold
<1>7. QED
  BY <1>5, <1>6

(***************************************************************************)
(* Bounds of their own, one a side.                                        *)
(***************************************************************************)
NumberBounds(s, side) ==
  /\ {s[side.inclusive], s[side.exclusive]} \subseteq Int \cup {None}
  /\ None \in {s[side.inclusive], s[side.exclusive]}

Inside(b, side, n) ==
  b = None \/ Stricter(side, n, 2 * b.value) \/ (n = 2 * b.value /\ ~b.exclusive)

\* b says of schema s what its bound is.
BoundOf(b, s, side) ==
  /\ b = None => s[side.inclusive] = None /\ s[side.exclusive] = None
  /\ b # None => /\ b \in Bound(side) /\ s[b.property] = b.value
                 /\ b.exclusive <=> b.property = side.exclusive
                 /\ \A k \in {side.inclusive, side.exclusive} : k # b.property => s[k] = None

LEMMA EffectiveBoundIs ==
  ASSUME NEW side \in {lower, upper}, NEW s, NumberBounds(s, side), NEW b, b = EffectiveBound(s, side)
  PROVE  /\ BoundOf(b, s, side)
         /\ \A n \in Int : WithinBound(s, FALSE, side, n) <=> Inside(b, side, n)
<1>1. PICK m, x : m = s[side.inclusive] /\ x = s[side.exclusive]
  OBVIOUS
<1>2. /\ m \in Int \cup {None} /\ x \in Int \cup {None} /\ (m = None \/ x = None)
      /\ side.inclusive # side.exclusive /\ None \notin Int /\ None \notin Bound(side)
  BY <1>1, BoundRules, SchemaRulesAssumption DEF NumberBounds
<1>3. CASE m = None /\ x = None
  BY <1>1, <1>3 DEF EffectiveBound, WithinBound, Inside, BoundOf
<1>4. CASE m = None /\ x # None
  <2>1. b = [property |-> side.exclusive, value |-> x, exclusive |-> TRUE]
    BY <1>1, <1>4 DEF EffectiveBound
  <2>2. b \in Bound(side)
    BY <1>2, <1>4, <2>1 DEF Bound
  <2>3. b # None
    BY <1>2, <2>2
  <2>4. \A n \in Int : WithinBound(s, FALSE, side, n) <=> Inside(b, side, n)
    BY <1>1, <1>4, <2>1, <2>3 DEF WithinBound, Inside
  <2>5. BoundOf(b, s, side)
    <3>1. b.property = side.exclusive /\ b.value = x /\ b.exclusive = TRUE
      BY <2>1
    <3>2. \A k \in {side.inclusive, side.exclusive} : k # b.property => s[k] = None
      BY <1>1, <1>4, <3>1
    <3>3. QED
      BY <1>1, <2>2, <2>3, <3>1, <3>2 DEF BoundOf
  <2>6. QED
    BY <2>4, <2>5
<1>5. CASE m # None /\ x = None
  <2>1. b = [property |-> side.inclusive, value |-> m, exclusive |-> FALSE]
    BY <1>1, <1>5 DEF EffectiveBound
  <2>2. b \in Bound(side)
    BY <1>2, <1>5, <2>1 DEF Bound
  <2>3. b # None
    BY <1>2, <2>2
  <2>4. \A n \in Int : WithinBound(s, FALSE, side, n) <=> Inside(b, side, n)
    BY <1>1, <1>5, <2>1, <2>3 DEF WithinBound, Inside
  <2>5. BoundOf(b, s, side)
    <3>1. b.property = side.inclusive /\ b.value = m /\ b.exclusive = FALSE
      BY <2>1
    <3>2. \A k \in {side.inclusive, side.exclusive} : k # b.property => s[k] = None
      BY <1>1, <1>5, <3>1
    <3>3. QED
      BY <1>1, <1>2, <2>2, <2>3, <3>1, <3>2 DEF BoundOf
  <2>6. QED
    BY <2>4, <2>5
<1>6. QED
  BY <1>2, <1>3, <1>4, <1>5

\* A bound that became another one is told under the name of its keyword.
TellsBound(c, x, y, side, k) ==
  /\ c \in Differences(y) /\ c.keyword = k /\ c.before = y.before /\ c.after = y.after
  /\ VerdictAt(x, FALSE, c) = classifyByEffectiveBound(c, side, "breaking", "nonBreaking")
  /\ VerdictAt(x, TRUE, c) = classifyByEffectiveBound(c, side, "nonBreaking", "risky")

LEMMA BoundDifference ==
  ASSUME NEW x, ~x.draft04, NEW y, NEW side \in {lower, upper},
         NEW k \in {side.inclusive, side.exclusive}, y.before[k] # y.after[k],
         NEW c, c = OfKeyword(y, k)
  PROVE  TellsBound(c, x, y, side, k)
<1>1. k \in Simple
  BY BoundRules
<1>2. /\ c \in Differences(y) /\ c.keyword = k /\ c.before = y.before /\ c.after = y.after
      /\ Index(c.action) = 1 \/ Index(c.action) = 2 \/ Index(c.action) = 3
  BY <1>1, KeywordDifference
<1>3. jsonSchemaRules(x, c) = effectiveBoundClassifier(c, side)
  BY <1>2, BoundRules
<1>4. PICK q, p : /\ q = classifyByEffectiveBound(c, side, "breaking", "nonBreaking")
                  /\ p = classifyByEffectiveBound(c, side, "nonBreaking", "risky")
  OBVIOUS
<1>5. effectiveBoundClassifier(c, side) = <<q, q, q, p, p, p>>
  BY <1>4 DEF effectiveBoundClassifier
<1>6. VerdictAt(x, FALSE, c) = q
  BY <1>2, <1>3, <1>5 DEF VerdictAt
<1>7. p # None
  <2>1. p \in {"nonBreaking", "risky"}
    BY <1>4 DEF classifyByEffectiveBound
  <2>2. QED
    BY <2>1, RulesAssumption DEF Slots, Verdicts
<1>8. VerdictAt(x, TRUE, c) = p
  BY <1>2, <1>3, <1>5, <1>7, ReversedSlot DEF VerdictAt
<1>9. QED
  BY <1>2, <1>4, <1>6, <1>8 DEF TellsBound

LEMMA BoundTightened ==
  ASSUME NEW x, ~x.draft04, NEW y, NEW side \in {lower, upper}, NEW n \in Int,
         NumberBounds(y.before, side), NumberBounds(y.after, side),
         WithinBound(y.before, FALSE, side, n), ~WithinBound(y.after, FALSE, side, n)
  PROVE  LossTold(x, y, FALSE)
<1>1. PICK b, a : b = EffectiveBound(y.before, side) /\ a = EffectiveBound(y.after, side)
  OBVIOUS
<1>2. Inside(b, side, n) /\ ~Inside(a, side, n)
  BY <1>1, EffectiveBoundIs
<1>3. a # None
  BY <1>2 DEF Inside
<1>a. BoundOf(b, y.before, side) /\ BoundOf(a, y.after, side)
  BY <1>1, EffectiveBoundIs
<1>4. /\ a \in Bound(side) /\ y.after[a.property] = a.value
      /\ a.exclusive <=> a.property = side.exclusive
  BY <1>3, <1>a DEF BoundOf
<1>5. b = None \/ b \in Bound(side)
  BY <1>a DEF BoundOf
<1>6. side.low \in BOOLEAN /\ None \notin Int
  BY BoundRules, SchemaRulesAssumption
<1>7. b # None => IsAfterStricter(side, b, a)
  BY <1>2, <1>3, <1>4, <1>5, <1>6 DEF Inside, IsAfterStricter, Stricter, Bound
<1>8. b # None => ~(b.value = a.value /\ b.exclusive = a.exclusive)
  BY <1>2, <1>3 DEF Inside
<1>9. y.before[a.property] # y.after[a.property]
  <2>1. CASE b = None
    <3>1. y.before[side.inclusive] = None /\ y.before[side.exclusive] = None
      BY <1>a, <2>1 DEF BoundOf
    <3>2. QED
      BY <1>4, <1>6, <3>1 DEF Bound
  <2>2. CASE b # None
    <3>1. /\ b \in Bound(side) /\ y.before[b.property] = b.value
          /\ b.exclusive <=> b.property = side.exclusive
          /\ \A k \in {side.inclusive, side.exclusive} : k # b.property => y.before[k] = None
      BY <1>a, <2>2 DEF BoundOf
    <3>2. CASE a.property = b.property
      BY <1>4, <1>8, <2>2, <3>1, <3>2 DEF Bound
    <3>3. CASE a.property # b.property
      BY <1>4, <1>6, <3>1, <3>3 DEF Bound
    <3>4. QED
      BY <3>2, <3>3
  <2>3. QED
    BY <2>1, <2>2
<1>10. PICK c : c = OfKeyword(y, a.property)
  OBVIOUS
<1>11. TellsBound(c, x, y, side, a.property)
  <2>1. a.property \in {side.inclusive, side.exclusive}
    BY <1>4 DEF Bound
  <2>2. QED
    BY <1>9, <1>10, <2>1, BoundDifference
<1>12. classifyByEffectiveBound(c, side, "breaking", "nonBreaking") = "breaking"
  BY <1>1, <1>3, <1>7, <1>8, <1>11 DEF classifyByEffectiveBound, TellsBound
<1>13. QED
  BY <1>11, <1>12 DEF LossTold, Flagged, TellsBound

LEMMA BoundLoosened ==
  ASSUME NEW x, ~x.draft04, NEW y, NEW side \in {lower, upper}, NEW n \in Int,
         NumberBounds(y.before, side), NumberBounds(y.after, side),
         WithinBound(y.after, FALSE, side, n), ~WithinBound(y.before, FALSE, side, n)
  PROVE  LossTold(x, y, TRUE)
<1>1. PICK b, a : b = EffectiveBound(y.before, side) /\ a = EffectiveBound(y.after, side)
  OBVIOUS
<1>2. Inside(a, side, n) /\ ~Inside(b, side, n)
  BY <1>1, EffectiveBoundIs
<1>3. b # None
  BY <1>2 DEF Inside
<1>a. BoundOf(b, y.before, side) /\ BoundOf(a, y.after, side)
  BY <1>1, EffectiveBoundIs
<1>4. /\ b \in Bound(side) /\ y.before[b.property] = b.value
      /\ b.exclusive <=> b.property = side.exclusive
      /\ \A k \in {side.inclusive, side.exclusive} : k # b.property => y.before[k] = None
  BY <1>3, <1>a DEF BoundOf
<1>5. side.low \in BOOLEAN /\ None \notin Int
  BY BoundRules, SchemaRulesAssumption
<1>6. CASE a = None
  <2>1. y.after[side.inclusive] = None /\ y.after[side.exclusive] = None
    BY <1>6, <1>a DEF BoundOf
  <2>2. y.before[b.property] # y.after[b.property] /\ b.property \in {side.inclusive, side.exclusive}
    BY <1>4, <1>5, <2>1 DEF Bound
  <2>3. PICK c : c = OfKeyword(y, b.property)
    OBVIOUS
  <2>4. TellsBound(c, x, y, side, b.property)
    BY <2>2, <2>3, BoundDifference
  <2>5. classifyByEffectiveBound(c, side, "nonBreaking", "risky") = "risky"
    BY <1>1, <1>3, <1>6, <2>4 DEF classifyByEffectiveBound, TellsBound
  <2>6. QED
    BY <2>4, <2>5 DEF LossTold, Flagged, TellsBound
<1>7. CASE a # None
  <2>1. /\ a \in Bound(side) /\ y.after[a.property] = a.value
        /\ a.exclusive <=> a.property = side.exclusive
    BY <1>7, <1>a DEF BoundOf
  <2>2. ~IsAfterStricter(side, b, a) /\ ~(b.value = a.value /\ b.exclusive = a.exclusive)
    BY <1>2, <1>3, <1>4, <1>5, <1>7, <2>1 DEF Inside, IsAfterStricter, Stricter, Bound
  <2>3. y.before[a.property] # y.after[a.property] /\ a.property \in {side.inclusive, side.exclusive}
    <3>1. CASE a.property = b.property
      BY <1>4, <2>1, <2>2, <3>1 DEF Bound
    <3>2. CASE a.property # b.property
      BY <1>4, <1>5, <2>1, <3>2 DEF Bound
    <3>3. QED
      BY <3>1, <3>2
  <2>4. PICK c : c = OfKeyword(y, a.property)
    OBVIOUS
  <2>5. TellsBound(c, x, y, side, a.property)
    BY <2>3, <2>4, BoundDifference
  <2>6. classifyByEffectiveBound(c, side, "nonBreaking", "risky") = "risky"
    BY <1>1, <1>3, <1>7, <2>2, <2>5 DEF classifyByEffectiveBound, TellsBound
  <2>7. QED
    BY <2>5, <2>6 DEF LossTold, Flagged, TellsBound
<1>8. QED
  BY <1>6, <1>7

(***************************************************************************)
(* Adapting flags to bounds of their own changes no value that is within.  *)
(***************************************************************************)
AdaptsSide(u, s, side) ==
  /\ DOMAIN u = DOMAIN s
  /\ \A k \in DOMAIN s : k \notin {side.inclusive, side.exclusive} => u[k] = s[k]
  /\ NumberBounds(u, side)
  /\ \A n \in Int : WithinBound(u, FALSE, side, n) <=> WithinBound(s, TRUE, side, n)

LEMMA SideAdapted ==
  ASSUME NEW side \in {lower, upper}, NEW s, Simple \subseteq DOMAIN s, FlagBounds(s, side),
         NEW u, u = adaptBooleanExclusiveBound(s, side)
  PROVE  AdaptsSide(u, s, side)
<1>1. PICK m, x : m = s[side.inclusive] /\ x = s[side.exclusive]
  OBVIOUS
<1>2. /\ side.low \in BOOLEAN /\ {side.inclusive, side.exclusive} \subseteq DOMAIN s
      /\ side.inclusive # side.exclusive /\ None \notin Int
      /\ m \in Int \cup {None} /\ x \in {None, true, false}
  BY <1>1, BoundRules, SchemaRulesAssumption DEF FlagBounds
<1>3. CASE x = true /\ m # None
  <2>1. u = [s EXCEPT ![side.exclusive] = m, ![side.inclusive] = None]
    BY <1>1, <1>3 DEF adaptBooleanExclusiveBound
  <2>2. /\ DOMAIN u = DOMAIN s /\ u[side.exclusive] = m /\ u[side.inclusive] = None
        /\ \A k \in DOMAIN s : k \notin {side.inclusive, side.exclusive} => u[k] = s[k]
    BY <1>2, <2>1
  <2>3. NumberBounds(u, side)
    BY <1>2, <2>2 DEF NumberBounds
  <2>4. \A n \in Int : WithinBound(u, FALSE, side, n) <=> WithinBound(s, TRUE, side, n)
    BY <1>1, <1>2, <1>3, <2>2 DEF WithinBound
  <2>5. QED
    BY <2>2, <2>3, <2>4 DEF AdaptsSide
<1>4. CASE ~(x = true /\ m # None)
  <2>1. u = [s EXCEPT ![side.exclusive] = None]
    BY <1>1, <1>4 DEF adaptBooleanExclusiveBound
  <2>2. /\ DOMAIN u = DOMAIN s /\ u[side.exclusive] = None /\ u[side.inclusive] = m
        /\ \A k \in DOMAIN s : k \notin {side.inclusive, side.exclusive} => u[k] = s[k]
    BY <1>1, <1>2, <2>1
  <2>3. NumberBounds(u, side)
    BY <1>2, <2>2 DEF NumberBounds
  <2>4. \A n \in Int : WithinBound(u, FALSE, side, n) <=> WithinBound(s, TRUE, side, n)
    BY <1>1, <1>2, <1>4, <2>2 DEF WithinBound
  <2>5. QED
    BY <2>2, <2>3, <2>4 DEF AdaptsSide
<1>5. QED
  BY <1>3, <1>4

\* What the comparison of the adapted schemas says of the given ones.
AdaptsBounds(x, y) ==
  /\ y.after = x.after
  /\ \A k \in (Simple \cup {"enum", "required", "properties"}) \ BoundKeys : y.before[k] = x.before[k]
  /\ \A side \in {lower, upper} :
        /\ x.draft04 => y.before = x.before /\ FlagBounds(x.before, side) /\ FlagBounds(x.after, side)
        /\ ~x.draft04 =>
             /\ NumberBounds(y.before, side) /\ NumberBounds(y.after, side)
             /\ \A n \in Int : WithinBound(y.before, FALSE, side, n)
                                 <=> WithinBound(x.before, x.crossing, side, n)

LEMMA InputAdapted ==
  ASSUME NEW x, IsComparison(x), BoundsUnified(x), NEW y, y = Adapted(x)
  PROVE  AdaptsBounds(x, y)
<1> DEFINE s == x.before
           Keys == Simple \cup {"enum", "required", "properties"}
<1>1. /\ DOMAIN x = {"before", "after", "place", "nots", "draft04", "crossing", "custom",
                     "reclassification"}
      /\ DOMAIN s = Keys /\ x.draft04 \in BOOLEAN /\ x.crossing \in BOOLEAN
      /\ ~(x.draft04 /\ x.crossing)
      /\ IsSchema(s, x.draft04 \/ x.crossing) /\ IsSchema(x.after, x.draft04)
  BY DEF IsComparison
<1>2. ASSUME NEW t, IsSchema(t, TRUE) PROVE FlagBounds(t, lower) /\ FlagBounds(t, upper)
  BY <1>2 DEF IsSchema, FlagBounds, lower, upper
<1>3. ASSUME NEW t, IsSchema(t, FALSE), Unified(t)
      PROVE  NumberBounds(t, lower) /\ NumberBounds(t, upper)
  BY <1>3 DEF IsSchema, Unified, NumberBounds, lower, upper
<1>4. CASE x.draft04
  <2>1. y = x
    BY <1>1, <1>4 DEF Adapted
  <2>2. FlagBounds(x.before, lower) /\ FlagBounds(x.before, upper)
        /\ FlagBounds(x.after, lower) /\ FlagBounds(x.after, upper)
    BY <1>1, <1>2, <1>4
  <2>3. QED
    BY <1>4, <2>1, <2>2 DEF AdaptsBounds
<1>5. CASE ~x.draft04 /\ ~x.crossing
  <2>1. y = x
    BY <1>1, <1>5 DEF Adapted
  <2>2. Unified(x.before) /\ Unified(x.after)
    BY <1>5 DEF BoundsUnified
  <2>3. NumberBounds(x.before, lower) /\ NumberBounds(x.before, upper)
        /\ NumberBounds(x.after, lower) /\ NumberBounds(x.after, upper)
    BY <1>1, <1>3, <1>5, <2>2
  <2>4. x.crossing = FALSE
    BY <1>1, <1>5
  <2>5. QED
    BY <1>5, <2>1, <2>3, <2>4 DEF AdaptsBounds
<1>6. CASE x.crossing
  <2>1. ~x.draft04 /\ Unified(x.after) /\ NumberBounds(x.after, lower) /\ NumberBounds(x.after, upper)
    BY <1>1, <1>3, <1>6 DEF BoundsUnified
  <2>2. PICK u : u = adaptBooleanExclusiveBound(s, lower)
    OBVIOUS
  <2>3. PICK w : w = adaptBooleanExclusiveBound(u, upper)
    OBVIOUS
  <2>4. y.before = w /\ y.after = x.after
    BY <1>1, <1>6, <2>2, <2>3 DEF Adapted, booleanExclusiveBoundsOas30to31Adapter
  <2>5. FlagBounds(s, lower) /\ FlagBounds(s, upper) /\ Simple \subseteq DOMAIN s
    BY <1>1, <1>2, <1>6
  <2>6. AdaptsSide(u, s, lower)
    BY <2>2, <2>5, SideAdapted
  <2>7. /\ DOMAIN u = Keys /\ u["maximum"] = s["maximum"]
        /\ u["exclusiveMaximum"] = s["exclusiveMaximum"]
    BY <1>1, <2>6 DEF AdaptsSide, lower, Simple
  <2>8. FlagBounds(u, upper) /\ Simple \subseteq DOMAIN u
    BY <2>5, <2>7 DEF FlagBounds, upper
  <2>9. AdaptsSide(w, u, upper)
    BY <2>3, <2>8, SideAdapted
  <2>10. \A k \in Keys \ BoundKeys : w[k] = s[k]
    BY <1>1, <2>6, <2>7, <2>9 DEF AdaptsSide, lower, upper, BoundKeys
  <2>11. w["minimum"] = u["minimum"] /\ w["exclusiveMinimum"] = u["exclusiveMinimum"]
    BY <2>7, <2>9 DEF AdaptsSide, upper, Simple
  <2>12. NumberBounds(w, lower) /\ NumberBounds(w, upper)
    BY <2>6, <2>9, <2>11 DEF AdaptsSide, NumberBounds, lower
  <2>13. ASSUME NEW n \in Int
         PROVE  /\ WithinBound(w, FALSE, lower, n) <=> WithinBound(s, TRUE, lower, n)
                /\ WithinBound(w, FALSE, upper, n) <=> WithinBound(s, TRUE, upper, n)
    <3>1. WithinBound(w, FALSE, lower, n) <=> WithinBound(u, FALSE, lower, n)
      BY <2>11 DEF WithinBound, lower
    <3>2. WithinBound(u, TRUE, upper, n) <=> WithinBound(s, TRUE, upper, n)
      BY <2>7 DEF WithinBound, upper
    <3>3. QED
      BY <2>6, <2>9, <3>1, <3>2 DEF AdaptsSide
  <2>14. x.crossing = TRUE
    BY <1>1, <1>6
  <2>15. QED
    BY <2>1, <2>4, <2>10, <2>12, <2>13, <2>14 DEF AdaptsBounds
<1>7. QED
  BY <1>1, <1>4, <1>5, <1>6

(***************************************************************************)
(* The other keywords, one after the other.                                *)
(***************************************************************************)
LEMMA InstanceType ==
  ASSUME NEW i \in Instance
  PROVE  /\ i.kind \in {"number", "string", "object"}
         /\ i.kind \in {"number", "string"} => i.value \in Int
         /\ i.kind = "object" => i.value \subseteq Property
  BY SchemaRulesAssumption DEF Instance

LEMMA TypeLost ==
  ASSUME NEW x, NEW y, NEW i \in Instance
  PROVE  /\ OfType(y.before, i) /\ ~OfType(y.after, i) => LossTold(x, y, FALSE)
         /\ OfType(y.after, i) /\ ~OfType(y.before, i) => LossTold(x, y, TRUE)
<1>1. PICK b, a : b = y.before.type /\ a = y.after.type
  OBVIOUS
<1>2. PICK c : c = OfKeyword(y, "type")
  OBVIOUS
<1>3. jsonSchemaRules(x, c) = typeClassifier(c) /\ "type" \in Simple /\ None # "breaking"
  <2>1. c.keyword = "type"
    BY <1>2 DEF OfKeyword, Difference
  <2>2. QED
    BY <2>1, RulesAssumption DEF jsonSchemaRules, Simple, Slots, Verdicts
<1>4. b # a => /\ c \in Differences(y) /\ c.before = y.before /\ c.after = y.after
               /\ b = None => Index(c.action) = 1
               /\ a = None => Index(c.action) = 2
               /\ b # None /\ a # None => Index(c.action) = 3
  BY <1>1, <1>2, <1>3, KeywordDifference
<1>5. i.kind \in {"number", "string", "object"}
  BY InstanceType
<1>6. ASSUME OfType(y.before, i), ~OfType(y.after, i) PROVE LossTold(x, y, FALSE)
  <2>1. b # a /\ a # None
    BY <1>1, <1>6 DEF OfType
  <2>2. b # None => ~Assignable(b, a)
    BY <1>1, <1>5, <1>6 DEF OfType, Assignable
  <2>3. typeClassifier(c)[1] = "breaking" /\ (b # None => typeClassifier(c)[3] = "breaking")
    BY <1>1, <1>4, <2>1, <2>2 DEF typeClassifier, breakingIf
  <2>4. VerdictAt(x, FALSE, c) \in Flagged
    BY <1>3, <1>4, <2>1, <2>3 DEF VerdictAt, Flagged
  <2>5. QED
    BY <1>4, <2>1, <2>4 DEF LossTold
<1>7. ASSUME OfType(y.after, i), ~OfType(y.before, i) PROVE LossTold(x, y, TRUE)
  <2>1. b # a /\ b # None
    BY <1>1, <1>7 DEF OfType
  <2>2. a # None => ~Assignable(a, b)
    BY <1>1, <1>5, <1>7 DEF OfType, Assignable
  <2>3. typeClassifier(c)[5] = "breaking" /\ (a # None => typeClassifier(c)[6] = "breaking")
    BY <1>1, <1>4, <2>1, <2>2 DEF typeClassifier, breakingIf
  <2>4. VerdictAt(x, TRUE, c) \in Flagged
    BY <1>3, <1>4, <2>1, <2>3, ReversedSlot DEF VerdictAt, Flagged
  <2>5. QED
    BY <1>4, <2>1, <2>4 DEF LossTold
<1>8. QED
  BY <1>6, <1>7

LengthOf(side) == IF side.low THEN "minLength" ELSE "maxLength"

Fits(s, side, n) == s[LengthOf(side)] # None => ~Stricter(side, s[LengthOf(side)], n)

LEMMA LengthLost ==
  ASSUME NEW x, NEW y, NEW side \in {lower, upper}, NEW n \in Int,
         y.before[LengthOf(side)] \in Nat \cup {None}, y.after[LengthOf(side)] \in Nat \cup {None}
  PROVE  /\ Fits(y.before, side, n) /\ ~Fits(y.after, side, n) => LossTold(x, y, FALSE)
         /\ Fits(y.after, side, n) /\ ~Fits(y.before, side, n) => LossTold(x, y, TRUE)
<1> DEFINE Within(s) == Fits(s, side, n)
<1>a. PICK k : k = LengthOf(side)
  OBVIOUS
<1>b. (side = lower /\ k = "minLength") \/ (side = upper /\ k = "maxLength")
  BY <1>a DEF LengthOf, lower, upper
<1>c. /\ y.before[k] \in Nat \cup {None} /\ y.after[k] \in Nat \cup {None}
      /\ \A s : Within(s) <=> (s[k] # None => ~Stricter(side, s[k], n))
  BY <1>a DEF Fits
<1> HIDE DEF Within
<1>1. PICK b, a : b = y.before[k] /\ a = y.after[k]
  OBVIOUS
<1>2. PICK c : c = OfKeyword(y, k)
  OBVIOUS
<1>3. jsonSchemaRules(x, c) = lengthClassifier(c, side) /\ k \in Simple /\ side.low \in BOOLEAN
  <2>1. c.keyword = k
    BY <1>2 DEF OfKeyword, Difference
  <2>2. Side(k) = side
    BY <1>b DEF Side
  <2>3. k \in Simple /\ k \in {"minLength", "maxLength"}
    BY <1>b DEF Simple
  <2>4. jsonSchemaRules(x, c) = lengthClassifier(c, side)
    BY <2>1, <2>2, <2>3 DEF jsonSchemaRules
  <2>5. QED
    BY <2>3, <2>4, BoundRules
<1>4. b # a => /\ c \in Differences(y) /\ c.keyword = k /\ c.before = y.before /\ c.after = y.after
               /\ b = None => Index(c.action) = 1
               /\ a = None => Index(c.action) = 2
               /\ b # None /\ a # None => Index(c.action) = 3
  BY <1>1, <1>2, <1>3, KeywordDifference
<1>5. PICK r : r = lengthClassifier(c, side)
  OBVIOUS
<1>6. b # a => r = <<"breaking", "nonBreaking",
                     breakingIf(b = None \/ a = None \/ Stricter(side, a, b)), None, None, None>>
  BY <1>1, <1>4, <1>5 DEF lengthClassifier, ThreeSlots
<1>7. ASSUME Within(y.before), ~Within(y.after) PROVE LossTold(x, y, FALSE)
  <2>1. b # a /\ a # None /\ (b # None => Stricter(side, a, b))
    BY <1>1, <1>3, <1>7, <1>c DEF Stricter
  <2>2. r[1] = "breaking" /\ (b # None => r[3] = "breaking")
    BY <1>6, <2>1 DEF breakingIf
  <2>3. VerdictAt(x, FALSE, c) \in Flagged
    BY <1>3, <1>4, <1>5, <2>1, <2>2 DEF VerdictAt, Flagged
  <2>4. QED
    BY <1>4, <2>1, <2>3 DEF LossTold
<1>8. ASSUME Within(y.after), ~Within(y.before) PROVE LossTold(x, y, TRUE)
  <2>1. b # a /\ b # None /\ (a # None => ~Stricter(side, a, b))
    BY <1>1, <1>3, <1>8, <1>c DEF Stricter
  <2>2. r[2] = "nonBreaking" /\ (a # None => r[3] = "nonBreaking") /\ r[5] = None /\ r[6] = None
    BY <1>6, <2>1 DEF breakingIf
  <2>3. VerdictAt(x, TRUE, c) = "breaking"
    <3>1. reverseDiffType("nonBreaking") = "breaking"
      BY DEF reverseDiffType
    <3>2. CASE a = None
      BY <1>3, <1>4, <1>5, <2>1, <2>2, <3>1, <3>2, ReversedSlot DEF VerdictAt
    <3>3. CASE a # None
      BY <1>3, <1>4, <1>5, <2>1, <2>2, <3>1, <3>3, ReversedSlot DEF VerdictAt
    <3>4. QED
      BY <3>2, <3>3
  <2>4. QED
    BY <1>4, <2>1, <2>3 DEF LossTold, Flagged
<1>9. QED
  BY <1>7, <1>8 DEF Within

LEMMA Quotient ==
  ASSUME NEW d \in Nat \ {0}, NEW v \in Int, v % d = 0
  PROVE  \E p \in Int : v = d * p
<1>1. v \div d \in Int /\ v = d * (v \div d) + (v % d)
  OBVIOUS
<1>2. QED
  BY <1>1

\* What divides a divisor divides the number.
LEMMA DivisorOfDivisor ==
  ASSUME NEW a \in Nat \ {0}, NEW b \in Nat \ {0}, NEW v \in Int,
         b % a = 0, v % (2 * b) = 0
  PROVE  v % (2 * a) = 0
<1>1. PICK q \in Int : b = a * q
  BY Quotient
<1>2. 2 * b \in Nat \ {0}
  OBVIOUS
<1>3. PICK p \in Int : v = (2 * b) * p
  BY <1>2, Quotient
<1>4. v = (2 * a) * (q * p)
  BY <1>1, <1>3
<1>5. q * p \in Int /\ 2 * a \in Nat /\ 2 * a > 0
  OBVIOUS
<1>6. \A m \in Int, d \in Nat : d > 0 => (d * m) % d = 0
  OBVIOUS
<1>7. QED
  BY <1>4, <1>5, <1>6

LEMMA MultipleLost ==
  ASSUME NEW x, NEW y, NEW v \in Int,
         y.before.multipleOf \in (Nat \ {0}) \cup {None}, y.after.multipleOf \in (Nat \ {0}) \cup {None}
  PROVE  LET Within(s) == s.multipleOf # None => v % (2 * s.multipleOf) = 0
         IN  /\ Within(y.before) /\ ~Within(y.after) => LossTold(x, y, FALSE)
             /\ Within(y.after) /\ ~Within(y.before) => LossTold(x, y, TRUE)
<1> DEFINE Within(s) == s.multipleOf # None => v % (2 * s.multipleOf) = 0
<1>1. PICK b, a : b = y.before.multipleOf /\ a = y.after.multipleOf
  OBVIOUS
<1>2. PICK c : c = OfKeyword(y, "multipleOf")
  OBVIOUS
<1>3. jsonSchemaRules(x, c) = multipleOfClassifier(c) /\ "multipleOf" \in Simple /\ None # "breaking"
  <2>1. c.keyword = "multipleOf"
    BY <1>2 DEF OfKeyword, Difference
  <2>2. QED
    BY <2>1, RulesAssumption DEF jsonSchemaRules, Simple, Slots, Verdicts
<1>4. b # a => /\ c \in Differences(y) /\ c.before = y.before /\ c.after = y.after
               /\ b = None => Index(c.action) = 1
               /\ a = None => Index(c.action) = 2
               /\ b # None /\ a # None => Index(c.action) = 3
  BY <1>1, <1>2, <1>3, KeywordDifference
<1>5. ASSUME Within(y.before), ~Within(y.after) PROVE LossTold(x, y, FALSE)
  <2>1. b # a /\ a # None
    BY <1>1, <1>5
  <2>2. b # None => b % a # 0
    <3>1. SUFFICES ASSUME b # None, b % a = 0 PROVE FALSE
      OBVIOUS
    <3>2. a \in Nat \ {0} /\ b \in Nat \ {0} /\ v % (2 * b) = 0 /\ ~(v % (2 * a) = 0)
      BY <1>1, <1>5, <2>1, <3>1
    <3>3. QED
      BY <3>1, <3>2, DivisorOfDivisor
  <2>3. /\ multipleOfClassifier(c)[1] = "breaking"
        /\ b # None => multipleOfClassifier(c)[3] = "breaking"
    BY <1>1, <1>4, <2>1, <2>2 DEF multipleOfClassifier, breakingIf
  <2>4. VerdictAt(x, FALSE, c) \in Flagged
    BY <1>3, <1>4, <2>1, <2>3 DEF VerdictAt, Flagged
  <2>5. QED
    BY <1>4, <2>1, <2>4 DEF LossTold
<1>6. ASSUME Within(y.after), ~Within(y.before) PROVE LossTold(x, y, TRUE)
  <2>1. b # a /\ b # None
    BY <1>1, <1>6
  <2>2. multipleOfClassifier(c)[5] = "breaking" /\ multipleOfClassifier(c)[6] = "breaking"
    BY DEF multipleOfClassifier
  <2>3. VerdictAt(x, TRUE, c) \in Flagged
    BY <1>3, <1>4, <2>1, <2>2, ReversedSlot DEF VerdictAt, Flagged
  <2>4. QED
    BY <1>4, <2>1, <2>3 DEF LossTold
<1>7. QED
  BY <1>5, <1>6

LEMMA EnumLost ==
  ASSUME NEW x, NEW y, NEW i \in Instance,
         y.before.enum = None \/ y.before.enum \subseteq Int,
         y.after.enum = None \/ y.after.enum \subseteq Int
  PROVE  /\ InEnum(y.before, i) /\ ~InEnum(y.after, i) => LossTold(x, y, FALSE)
         /\ InEnum(y.after, i) /\ ~InEnum(y.before, i) => LossTold(x, y, TRUE)
<1>1. PICK b, a : b = y.before.enum /\ a = y.after.enum
  OBVIOUS
<1>2. None # "risky" /\ None \notin Int
  BY RulesAssumption, SchemaRulesAssumption DEF Slots, Verdicts
\* The keyword as a whole.
<1>3. ASSUME NEW action \in {"add", "remove"},
             action = "add" => b = None /\ a # None,
             action = "remove" => a = None /\ b # None,
             NEW c, c = Difference(y, "enum", None, action)
      PROVE  /\ c \in Differences(y)
             /\ action = "add" => VerdictAt(x, FALSE, c) \in Flagged
             /\ action = "remove" => VerdictAt(x, TRUE, c) \in Flagged
  <2>1. c.keyword = "enum" /\ c.item = None /\ c.action = action
    BY <1>3 DEF Difference
  <2>2. c \in EnumDifferences(y)
    BY <1>1, <1>3 DEF EnumDifferences, Changed
  <2>3. jsonSchemaRules(x, c) = enumKeywordClassifier
    BY <2>1 DEF jsonSchemaRules
  <2>4. enumKeywordClassifier[1] = "breaking" /\ enumKeywordClassifier[5] = "risky"
    BY DEF enumKeywordClassifier
  <2>5. action = "add" => VerdictAt(x, FALSE, c) \in Flagged
    BY <2>1, <2>3, <2>4 DEF VerdictAt, Flagged, Index
  <2>6. action = "remove" => VerdictAt(x, TRUE, c) \in Flagged
    BY <1>2, <2>1, <2>3, <2>4, ReversedSlot DEF VerdictAt, Flagged, Index
  <2>7. QED
    BY <2>2, <2>5, <2>6 DEF Differences
\* One of its values.
<1>4. ASSUME a # None, b # None, NEW v \in Int, NEW action \in {"add", "remove"},
             action = "add" => v \in a \ b, action = "remove" => v \in b \ a,
             NEW c, c = Difference(y, "enum", v, action)
      PROVE  /\ c \in Differences(y)
             /\ action = "add" /\ b = {} => VerdictAt(x, FALSE, c) \in Flagged
             /\ action = "add" /\ b # {} => VerdictAt(x, TRUE, c) \in Flagged
             /\ action = "remove" /\ a # {} => VerdictAt(x, FALSE, c) \in Flagged
             /\ action = "remove" /\ a = {} => VerdictAt(x, TRUE, c) \in Flagged
  <2>1. /\ c.keyword = "enum" /\ c.item = v /\ c.action = action
        /\ c.before = y.before /\ c.after = y.after /\ v # None
    BY <1>2, <1>4 DEF Difference
  <2>2. c \in ItemDifferences(y, "enum")
    BY <1>1, <1>4 DEF ItemDifferences
  <2>3. c \in EnumDifferences(y)
    BY <1>1, <1>4, <2>2 DEF EnumDifferences
  <2>4. jsonSchemaRules(x, c) = enumClassifyRule(c)
    BY <2>1 DEF jsonSchemaRules
  <2>5. PICK r : r = enumClassifyRule(c)
    OBVIOUS
  <2>6. r = <<IF b # {} THEN "nonBreaking" ELSE "breaking",
              IF a # {} THEN "breaking" ELSE "nonBreaking",
              "breaking",
              IF b # {} THEN "risky" ELSE "nonBreaking",
              IF a # {} THEN "nonBreaking" ELSE "risky",
              "nonBreaking">>
    BY <1>1, <2>1, <2>5 DEF enumClassifyRule
  <2>7. /\ b = {} => r[1] = "breaking"
        /\ b # {} => r[4] = "risky"
        /\ a # {} => r[2] = "breaking"
        /\ a = {} => r[5] = "risky"
    BY <2>6
  <2>8. CASE action = "add"
    BY <1>2, <2>1, <2>3, <2>4, <2>5, <2>7, <2>8, ReversedSlot
       DEF VerdictAt, Flagged, Index, Differences
  <2>9. CASE action = "remove"
    BY <1>2, <2>1, <2>3, <2>4, <2>5, <2>7, <2>9, ReversedSlot
       DEF VerdictAt, Flagged, Index, Differences
  <2>10. QED
    BY <1>4, <2>8, <2>9
<1>5. ASSUME InEnum(y.before, i), ~InEnum(y.after, i) PROVE LossTold(x, y, FALSE)
  <2>1. a # None /\ a # {} /\ a \subseteq Int
        /\ ~(i.kind = "number" /\ \E v \in a : i.value = 2 * v)
    BY <1>1, <1>5 DEF InEnum
  <2>2. CASE b = None
    <3>1. PICK c : c = Difference(y, "enum", None, "add")
      OBVIOUS
    <3>2. c \in Differences(y) /\ VerdictAt(x, FALSE, c) \in Flagged
      BY <1>3, <2>1, <2>2, <3>1
    <3>3. QED
      BY <3>2 DEF LossTold
  <2>3. CASE b # None /\ b = {}
    <3>1. PICK v \in Int : v \in a \ b
      BY <2>1, <2>3
    <3>2. PICK c : c = Difference(y, "enum", v, "add")
      OBVIOUS
    <3>3. c \in Differences(y) /\ VerdictAt(x, FALSE, c) \in Flagged
      BY <1>4, <2>1, <2>3, <3>1, <3>2
    <3>4. QED
      BY <3>3 DEF LossTold
  <2>4. CASE b # None /\ b # {}
    <3>1. PICK v \in Int : v \in b \ a
      BY <1>1, <1>5, <2>1, <2>4 DEF InEnum
    <3>2. PICK c : c = Difference(y, "enum", v, "remove")
      OBVIOUS
    <3>3. c \in Differences(y) /\ VerdictAt(x, FALSE, c) \in Flagged
      BY <1>4, <2>1, <2>4, <3>1, <3>2
    <3>4. QED
      BY <3>3 DEF LossTold
  <2>5. QED
    BY <2>2, <2>3, <2>4
<1>6. ASSUME InEnum(y.after, i), ~InEnum(y.before, i) PROVE LossTold(x, y, TRUE)
  <2>1. b # None /\ b # {} /\ b \subseteq Int
        /\ ~(i.kind = "number" /\ \E v \in b : i.value = 2 * v)
    BY <1>1, <1>6 DEF InEnum
  <2>2. CASE a = None
    <3>1. PICK c : c = Difference(y, "enum", None, "remove")
      OBVIOUS
    <3>2. c \in Differences(y) /\ VerdictAt(x, TRUE, c) \in Flagged
      BY <1>3, <2>1, <2>2, <3>1
    <3>3. QED
      BY <3>2 DEF LossTold
  <2>3. CASE a # None /\ a = {}
    <3>1. PICK v \in Int : v \in b \ a
      BY <2>1, <2>3
    <3>2. PICK c : c = Difference(y, "enum", v, "remove")
      OBVIOUS
    <3>3. c \in Differences(y) /\ VerdictAt(x, TRUE, c) \in Flagged
      BY <1>4, <2>1, <2>3, <3>1, <3>2
    <3>4. QED
      BY <3>3 DEF LossTold
  <2>4. CASE a # None /\ a # {}
    <3>1. PICK v \in Int : v \in a \ b
      BY <1>1, <1>6, <2>1, <2>4 DEF InEnum
    <3>2. PICK c : c = Difference(y, "enum", v, "add")
      OBVIOUS
    <3>3. c \in Differences(y) /\ VerdictAt(x, TRUE, c) \in Flagged
      BY <1>4, <2>1, <2>4, <3>1, <3>2
    <3>4. QED
      BY <3>3 DEF LossTold
  <2>5. QED
    BY <2>2, <2>3, <2>4
<1>7. QED
  BY <1>5, <1>6

\* What an object must have; a server fills in what has a default.
HasRequired(s, tolerant, i) ==
  \A p \in s.required : p \in i.value \/ (tolerant /\ s.properties[p] = "default")

ArePropertiesOf(s) ==
  s.required \subseteq Property /\ s.properties \in [Property -> {None, "plain", "default"}]

LEMMA RequiredLost ==
  ASSUME NEW x, NEW y, NEW i, ArePropertiesOf(y.before), ArePropertiesOf(y.after)
  PROVE  /\ HasRequired(y.before, TRUE, i) /\ ~HasRequired(y.after, TRUE, i) => LossTold(x, y, FALSE)
         /\ HasRequired(y.after, FALSE, i) /\ ~HasRequired(y.before, FALSE, i) => LossTold(x, y, TRUE)
<1>1. None # "risky" /\ None # "plain" /\ None # "default"
  BY RulesAssumption, SchemaRulesAssumption DEF Slots, Verdicts
<1>2. ASSUME NEW p \in y.after.required, p \notin y.before.required,
             y.after.properties[p] # "default"
      PROVE  LossTold(x, y, FALSE)
  <2>1. PICK c : c = Difference(y, "required", p, "add")
    OBVIOUS
  <2>2. c.keyword = "required" /\ c.item = p /\ c.action = "add" /\ c.after = y.after
    BY <2>1 DEF Difference
  <2>3. c \in Differences(y)
    BY <1>2, <2>1 DEF ItemDifferences, Differences
  <2>4. jsonSchemaRules(x, c) = requiredItemClassifyRule(c) /\ requiredItemClassifyRule(c)[1] = "breaking"
    BY <1>2, <2>2 DEF jsonSchemaRules, requiredItemClassifyRule
  <2>5. VerdictAt(x, FALSE, c) \in Flagged
    BY <2>2, <2>4 DEF VerdictAt, Flagged, Index
  <2>6. QED
    BY <2>3, <2>5 DEF LossTold
<1>3. ASSUME NEW p \in Property, y.before.properties[p] = "default",
             y.after.properties[p] # "default"
      PROVE  LossTold(x, y, FALSE)
  <2>1. y.after.properties[p] = None \/ y.after.properties[p] = "plain"
    BY <1>3 DEF ArePropertiesOf
  <2>2. CASE y.after.properties[p] = None
    <3>1. PICK c : c = Difference(y, "properties", p, "remove")
      OBVIOUS
    <3>2. c.keyword = "properties" /\ c.action = "remove"
      BY <3>1 DEF Difference
    <3>3. Changed(y.before.properties[p], y.after.properties[p]) = "remove"
      BY <1>1, <1>3, <2>2 DEF Changed
    <3>4. c \in PropertyDifferences(y)
      BY <1>3, <2>2, <3>1, <3>3 DEF PropertyDifferences
    <3>5. jsonSchemaRules(x, c) = propertyClassifyRule(c) /\ propertyClassifyRule(c)[2] = "breaking"
      BY <3>2 DEF jsonSchemaRules, propertyClassifyRule
    <3>6. VerdictAt(x, FALSE, c) \in Flagged
      BY <3>2, <3>5 DEF VerdictAt, Flagged, Index
    <3>7. QED
      BY <3>4, <3>6 DEF LossTold, Differences
  <2>3. CASE y.after.properties[p] = "plain"
    <3>1. PICK c : c = Difference(y, "default", p, "remove")
      OBVIOUS
    <3>2. c.keyword = "default" /\ c.action = "remove"
      BY <3>1 DEF Difference
    <3>3. c \in PropertyDifferences(y)
      BY <1>1, <1>3, <2>3, <3>1 DEF PropertyDifferences
    <3>4. jsonSchemaRules(x, c) = defaultClassifier /\ defaultClassifier[2] = "breaking"
      BY <3>2 DEF jsonSchemaRules, defaultClassifier, ThreeSlots
    <3>5. VerdictAt(x, FALSE, c) \in Flagged
      BY <3>2, <3>4 DEF VerdictAt, Flagged, Index
    <3>6. QED
      BY <3>3, <3>5 DEF LossTold, Differences
  <2>4. QED
    BY <2>1, <2>2, <2>3
<1>4. ASSUME HasRequired(y.before, TRUE, i), ~HasRequired(y.after, TRUE, i)
      PROVE  LossTold(x, y, FALSE)
  <2>1. PICK p \in y.after.required : p \notin i.value /\ y.after.properties[p] # "default"
    BY <1>4 DEF HasRequired
  <2>2. CASE p \notin y.before.required
    BY <1>2, <2>1, <2>2
  <2>3. CASE p \in y.before.required
    <3>1. p \in Property /\ y.before.properties[p] = "default"
      BY <1>4, <2>1, <2>3 DEF HasRequired, ArePropertiesOf
    <3>2. QED
      BY <1>3, <2>1, <3>1
  <2>4. QED
    BY <2>2, <2>3
<1>5. ASSUME HasRequired(y.after, FALSE, i), ~HasRequired(y.before, FALSE, i)
      PROVE  LossTold(x, y, TRUE)
  <2>1. PICK p \in y.before.required : p \notin y.after.required
    BY <1>5 DEF HasRequired
  <2>2. PICK c : c = Difference(y, "required", p, "remove")
    OBVIOUS
  <2>3. c.keyword = "required" /\ c.action = "remove"
    BY <2>2 DEF Difference
  <2>4. c \in Differences(y)
    BY <2>1, <2>2 DEF ItemDifferences, Differences
  <2>5. jsonSchemaRules(x, c) = requiredItemClassifyRule(c) /\ requiredItemClassifyRule(c)[5] = "risky"
    BY <2>3 DEF jsonSchemaRules, requiredItemClassifyRule
  <2>6. VerdictAt(x, TRUE, c) \in Flagged
    BY <1>1, <2>3, <2>5, ReversedSlot DEF VerdictAt, Flagged, Index
  <2>7. QED
    BY <2>4, <2>6 DEF LossTold
<1>6. QED
  BY <1>4, <1>5

(***************************************************************************)
(* All keywords together.                                                  *)
(***************************************************************************)
LEMMA NumberLost ==
  ASSUME NEW x, IsComparison(x), NEW y, AdaptsBounds(x, y), NEW side \in {lower, upper}, NEW n \in Int
  PROVE  LET Before == WithinBound(x.before, x.draft04 \/ x.crossing, side, n)
             After == WithinBound(x.after, x.draft04, side, n)
         IN  (Before /\ ~After => LossTold(x, y, FALSE)) /\ (After /\ ~Before => LossTold(x, y, TRUE))
<1> DEFINE Before == WithinBound(x.before, x.draft04 \/ x.crossing, side, n)
           After == WithinBound(x.after, x.draft04, side, n)
<1>1. x.draft04 \in BOOLEAN /\ x.crossing \in BOOLEAN /\ y.after = x.after
  BY DEF IsComparison, AdaptsBounds
<1>2. CASE x.draft04
  <2>1. y.before = x.before /\ FlagBounds(x.before, side) /\ FlagBounds(x.after, side)
    BY <1>2 DEF AdaptsBounds
  <2>2. x.draft04 = TRUE /\ (x.draft04 \/ x.crossing) = TRUE
    BY <1>1, <1>2
  <2>3. (Before <=> WithinBound(y.before, TRUE, side, n)) /\ (After <=> WithinBound(y.after, TRUE, side, n))
    BY <1>1, <2>1, <2>2
  <2>4. QED
    BY <1>1, <1>2, <2>1, <2>3, FlagBoundTightened, FlagBoundLoosened
<1>3. CASE ~x.draft04
  <2>1. /\ NumberBounds(y.before, side) /\ NumberBounds(y.after, side)
        /\ WithinBound(y.before, FALSE, side, n) <=> WithinBound(x.before, x.crossing, side, n)
    BY <1>3 DEF AdaptsBounds
  <2>2. x.draft04 = FALSE /\ (x.draft04 \/ x.crossing) = x.crossing
    BY <1>1, <1>3
  <2>3. (Before <=> WithinBound(y.before, FALSE, side, n)) /\ (After <=> WithinBound(y.after, FALSE, side, n))
    BY <1>1, <2>1, <2>2
  <2>4. QED
    BY <1>3, <2>1, <2>3, BoundTightened, BoundLoosened
<1>4. QED
  BY <1>2, <1>3

LEMMA LossIsTold ==
  ASSUME NEW x, IsComparison(x), NEW y, AdaptsBounds(x, y), NEW i \in Instance
  PROVE  LET Before(tolerant) == Accepts(x.before, x.draft04 \/ x.crossing, tolerant, i)
             After(tolerant) == Accepts(x.after, x.draft04, tolerant, i)
         IN  /\ Before(TRUE) /\ ~After(TRUE) => LossTold(x, y, FALSE)
             /\ After(FALSE) /\ ~Before(FALSE) => LossTold(x, y, TRUE)
<1> DEFINE Before(tolerant) == Accepts(x.before, x.draft04 \/ x.crossing, tolerant, i)
           After(tolerant) == Accepts(x.after, x.draft04, tolerant, i)
           BoundBefore(side) == WithinBound(x.before, x.draft04 \/ x.crossing, side, i.value)
           BoundAfter(side) == WithinBound(x.after, x.draft04, side, i.value)
           Multiple(s) == s.multipleOf # None => i.value % (2 * s.multipleOf) = 0
           Short(s) == Fits(s, lower, i.value)
           Long(s) == Fits(s, upper, i.value)
<1>1. /\ i.kind \in {"number", "string", "object"}
      /\ i.kind \in {"number", "string"} => i.value \in Int
  BY InstanceType
<1>2. \A k \in {"type", "enum", "multipleOf", "minLength", "maxLength", "required", "properties"} :
         y.before[k] = x.before[k] /\ y.after[k] = x.after[k]
  BY DEF AdaptsBounds, Simple, BoundKeys
<1>3. \A s \in {x.before, x.after} :
        /\ {s.minLength, s.maxLength} \subseteq Nat \cup {None}
        /\ s.multipleOf \in (Nat \ {0}) \cup {None}
        /\ s.enum = None \/ s.enum \subseteq Int
        /\ ArePropertiesOf(s)
  BY DEF IsComparison, IsSchema, ArePropertiesOf
<1>4. /\ OfType(y.before, i) <=> OfType(x.before, i)
      /\ OfType(y.after, i) <=> OfType(x.after, i)
      /\ InEnum(y.before, i) <=> InEnum(x.before, i)
      /\ InEnum(y.after, i) <=> InEnum(x.after, i)
  BY <1>2 DEF OfType, InEnum
<1>5. \A tolerant :
        /\ HasRequired(y.before, tolerant, i) <=> HasRequired(x.before, tolerant, i)
        /\ HasRequired(y.after, tolerant, i) <=> HasRequired(x.after, tolerant, i)
  BY <1>2 DEF HasRequired
<1>6. ASSUME NEW tolerant
      PROVE  /\ Before(tolerant) <=>
                  /\ OfType(x.before, i) /\ InEnum(x.before, i)
                  /\ i.kind = "number" => BoundBefore(lower) /\ BoundBefore(upper) /\ Multiple(x.before)
                  /\ i.kind = "string" => Short(x.before) /\ Long(x.before)
                  /\ i.kind = "object" => HasRequired(x.before, tolerant, i)
             /\ After(tolerant) <=>
                  /\ OfType(x.after, i) /\ InEnum(x.after, i)
                  /\ i.kind = "number" => BoundAfter(lower) /\ BoundAfter(upper) /\ Multiple(x.after)
                  /\ i.kind = "string" => Short(x.after) /\ Long(x.after)
                  /\ i.kind = "object" => HasRequired(x.after, tolerant, i)
  <2>1. /\ lower.low = TRUE /\ upper.low = FALSE
        /\ LengthOf(lower) = "minLength" /\ LengthOf(upper) = "maxLength"
    BY DEF lower, upper, LengthOf
  <2>2. ASSUME i.kind = "string", NEW s \in {x.before, x.after}
        PROVE  /\ Short(s) <=> (s.minLength # None => i.value >= s.minLength)
               /\ Long(s) <=> (s.maxLength # None => i.value <= s.maxLength)
    BY <1>1, <1>3, <2>1, <2>2 DEF Stricter, Fits
  <2>3. QED
    BY <2>2 DEF Accepts, HasRequired
<1>7. /\ OfType(x.before, i) /\ ~OfType(x.after, i) => LossTold(x, y, FALSE)
      /\ OfType(x.after, i) /\ ~OfType(x.before, i) => LossTold(x, y, TRUE)
  BY <1>4, TypeLost
<1>8. /\ InEnum(x.before, i) /\ ~InEnum(x.after, i) => LossTold(x, y, FALSE)
      /\ InEnum(x.after, i) /\ ~InEnum(x.before, i) => LossTold(x, y, TRUE)
  BY <1>2, <1>3, <1>4, EnumLost
<1>9. ASSUME NEW side \in {lower, upper}, i.kind = "number"
      PROVE  /\ BoundBefore(side) /\ ~BoundAfter(side) => LossTold(x, y, FALSE)
             /\ BoundAfter(side) /\ ~BoundBefore(side) => LossTold(x, y, TRUE)
  BY <1>1, <1>9, NumberLost
<1>10. ASSUME i.kind = "number"
       PROVE  /\ Multiple(x.before) /\ ~Multiple(x.after) => LossTold(x, y, FALSE)
              /\ Multiple(x.after) /\ ~Multiple(x.before) => LossTold(x, y, TRUE)
  <2>1. y.before.multipleOf = x.before.multipleOf /\ y.after.multipleOf = x.after.multipleOf
    BY <1>2
  <2>2. QED
    BY <1>1, <1>3, <1>10, <2>1, MultipleLost
<1>11. ASSUME NEW side \in {lower, upper}, i.kind = "string"
       PROVE  /\ Fits(x.before, side, i.value) /\ ~Fits(x.after, side, i.value) => LossTold(x, y, FALSE)
              /\ Fits(x.after, side, i.value) /\ ~Fits(x.before, side, i.value) => LossTold(x, y, TRUE)
  <2>1. LengthOf(side) \in {"minLength", "maxLength"} /\ i.value \in Int
    BY <1>1, <1>11 DEF LengthOf
  <2>2. y.before[LengthOf(side)] = x.before[LengthOf(side)] /\ y.after[LengthOf(side)] = x.after[LengthOf(side)]
    BY <1>2, <2>1
  <2>3. y.before[LengthOf(side)] \in Nat \cup {None} /\ y.after[LengthOf(side)] \in Nat \cup {None}
    BY <1>3, <2>1, <2>2
  <2>4. /\ Fits(y.before, side, i.value) /\ ~Fits(y.after, side, i.value) => LossTold(x, y, FALSE)
        /\ Fits(y.after, side, i.value) /\ ~Fits(y.before, side, i.value) => LossTold(x, y, TRUE)
    BY <2>1, <2>3, LengthLost
  <2>5. QED
    BY <2>2, <2>4 DEF Fits
<1>12. i.kind = "string" =>
         /\ Short(x.before) /\ ~Short(x.after) => LossTold(x, y, FALSE)
         /\ Short(x.after) /\ ~Short(x.before) => LossTold(x, y, TRUE)
         /\ Long(x.before) /\ ~Long(x.after) => LossTold(x, y, FALSE)
         /\ Long(x.after) /\ ~Long(x.before) => LossTold(x, y, TRUE)
  BY <1>11
<1>13. /\ HasRequired(x.before, TRUE, i) /\ ~HasRequired(x.after, TRUE, i) => LossTold(x, y, FALSE)
       /\ HasRequired(x.after, FALSE, i) /\ ~HasRequired(x.before, FALSE, i) => LossTold(x, y, TRUE)
  <2>1. ArePropertiesOf(y.before) /\ ArePropertiesOf(y.after)
    BY <1>2, <1>3 DEF ArePropertiesOf
  <2>2. QED
    BY <1>5, <2>1, RequiredLost
<1> HIDE DEF Before, After, BoundBefore, BoundAfter, Multiple, Short, Long
<1>14. Before(TRUE) /\ ~After(TRUE) => LossTold(x, y, FALSE)
  BY <1>6, <1>7, <1>8, <1>9, <1>10, <1>12, <1>13
<1>15. After(FALSE) /\ ~Before(FALSE) => LossTold(x, y, TRUE)
  BY <1>6, <1>7, <1>8, <1>9, <1>10, <1>12, <1>13
<1>16. QED
  BY <1>14, <1>15 DEF Before, After

\* The verdict a difference gets where the schemas are reversed at most once.
LEMMA SlotIsVerdictAt ==
  ASSUME NEW x, IsComparison(x), NEW c, IsDifference(c), NEW turns \in {0, 1},
         turns = x.nots + (IF TurnedRound(x) THEN 1 ELSE 0)
  PROVE  Slot(x, c) = VerdictAt(x, turns = 1, c)
<1>1. PICK r : r = jsonSchemaRules(x, c)
  OBVIOUS
<1>2. IsRule(r) /\ x.nots \in Nat
  BY <1>1, KeywordRule DEF IsDifference, IsComparison
<1>3. Straight(x, c) = AfterNots(r, x.nots)
  BY <1>1, <1>2, NotsCollapse DEF Straight
<1>4. Slot(x, c) = IF TurnedRound(x) THEN reverseClassifyRule(Straight(x, c))[Index(c.action)]
                   ELSE Straight(x, c)[Index(c.action)]
  BY RuleTurned
<1>5. CASE x.nots = 0
  <2>1. Straight(x, c) = r
    BY <1>3, <1>5 DEF AfterNots
  <2>2. TurnedRound(x) <=> turns = 1
    BY <1>5
  <2>3. QED
    BY <1>1, <1>4, <2>1, <2>2 DEF VerdictAt
<1>6. CASE x.nots = 1
  <2>1. Straight(x, c) = reverseClassifyRule(r)
    BY <1>3, <1>6 DEF AfterNots
  <2>2. ~TurnedRound(x) /\ turns = 1
    BY <1>6
  <2>3. QED
    BY <1>1, <1>4, <2>1, <2>2 DEF VerdictAt
<1>7. QED
  BY <1>2, <1>5, <1>6

(***************************************************************************)
(* An incompatible change never goes unflagged: for schemas with any       *)
(* numbers in their bounds, in both encodings and across them, and any     *)
(* enumerations and properties, whichever keywords changed together, when  *)
(* a request may no longer hold some value or a response may newly hold    *)
(* one, some difference is breaking or risky.                              *)
(***************************************************************************)
THEOREM LossAlwaysFlagged ==
  ASSUME \A x \in Input : BoundsUnified(x)
  PROVE  Spec => []LossFlagged
<1>1. VerdictsInv => LossFlagged
  <2> SUFFICES ASSUME VerdictsInv, Done, Undisturbed, Lost # {}, Reversals <= 1
               PROVE  \E c \in DOMAIN type : Flags(c)
    BY DEF LossFlagged
  <2>1. asked \in Input /\ IsComparison(asked) /\ BoundsUnified(asked)
    BY VerdictsAssumption DEF VerdictsInv
  <2>2. PICK y : y = Adapted(asked)
    OBVIOUS
  <2>3. AdaptsBounds(asked, y)
    BY <2>1, <2>2, InputAdapted
  <2>4. DOMAIN type = Differences(y)
    BY <2>2 DEF VerdictsInv, Done
  <2>5. PICK turns : turns = Reversals
    OBVIOUS
  <2>6. turns \in {0, 1} /\ turns = asked.nots + (IF TurnedRound(asked) THEN 1 ELSE 0)
    <3>1. asked.nots \in Nat
      BY <2>1 DEF IsComparison
    <3>2. QED
      BY <2>5, <3>1 DEF Reversals, TurnedRound
  <2>7. LossTold(asked, y, turns = 1)
    <3>1. CASE turns = 0
      <4>1. Lost = AcceptedBefore(TRUE) \ AcceptedAfter(TRUE)
        <5>1. (Reversals = 0) = TRUE /\ Reversals % 2 = 0
          BY <2>5, <3>1
        <5>2. QED
          BY <5>1 DEF Lost
      <4>2. PICK i \in Instance :
              /\ Accepts(asked.before, asked.draft04 \/ asked.crossing, TRUE, i)
              /\ ~Accepts(asked.after, asked.draft04, TRUE, i)
        BY <4>1 DEF AcceptedBefore, AcceptedAfter
      <4>3. LossTold(asked, y, FALSE)
        BY <2>1, <2>3, <4>2, LossIsTold
      <4>4. (turns = 1) = FALSE
        BY <3>1
      <4>5. QED
        BY <4>3, <4>4
    <3>2. CASE turns = 1
      <4>1. Lost = AcceptedAfter(FALSE) \ AcceptedBefore(FALSE)
        <5>1. (Reversals = 0) = FALSE /\ ~(Reversals % 2 = 0)
          BY <2>5, <3>2
        <5>2. QED
          BY <5>1 DEF Lost
      <4>2. PICK i \in Instance :
              /\ Accepts(asked.after, asked.draft04, FALSE, i)
              /\ ~Accepts(asked.before, asked.draft04 \/ asked.crossing, FALSE, i)
        BY <4>1 DEF AcceptedBefore, AcceptedAfter
      <4>3. LossTold(asked, y, TRUE)
        BY <2>1, <2>3, <4>2, LossIsTold
      <4>4. (turns = 1) = TRUE
        BY <3>2
      <4>5. QED
        BY <4>3, <4>4
    <3>3. QED
      BY <2>6, <3>1, <3>2
  <2>8. PICK c \in Differences(y) : VerdictAt(asked, turns = 1, c) \in Flagged
    BY <2>7 DEF LossTold
  <2>9. c \in DOMAIN type /\ IsDifference(c) /\ AsMade(c)
    BY <2>4 DEF VerdictsInv
  <2>10. Slot(asked, c) \in Flagged
    BY <2>1, <2>6, <2>8, <2>9, SlotIsVerdictAt
  <2>11. Start(asked, c) = Slot(asked, c) /\ Start(asked, c) \in Verdicts
    BY <2>10, RulesAssumption DEF Flagged, Verdicts, Start
  <2>12. Result(asked, c) = Computed(Start(asked, c))
    BY <2>11, NoReclassification DEF Result, Undisturbed
  <2>13. type[c] = Slot(asked, c)
    BY <2>9, <2>11, <2>12 DEF AsMade, Computed
  <2>14. QED
    BY <2>9, <2>10, <2>13 DEF Flags, Flagged
<1>2. QED
  BY VerdictsHold, <1>1, PTL

-----------------------------------------------------------------------------
(***************************************************************************)
(* And what loses nothing is not flagged.  A flag is traced to what it     *)
(* says is lost, and to an instance that shows it: p holds it, q does not. *)
(***************************************************************************)
\* The schema whose values are at stake, and the one that has to hold them.
Held(x, reversed) == IF reversed THEN x.after ELSE x.before
Holder(x, reversed) == IF reversed THEN x.before ELSE x.after

Narrows(side, bp, bq) == bq # None /\ (bp # None => IsAfterStricter(side, bp, bq))

LEMMA BoundAlarm ==
  ASSUME NEW x, ~x.draft04, NEW side \in {lower, upper}, NEW reversed \in BOOLEAN,
         NumberBounds(x.before, side), NumberBounds(x.after, side),
         NEW k \in {side.inclusive, side.exclusive}, x.before[k] # x.after[k],
         NEW c, c = OfKeyword(x, k), VerdictAt(x, reversed, c) \in Flagged
  PROVE  Narrows(side, EffectiveBound(Held(x, reversed), side), EffectiveBound(Holder(x, reversed), side))
<1>1. PICK b, a : b = EffectiveBound(x.before, side) /\ a = EffectiveBound(x.after, side)
  OBVIOUS
<1>2. /\ b # None => b \in Bound(side)
      /\ a # None => a \in Bound(side)
  BY <1>1, EffectiveBoundIs DEF BoundOf
<1>3. TellsBound(c, x, x, side, k) /\ side.low \in BOOLEAN
  BY BoundDifference, BoundRules
<1>4. c.before = x.before /\ c.after = x.after
  BY <1>3 DEF TellsBound
<1>5. CASE ~reversed
  <2>1. classifyByEffectiveBound(c, side, "breaking", "nonBreaking") \in Flagged
    BY <1>3, <1>5 DEF TellsBound
  <2>2. Narrows(side, b, a)
    BY <1>1, <1>4, <2>1 DEF classifyByEffectiveBound, Flagged, Narrows
  <2>3. QED
    BY <1>1, <1>5, <2>2 DEF Held, Holder
<1>6. CASE reversed
  <2>1. classifyByEffectiveBound(c, side, "nonBreaking", "risky") \in Flagged
    BY <1>3, <1>6 DEF TellsBound
  <2>2. b # None
    BY <1>1, <1>4, <2>1 DEF classifyByEffectiveBound, Flagged
  <2>3. a # None => ~IsAfterStricter(side, b, a) /\ ~(b.value = a.value /\ b.exclusive = a.exclusive)
    BY <1>1, <1>4, <2>1, <2>2 DEF classifyByEffectiveBound, Flagged
  <2>4. a # None => IsAfterStricter(side, a, b)
    BY <1>2, <1>3, <2>2, <2>3 DEF IsAfterStricter, Stricter, Bound
  <2>5. QED
    BY <1>1, <1>6, <2>2, <2>4 DEF Narrows, Held, Holder
<1>7. QED
  BY <1>5, <1>6

\* There are numbers just on either side of the bound.
Surrounded(b) == b # None => {2 * b.value - 1, 2 * b.value, 2 * b.value + 1} \subseteq Number

\* A bound narrowed leaves a number out, towards its side from any number within.
LEMMA BoundGap ==
  ASSUME NEW side \in {lower, upper}, NEW bp \in Bound(side) \cup {None},
         NEW bq \in Bound(side) \cup {None}, Narrows(side, bp, bq), Surrounded(bp), Surrounded(bq),
         NEW n \in Number, Inside(bp, side, n)
  PROVE  \E w \in Number : /\ Inside(bp, side, w) /\ ~Inside(bq, side, w)
                           /\ w = n \/ Stricter(side, n, w)
<1>1. /\ n \in Int /\ side.low \in BOOLEAN /\ None \notin Bound(side) /\ bq # None
      /\ bq.value \in Int /\ bq.exclusive \in BOOLEAN
      /\ bp # None => bp.value \in Int /\ bp.exclusive \in BOOLEAN
  BY BoundRules, SchemaRulesAssumption DEF Bound, Narrows
<1>2. CASE ~Inside(bq, side, n)
  BY <1>2
<1>3. CASE Inside(bq, side, n) /\ bp = None
  <2>1. PICK w : w = IF side.low THEN 2 * bq.value - 1 ELSE 2 * bq.value + 1
    OBVIOUS
  <2>2. w \in Number
    BY <1>1, <2>1 DEF Surrounded
  <2>3. ~Inside(bq, side, w) /\ Stricter(side, n, w)
    BY <1>1, <1>3, <2>1 DEF Inside, Stricter
  <2>4. QED
    BY <1>3, <2>2, <2>3 DEF Inside
<1>4. CASE Inside(bq, side, n) /\ bp # None
  <2>1. PICK w : w = IF ~bp.exclusive THEN 2 * bp.value
                     ELSE IF side.low THEN 2 * bp.value + 1 ELSE 2 * bp.value - 1
    OBVIOUS
  <2>2. w \in Number
    BY <1>4, <2>1 DEF Surrounded
  <2>3. IsAfterStricter(side, bp, bq)
    BY <1>4 DEF Narrows
  <2>4. Inside(bp, side, w)
    BY <1>1, <1>4, <2>1 DEF Inside, Stricter
  <2>5. ~Inside(bq, side, w) /\ (w = n \/ Stricter(side, n, w))
    BY <1>1, <1>4, <2>1, <2>3 DEF Inside, Stricter, IsAfterStricter
  <2>6. QED
    BY <2>2, <2>4, <2>5
<1>5. QED
  BY <1>2, <1>3, <1>4

\* What a bound lets through on its side, it lets through further that way.
LEMMA OtherSide ==
  ASSUME NEW s, NEW side \in {lower, upper}, NEW other \in {lower, upper}, other # side,
         NumberBounds(s, other), NEW n \in Int, NEW w \in Int, w = n \/ Stricter(side, n, w),
         WithinBound(s, FALSE, other, n)
  PROVE  WithinBound(s, FALSE, other, w)
<1>1. /\ lower.low = TRUE /\ upper.low = FALSE
      /\ s[other.inclusive] \in Int \cup {None} /\ s[other.exclusive] \in Int \cup {None}
  BY DEF lower, upper, NumberBounds
<1>2. (side.low = TRUE /\ other.low = FALSE) \/ (side.low = FALSE /\ other.low = TRUE)
  BY <1>1
<1>3. QED
  BY <1>1, <1>2 DEF WithinBound, Stricter

\* Every instance of p is one of q.
Contained(p, q, tolerant) ==
  \A i \in Instance : Accepts(p, FALSE, tolerant, i) => Accepts(q, FALSE, tolerant, i)

\* A schema with keywords of one group.
Sole(s, group) ==
  IsSchema(s, FALSE) /\ \A k \in (Simple \cup {"enum"}) \ group : s[k] = None

NumberInstance(n) == [kind |-> "number", value |-> n]
StringInstance(n) == [kind |-> "string", value |-> n]
FullObject == [kind |-> "object", value |-> Property]

LEMMA Instances ==
  /\ \A n \in Number : NumberInstance(n) \in Instance /\ StringInstance(n) \in Instance
  /\ FullObject \in Instance
  BY DEF Instance, NumberInstance, StringInstance, FullObject

LEMMA BoundsAcceptance ==
  ASSUME NEW s, Sole(s, BoundKeys), NEW tolerant, NEW n
  PROVE  Accepts(s, FALSE, tolerant, NumberInstance(n))
           <=> WithinBound(s, FALSE, lower, n) /\ WithinBound(s, FALSE, upper, n)
<1>1. s.type = None /\ s.enum = None /\ s.multipleOf = None
  BY DEF Sole, Simple, BoundKeys
<1>2. /\ NumberInstance(n).kind = "number" /\ NumberInstance(n).value = n
      /\ "number" # "string" /\ "number" # "object"
  BY DEF NumberInstance
<1>3. OfType(s, NumberInstance(n)) /\ InEnum(s, NumberInstance(n))
  BY <1>1 DEF OfType, InEnum
<1>4. QED
  BY <1>1, <1>2, <1>3 DEF Accepts

LEMMA BoundsFit ==
  ASSUME NEW p, NEW q, NEW tolerant, Contained(p, q, tolerant), NEW side \in {lower, upper},
         \A s \in {p, q} : /\ Sole(s, BoundKeys) /\ NumberBounds(s, lower) /\ NumberBounds(s, upper)
                           /\ Surrounded(EffectiveBound(s, side)),
         NEW n \in Number, WithinBound(p, FALSE, lower, n), WithinBound(p, FALSE, upper, n)
  PROVE  ~Narrows(side, EffectiveBound(p, side), EffectiveBound(q, side))
<1> SUFFICES ASSUME Narrows(side, EffectiveBound(p, side), EffectiveBound(q, side)) PROVE FALSE
  OBVIOUS
<1>1. PICK bp, bq : bp = EffectiveBound(p, side) /\ bq = EffectiveBound(q, side)
  OBVIOUS
<1>2. /\ BoundOf(bp, p, side) /\ BoundOf(bq, q, side)
      /\ \A m \in Int : /\ WithinBound(p, FALSE, side, m) <=> Inside(bp, side, m)
                        /\ WithinBound(q, FALSE, side, m) <=> Inside(bq, side, m)
  BY <1>1, EffectiveBoundIs
<1>3. bp \in Bound(side) \cup {None} /\ bq \in Bound(side) \cup {None}
  BY <1>2 DEF BoundOf
<1>4. n \in Int /\ Number \subseteq Int
  BY SchemaRulesAssumption
<1>5. Inside(bp, side, n)
  BY <1>2, <1>4
<1>6. PICK w \in Number : /\ Inside(bp, side, w) /\ ~Inside(bq, side, w)
                          /\ w = n \/ Stricter(side, n, w)
  BY <1>1, <1>3, <1>5, BoundGap
<1>7. PICK other \in {lower, upper} : other # side /\ {side, other} = {lower, upper}
  <2>1. lower # upper
    BY DEF lower, upper
  <2>2. QED
    BY <2>1
<1>8. WithinBound(p, FALSE, other, w)
  <2>1. /\ n \in Int /\ w \in Int /\ (w = n \/ Stricter(side, n, w))
        /\ NumberBounds(p, other) /\ WithinBound(p, FALSE, other, n)
    BY <1>4, <1>6, <1>7
  <2>2. QED
    BY <1>7, <2>1, OtherSide
<1>9. WithinBound(p, FALSE, lower, w) /\ WithinBound(p, FALSE, upper, w)
  BY <1>2, <1>4, <1>6, <1>7, <1>8
<1>10. Accepts(p, FALSE, tolerant, NumberInstance(w))
  BY <1>9, BoundsAcceptance
<1>11. Accepts(q, FALSE, tolerant, NumberInstance(w))
  BY <1>10, Instances DEF Contained
<1>12. WithinBound(q, FALSE, side, w)
  BY <1>11, BoundsAcceptance
<1>13. QED
  BY <1>2, <1>4, <1>6, <1>12

\* The lengths.
Shortens(side, lp, lq) == lq # None /\ (lp # None => Stricter(side, lq, lp))

LEMMA LengthAlarm ==
  ASSUME NEW x, NEW side \in {lower, upper}, NEW reversed \in BOOLEAN, NEW k, k = LengthOf(side),
         x.before[k] \in Nat \cup {None}, x.after[k] \in Nat \cup {None}, x.before[k] # x.after[k],
         NEW c, c = OfKeyword(x, k), VerdictAt(x, reversed, c) \in Flagged
  PROVE  Shortens(side, Held(x, reversed)[k], Holder(x, reversed)[k])
<1>1. PICK b, a : b = x.before[k] /\ a = x.after[k]
  OBVIOUS
<1>2. k \in {"minLength", "maxLength"} /\ Side(k) = side /\ k \in Simple /\ side.low \in BOOLEAN
  BY BoundRules DEF LengthOf, lower, upper, Side, Simple
<1>3. /\ c.keyword = k /\ c.before = x.before /\ c.after = x.after
      /\ b = None => Index(c.action) = 1
      /\ a = None => Index(c.action) = 2
      /\ b # None /\ a # None => Index(c.action) = 3
  BY <1>1, <1>2, KeywordDifference
<1>4. PICK r : r = jsonSchemaRules(x, c)
  OBVIOUS
<1>5. r = lengthClassifier(c, side)
  BY <1>2, <1>3, <1>4 DEF jsonSchemaRules
<1>6. r = <<"breaking", "nonBreaking", breakingIf(b = None \/ a = None \/ Stricter(side, a, b)),
            None, None, None>>
  BY <1>1, <1>3, <1>5 DEF lengthClassifier, ThreeSlots
<1>7. CASE ~reversed
  <2>1. r[Index(c.action)] \in Flagged
    BY <1>4, <1>7 DEF VerdictAt
  <2>2. Shortens(side, b, a)
    BY <1>1, <1>3, <1>6, <2>1 DEF Flagged, breakingIf, Shortens
  <2>3. QED
    BY <1>1, <1>7, <2>2 DEF Held, Holder
<1>8. CASE reversed
  <2>1. reverseClassifyRule(r)[Index(c.action)] \in Flagged
    BY <1>4, <1>8 DEF VerdictAt
  <2>2. /\ r[1] = "breaking" /\ r[2] = "nonBreaking"
        /\ r[3] = breakingIf(b = None \/ a = None \/ Stricter(side, a, b))
        /\ r[4] = None /\ r[5] = None /\ r[6] = None
    BY <1>6
  <2>3. b # None
    <3>1. reverseClassifyRule(r)[1] = "nonBreaking"
      BY <2>2, ReversedSlot DEF reverseDiffType
    <3>2. QED
      BY <1>3, <2>1, <3>1 DEF Flagged
  <2>4. ASSUME a # None PROVE Stricter(side, b, a)
    <3>1. reverseDiffType(r[3]) \in Flagged
      BY <1>3, <2>1, <2>2, <2>3, <2>4, ReversedSlot
    <3>2. r[3] # "breaking"
      BY <3>1 DEF reverseDiffType, Flagged
    <3>3. ~Stricter(side, a, b)
      BY <2>2, <3>2 DEF breakingIf
    <3>4. QED
      BY <1>1, <1>2, <2>3, <2>4, <3>3 DEF Stricter
  <2>5. QED
    BY <1>1, <1>8, <2>3, <2>4 DEF Shortens, Held, Holder
<1>9. QED
  BY <1>7, <1>8

LEMMA LengthsAcceptance ==
  ASSUME NEW s, Sole(s, LengthKeys), NEW tolerant, NEW n \in Int
  PROVE  Accepts(s, FALSE, tolerant, StringInstance(n)) <=> Fits(s, lower, n) /\ Fits(s, upper, n)
<1>1. s.type = None /\ s.enum = None
  BY DEF Sole, Simple, LengthKeys
<1>2. /\ StringInstance(n).kind = "string" /\ StringInstance(n).value = n
      /\ "string" # "number" /\ "string" # "object"
  BY DEF StringInstance
<1>3. OfType(s, StringInstance(n)) /\ InEnum(s, StringInstance(n))
  BY <1>1 DEF OfType, InEnum
<1>4. s.minLength \in Nat \cup {None} /\ s.maxLength \in Nat \cup {None}
  BY DEF Sole, IsSchema
<1>5. /\ lower.low = TRUE /\ upper.low = FALSE
      /\ LengthOf(lower) = "minLength" /\ LengthOf(upper) = "maxLength"
  BY DEF lower, upper, LengthOf
<1>6. /\ Fits(s, lower, n) <=> (s.minLength # None => n >= s.minLength)
      /\ Fits(s, upper, n) <=> (s.maxLength # None => n <= s.maxLength)
  BY <1>4, <1>5 DEF Fits, Stricter
<1>7. QED
  BY <1>2, <1>3, <1>6 DEF Accepts

LEMMA LengthsFit ==
  ASSUME NEW p, NEW q, NEW tolerant, Contained(p, q, tolerant), NEW side \in {lower, upper},
         NEW k, k = LengthOf(side),
         \A s \in {p, q} : /\ Sole(s, LengthKeys)
                           /\ s[k] # None => {s[k] - 1, s[k], s[k] + 1} \subseteq Number,
         NEW n \in Number, Fits(p, lower, n), Fits(p, upper, n)
  PROVE  ~Shortens(side, p[k], q[k])
<1> SUFFICES ASSUME Shortens(side, p[k], q[k]) PROVE FALSE
  OBVIOUS
<1>1. PICK lp, lq : lp = p[k] /\ lq = q[k]
  OBVIOUS
<1>2. \A s \in {p, q} : s.minLength \in Nat \cup {None} /\ s.maxLength \in Nat \cup {None}
  BY DEF Sole, IsSchema
<1>3. PICK other \in {lower, upper} :
        /\ {side, other} = {lower, upper}
        /\ (side.low = TRUE /\ other.low = FALSE) \/ (side.low = FALSE /\ other.low = TRUE)
  <2>1. lower.low = TRUE /\ upper.low = FALSE
    BY DEF lower, upper
  <2>2. QED
    BY <2>1
<1>4. /\ LengthOf(side) \in {"minLength", "maxLength"} /\ LengthOf(other) \in {"minLength", "maxLength"}
  BY DEF LengthOf
<1>5. PICK lo : lo = p[LengthOf(other)]
  OBVIOUS
<1>6. /\ lp \in Int \cup {None} /\ lq \in Int \ {None} /\ lo \in Int \cup {None} /\ n \in Int
      /\ Number \subseteq Int
  BY <1>1, <1>2, <1>4, <1>5, SchemaRulesAssumption DEF Shortens
<1>7. Fits(p, side, n) /\ Fits(p, other, n)
  BY <1>3
<1>8. \E w \in Number : Fits(p, side, w) /\ ~Fits(q, side, w) /\ (w = n \/ Stricter(side, n, w))
  <2>1. CASE ~Fits(q, side, n)
    BY <1>7, <2>1
  <2>2. CASE Fits(q, side, n) /\ lp = None
    <3>1. PICK w : w = IF side.low THEN lq - 1 ELSE lq + 1
      OBVIOUS
    <3>2. w \in Number
      BY <1>1, <1>6, <3>1
    <3>3. ~Fits(q, side, w) /\ Stricter(side, n, w)
      BY <1>1, <1>3, <1>6, <2>2, <3>1 DEF Fits, Stricter
    <3>4. Fits(p, side, w)
      BY <1>1, <2>2 DEF Fits
    <3>5. QED
      BY <3>2, <3>3, <3>4
  <2>3. CASE Fits(q, side, n) /\ lp # None
    <3>1. lp \in Number /\ Stricter(side, lq, lp)
      BY <1>1, <2>3 DEF Shortens
    <3>2. Fits(p, side, lp) /\ ~Fits(q, side, lp) /\ Stricter(side, n, lp)
      BY <1>1, <1>3, <1>6, <2>3, <3>1 DEF Fits, Stricter
    <3>3. QED
      BY <3>1, <3>2
  <2>4. QED
    BY <2>1, <2>2, <2>3
<1>9. PICK w \in Number : Fits(p, side, w) /\ ~Fits(q, side, w) /\ (w = n \/ Stricter(side, n, w))
  BY <1>8
<1>10. Fits(p, other, w)
  <2>1. w \in Int /\ (lo # None => ~Stricter(other, lo, n))
    BY <1>5, <1>6, <1>7 DEF Fits
  <2>2. lo # None => ~Stricter(other, lo, w)
    BY <1>3, <1>6, <1>9, <2>1 DEF Stricter
  <2>3. QED
    BY <1>5, <2>2 DEF Fits
<1>11. Fits(p, lower, w) /\ Fits(p, upper, w) /\ w \in Int
  BY <1>3, <1>6, <1>9, <1>10
<1>12. Accepts(p, FALSE, tolerant, StringInstance(w))
  BY <1>11, LengthsAcceptance
<1>13. Accepts(q, FALSE, tolerant, StringInstance(w))
  BY <1>12, Instances DEF Contained
<1>14. Fits(q, lower, w) /\ Fits(q, upper, w)
  BY <1>11, <1>13, LengthsAcceptance
<1>15. QED
  BY <1>3, <1>9, <1>14

\* The type.
LEMMA TypeAlarm ==
  ASSUME NEW x, NEW reversed \in BOOLEAN, x.before.type # x.after.type,
         x.before.type # None, x.after.type # None,
         NEW c, c = OfKeyword(x, "type"), VerdictAt(x, reversed, c) \in Flagged
  PROVE  ~Assignable(Held(x, reversed).type, Holder(x, reversed).type)
<1>1. /\ c.keyword = "type" /\ c.before = x.before /\ c.after = x.after /\ Index(c.action) = 3
  <2>1. "type" \in Simple
    BY DEF Simple
  <2>2. QED
    BY <2>1, KeywordDifference
<1>2. PICK r : r = jsonSchemaRules(x, c)
  OBVIOUS
<1>3. r = typeClassifier(c)
  BY <1>1, <1>2 DEF jsonSchemaRules
<1>4. /\ r[3] = breakingIf(~Assignable(x.before.type, x.after.type))
      /\ r[6] = breakingIf(~Assignable(x.after.type, x.before.type))
  BY <1>1, <1>3 DEF typeClassifier
<1>5. None # "breaking" /\ None # "nonBreaking"
  BY RulesAssumption DEF Slots, Verdicts
<1>6. CASE ~reversed
  BY <1>1, <1>2, <1>4, <1>6 DEF VerdictAt, Flagged, breakingIf, Held, Holder
<1>7. CASE reversed
  <2>1. r[6] # None
    BY <1>4, <1>5 DEF breakingIf
  <2>2. r[6] \in Flagged
    BY <1>1, <1>2, <1>7, <2>1, ReversedSlot DEF VerdictAt
  <2>3. QED
    BY <1>4, <1>7, <2>2 DEF Flagged, breakingIf, Held, Holder
<1>8. QED
  BY <1>6, <1>7

LEMMA TypesAcceptance ==
  ASSUME NEW s, Sole(s, {"type"}), NEW tolerant, NEW i \in Instance, i.kind = "object" => i = FullObject
  PROVE  Accepts(s, FALSE, tolerant, i) <=> OfType(s, i)
<1>1. /\ s.enum = None /\ s.multipleOf = None /\ s.minLength = None /\ s.maxLength = None
      /\ s.minimum = None /\ s.exclusiveMinimum = None /\ s.maximum = None /\ s.exclusiveMaximum = None
  BY DEF Sole, Simple
<1>2. InEnum(s, i) /\ WithinBound(s, FALSE, lower, i.value) /\ WithinBound(s, FALSE, upper, i.value)
  BY <1>1 DEF InEnum, WithinBound, lower, upper
<1>3. i.kind = "object" => \A p \in s.required : p \in i.value
  BY DEF FullObject, Sole, IsSchema
<1>4. QED
  BY <1>1, <1>2, <1>3 DEF Accepts

LEMMA TypesFit ==
  ASSUME NEW p, NEW q, NEW tolerant, Contained(p, q, tolerant),
         \A s \in {p, q} : Sole(s, {"type"}) /\ s.type \in Types,
         NEW even \in Number, even % 2 = 0, NEW odd \in Number, odd % 2 = 1
  PROVE  Assignable(p.type, q.type)
<1>1. ASSUME NEW i \in {NumberInstance(even), NumberInstance(odd), StringInstance(even), FullObject},
             OfType(p, i)
      PROVE  OfType(q, i)
  <2>1. i \in Instance /\ (i.kind = "object" => i = FullObject)
    <3>1. /\ NumberInstance(even).kind # "object" /\ NumberInstance(odd).kind # "object"
          /\ StringInstance(even).kind # "object"
      BY DEF NumberInstance, StringInstance
    <3>2. QED
      BY <3>1, Instances
  <2>2. QED
    BY <1>1, <2>1, TypesAcceptance DEF Contained
<1>2. /\ NumberInstance(even).kind = "number" /\ NumberInstance(even).value % 2 = 0
      /\ NumberInstance(odd).kind = "number" /\ NumberInstance(odd).value % 2 # 0
      /\ StringInstance(even).kind = "string" /\ FullObject.kind = "object"
  BY DEF NumberInstance, StringInstance, FullObject
<1>3. None \notin Types
  BY SchemaRulesAssumption
<1>4. PICK t, u : t = p.type /\ u = q.type /\ t \in Types /\ u \in Types
  OBVIOUS
<1>5. /\ t \in {"any", "object"} => u \in {"any", "object"}
      /\ t \in {"any", "string"} => u \in {"any", "string"}
      /\ t \in {"any", "number"} => u \in {"any", "number"}
      /\ t \in {"any", "number", "integer"} => u \in {"any", "number", "integer"}
  <2>1. t \in {"any", "object"} => u \in {"any", "object"}
    BY <1>1, <1>2, <1>3, <1>4 DEF OfType, Types
  <2>2. t \in {"any", "string"} => u \in {"any", "string"}
    BY <1>1, <1>2, <1>3, <1>4 DEF OfType, Types
  <2>3. t \in {"any", "number"} => u \in {"any", "number"}
    BY <1>1, <1>2, <1>3, <1>4 DEF OfType, Types
  <2>4. t \in {"any", "number", "integer"} => u \in {"any", "number", "integer"}
    BY <1>1, <1>2, <1>3, <1>4 DEF OfType, Types
  <2>5. QED
    BY <2>1, <2>2, <2>3, <2>4
<1>6. QED
  BY <1>4, <1>5 DEF Types, Assignable

\* The enumeration.
NarrowsEnum(ep, eq) ==
  eq \notin {None, {}} /\ (ep \in {None, {}} \/ \E v \in ep : v \notin eq)

LEMMA EnumAlarm ==
  ASSUME NEW x, NEW reversed \in BOOLEAN, {x.before.enum, x.after.enum} # {None, {}},
         x.before.enum = None \/ x.before.enum \subseteq Int,
         x.after.enum = None \/ x.after.enum \subseteq Int,
         NEW c \in EnumDifferences(x), VerdictAt(x, reversed, c) \in Flagged
  PROVE  NarrowsEnum(Held(x, reversed).enum, Holder(x, reversed).enum)
<1>1. PICK b, a : b = x.before.enum /\ a = x.after.enum
  OBVIOUS
<1>2. None # "risky" /\ None # "nonBreaking" /\ None # "breaking" /\ None \notin Int
  BY RulesAssumption, SchemaRulesAssumption DEF Slots, Verdicts
<1>3. PICK r : r = jsonSchemaRules(x, c)
  OBVIOUS
<1>4. /\ ~reversed => r[Index(c.action)] \in Flagged
      /\ reversed => reverseClassifyRule(r)[Index(c.action)] \in Flagged
  BY <1>3 DEF VerdictAt
<1>5. CASE b = None \/ a = None
  <2>1. c = Difference(x, "enum", None, Changed(b, a)) /\ ~(b = None /\ a = None)
    BY <1>1, <1>5 DEF EnumDifferences
  <2>2. c.keyword = "enum" /\ c.item = None /\ c.action = Changed(b, a)
    BY <2>1 DEF Difference
  <2>3. r = <<"breaking", "nonBreaking", "breaking", "nonBreaking", "risky", "nonBreaking">>
    BY <1>3, <2>2 DEF jsonSchemaRules, enumKeywordClassifier
  <2>4. /\ reverseClassifyRule(r)[1] = "nonBreaking" /\ reverseClassifyRule(r)[2] = "risky"
        /\ r[1] = "breaking" /\ r[2] = "nonBreaking"
    BY <1>2, <2>3, ReversedSlot
  <2>5. Index(c.action) = IF b = None THEN 1 ELSE 2
    BY <1>5, <2>1, <2>2 DEF Changed, Index
  <2>6. (b = None /\ a # {} /\ ~reversed) \/ (a = None /\ b # {} /\ b # None /\ reversed)
    BY <1>1, <1>4, <1>5, <2>1, <2>4, <2>5 DEF Flagged
  <2>7. QED
    BY <1>1, <1>5, <2>1, <2>6 DEF NarrowsEnum, Held, Holder
<1>6. CASE b # None /\ a # None
  <2>1. PICK v : \/ v \in b \ a /\ c = Difference(x, "enum", v, "remove")
                 \/ v \in a \ b /\ c = Difference(x, "enum", v, "add")
    BY <1>1, <1>6 DEF EnumDifferences, ItemDifferences
  <2>a. v # None
    BY <1>1, <1>2, <1>6, <2>1
  <2>2. c.keyword = "enum" /\ c.item = v /\ v # None /\ c.before = x.before /\ c.after = x.after
    BY <2>1, <2>a DEF Difference
  <2>3. r = enumClassifyRule(c)
    BY <1>3, <2>2 DEF jsonSchemaRules
  <2>4. r = <<IF b # {} THEN "nonBreaking" ELSE "breaking",
              IF a # {} THEN "breaking" ELSE "nonBreaking",
              "breaking",
              IF b # {} THEN "risky" ELSE "nonBreaking",
              IF a # {} THEN "nonBreaking" ELSE "risky",
              "nonBreaking">>
    BY <1>1, <2>2, <2>3 DEF enumClassifyRule
  <2>5. /\ r[1] = (IF b # {} THEN "nonBreaking" ELSE "breaking")
        /\ r[2] = (IF a # {} THEN "breaking" ELSE "nonBreaking")
        /\ r[4] = (IF b # {} THEN "risky" ELSE "nonBreaking")
        /\ r[5] = (IF a # {} THEN "nonBreaking" ELSE "risky")
    BY <2>4
  <2>6. reverseClassifyRule(r)[1] = r[4] /\ reverseClassifyRule(r)[2] = r[5]
    BY <1>2, <2>5, ReversedSlot
  <2>7. CASE v \in b \ a /\ c = Difference(x, "enum", v, "remove")
    <3>1. Index(c.action) = 2
      BY <2>7 DEF Difference, Index
    <3>2. (~reversed /\ a # {}) \/ (reversed /\ a = {})
      BY <1>4, <2>5, <2>6, <3>1 DEF Flagged
    <3>3. QED
      BY <1>1, <1>6, <2>7, <3>2 DEF NarrowsEnum, Held, Holder
  <2>8. CASE v \in a \ b /\ c = Difference(x, "enum", v, "add")
    <3>1. Index(c.action) = 1
      BY <2>8 DEF Difference, Index
    <3>2. (~reversed /\ b = {}) \/ (reversed /\ b # {})
      BY <1>4, <2>5, <2>6, <3>1 DEF Flagged
    <3>3. QED
      BY <1>1, <1>6, <2>8, <3>2 DEF NarrowsEnum, Held, Holder
  <2>9. QED
    BY <2>1, <2>7, <2>8
<1>7. QED
  BY <1>5, <1>6

LEMMA EnumFit ==
  ASSUME NEW p, NEW q, NEW tolerant, Contained(p, q, tolerant),
         \A s \in {p, q} : Sole(s, {"enum"}) /\ (s.enum # None => \A v \in s.enum : 2 * v \in Number)
  PROVE  ~NarrowsEnum(p.enum, q.enum)
<1> SUFFICES ASSUME NarrowsEnum(p.enum, q.enum) PROVE FALSE
  OBVIOUS
<1>1. ASSUME NEW i \in Instance, i.kind = "number" \/ i = FullObject, NEW s \in {p, q}
      PROVE  Accepts(s, FALSE, tolerant, i) <=> InEnum(s, i)
  <2>1. /\ s.type = None /\ s.multipleOf = None
        /\ s.minimum = None /\ s.exclusiveMinimum = None /\ s.maximum = None /\ s.exclusiveMaximum = None
    BY DEF Sole, Simple
  <2>2. OfType(s, i) /\ WithinBound(s, FALSE, lower, i.value) /\ WithinBound(s, FALSE, upper, i.value)
    BY <2>1 DEF OfType, WithinBound, lower, upper
  <2>3. i.kind # "string" /\ (i.kind = "object" => \A k \in s.required : k \in i.value)
    BY <1>1 DEF FullObject, Sole, IsSchema
  <2>4. QED
    BY <2>1, <2>2, <2>3 DEF Accepts
<1>2. CASE p.enum \in {None, {}}
  <2>1. InEnum(p, FullObject) /\ ~InEnum(q, FullObject)
    BY <1>2 DEF InEnum, FullObject, NarrowsEnum
  <2>2. QED
    BY <1>1, <2>1, Instances DEF Contained
<1>3. CASE p.enum \notin {None, {}}
  <2>1. PICK v \in p.enum : v \notin q.enum
    BY <1>3 DEF NarrowsEnum
  <2>2. 2 * v \in Number /\ v \in Int /\ q.enum \subseteq Int
    BY <1>3, <2>1 DEF Sole, IsSchema, NarrowsEnum
  <2>3. PICK i \in Instance : i = NumberInstance(2 * v) /\ i.kind = "number" /\ i.value = 2 * v
    BY <2>2, Instances DEF NumberInstance
  <2>4. InEnum(p, i) /\ ~InEnum(q, i)
    BY <1>3, <2>1, <2>2, <2>3 DEF InEnum, NarrowsEnum
  <2>5. QED
    BY <1>1, <2>3, <2>4 DEF Contained
<1>4. QED
  BY <1>2, <1>3

\* A comparison the rules are made to be exact for.
Exact(x) ==
  /\ IsComparison(x) /\ ~x.draft04 /\ ~x.crossing /\ Rich(x)
  /\ \A s \in {x.before, x.after} :
        /\ Unified(s)
        /\ s.type = None => Holds(s, "number")
        /\ s.type = None /\ s.enum = None => Holds(s, "string")
  /\ x.before.type = None <=> x.after.type = None
  /\ {x.before.enum, x.after.enum} # {None, {}}

LEMMA BoundsQuiet ==
  ASSUME NEW x, Exact(x), NEW reversed \in BOOLEAN, NEW tolerant,
         Contained(Held(x, reversed), Holder(x, reversed), tolerant),
         \A s \in {x.before, x.after} : Sole(s, BoundKeys),
         NEW k \in BoundKeys, x.before[k] # x.after[k], NEW c, c = OfKeyword(x, k)
  PROVE  VerdictAt(x, reversed, c) \notin Flagged
<1> SUFFICES ASSUME VerdictAt(x, reversed, c) \in Flagged PROVE FALSE
  OBVIOUS
<1>1. PICK p, q : p = Held(x, reversed) /\ q = Holder(x, reversed)
  OBVIOUS
<1>2. p \in {x.before, x.after} /\ q \in {x.before, x.after}
  BY <1>1 DEF Held, Holder
<1>3. PICK side \in {lower, upper} : k \in {side.inclusive, side.exclusive}
  BY DEF BoundKeys, lower, upper
<1>4. ASSUME NEW s \in {x.before, x.after}
      PROVE  /\ NumberBounds(s, lower) /\ NumberBounds(s, upper)
             /\ Surrounded(EffectiveBound(s, side))
  <2>1. IsSchema(s, FALSE) /\ Unified(s)
    BY DEF Sole, Exact
  <2>2. NumberBounds(s, lower) /\ NumberBounds(s, upper)
    BY <2>1 DEF IsSchema, Unified, NumberBounds, lower, upper
  <2>3. PICK e : e = EffectiveBound(s, side)
    OBVIOUS
  <2>4. BoundOf(e, s, side)
    BY <2>2, <2>3, EffectiveBoundIs
  <2>5. ASSUME e # None PROVE {2 * e.value - 1, 2 * e.value, 2 * e.value + 1} \subseteq Number
    <3>1. e.property \in {side.inclusive, side.exclusive} /\ e.value \in Int /\ s[e.property] = e.value
      BY <2>4, <2>5 DEF BoundOf, Bound
    <3>2. e.property \in BoundKeys /\ s[e.property] # None
      BY <3>1, SchemaRulesAssumption DEF lower, upper, BoundKeys
    <3>3. QED
      BY <3>1, <3>2 DEF Exact, Rich
  <2>6. QED
    BY <2>2, <2>3, <2>5 DEF Surrounded
<1>5. ~x.draft04 /\ NumberBounds(x.before, side) /\ NumberBounds(x.after, side)
  BY <1>4 DEF Exact
<1>6. Narrows(side, EffectiveBound(p, side), EffectiveBound(q, side))
  BY <1>1, <1>3, <1>5, BoundAlarm
<1>7. p.type = None
  BY <1>2 DEF Sole, Simple, BoundKeys
<1>8. PICK i \in Instance : i.kind = "number" /\ Accepts(p, FALSE, FALSE, i)
  BY <1>2, <1>7 DEF Exact, Holds
<1>9. i.value \in Number
  BY <1>8 DEF Instance
<1>10. WithinBound(p, FALSE, lower, i.value) /\ WithinBound(p, FALSE, upper, i.value)
  BY <1>8 DEF Accepts
<1>11. \A s \in {p, q} : /\ Sole(s, BoundKeys) /\ NumberBounds(s, lower) /\ NumberBounds(s, upper)
                         /\ Surrounded(EffectiveBound(s, side))
  BY <1>2, <1>4
<1>12. QED
  BY <1>1, <1>6, <1>9, <1>10, <1>11, BoundsFit

LEMMA LengthsQuiet ==
  ASSUME NEW x, Exact(x), NEW reversed \in BOOLEAN, NEW tolerant,
         Contained(Held(x, reversed), Holder(x, reversed), tolerant),
         \A s \in {x.before, x.after} : Sole(s, LengthKeys),
         NEW k \in LengthKeys, x.before[k] # x.after[k], NEW c, c = OfKeyword(x, k)
  PROVE  VerdictAt(x, reversed, c) \notin Flagged
<1> SUFFICES ASSUME VerdictAt(x, reversed, c) \in Flagged PROVE FALSE
  OBVIOUS
<1>1. PICK p, q : p = Held(x, reversed) /\ q = Holder(x, reversed)
  OBVIOUS
<1>2. p \in {x.before, x.after} /\ q \in {x.before, x.after}
  BY <1>1 DEF Held, Holder
<1>3. PICK side \in {lower, upper} : k = LengthOf(side)
  BY DEF LengthKeys, LengthOf, lower, upper
<1>4. x.before[k] \in Nat \cup {None} /\ x.after[k] \in Nat \cup {None}
  BY DEF Sole, IsSchema, LengthKeys
<1>5. Shortens(side, p[k], q[k])
  BY <1>1, <1>3, <1>4, LengthAlarm
<1>6. p.type = None /\ p.enum = None
  BY <1>2 DEF Sole, Simple, LengthKeys
<1>7. PICK i \in Instance : i.kind = "string" /\ Accepts(p, FALSE, FALSE, i)
  BY <1>2, <1>6 DEF Exact, Holds
<1>8. i.value \in Number /\ i = StringInstance(i.value)
  BY <1>7 DEF Instance, StringInstance
<1>9. Fits(p, lower, i.value) /\ Fits(p, upper, i.value)
  <2>1. Accepts(p, FALSE, FALSE, StringInstance(i.value))
    BY <1>7, <1>8
  <2>2. i.value \in Int
    BY <1>8, SchemaRulesAssumption
  <2>3. QED
    BY <1>2, <2>1, <2>2, LengthsAcceptance
<1>10. \A s \in {p, q} : /\ Sole(s, LengthKeys)
                         /\ s[k] # None => {s[k] - 1, s[k], s[k] + 1} \subseteq Number
  BY <1>2 DEF Exact, Rich
<1>11. QED
  BY <1>1, <1>3, <1>5, <1>8, <1>9, <1>10, LengthsFit

LEMMA TypeQuiet ==
  ASSUME NEW x, Exact(x), NEW reversed \in BOOLEAN, NEW tolerant,
         Contained(Held(x, reversed), Holder(x, reversed), tolerant),
         \A s \in {x.before, x.after} : Sole(s, {"type"}),
         x.before.type # x.after.type, NEW c, c = OfKeyword(x, "type")
  PROVE  VerdictAt(x, reversed, c) \notin Flagged
<1>1. PICK p, q : p = Held(x, reversed) /\ q = Holder(x, reversed)
  OBVIOUS
<1>2. p \in {x.before, x.after} /\ q \in {x.before, x.after}
  BY <1>1 DEF Held, Holder
<1>3. x.before.type # None /\ x.after.type # None
  BY DEF Exact
<1>4. \A s \in {p, q} : Sole(s, {"type"}) /\ s.type \in Types
  BY <1>2, <1>3 DEF Exact, Rich
<1>5. PICK even, odd \in Number : even % 2 = 0 /\ odd % 2 = 1
  BY DEF Exact, Rich
<1>6. Assignable(p.type, q.type)
  BY <1>1, <1>4, <1>5, TypesFit
<1>7. QED
  BY <1>1, <1>3, <1>6, TypeAlarm

LEMMA EnumQuiet ==
  ASSUME NEW x, Exact(x), NEW reversed \in BOOLEAN, NEW tolerant,
         Contained(Held(x, reversed), Holder(x, reversed), tolerant),
         \A s \in {x.before, x.after} : Sole(s, {"enum"}),
         NEW c \in EnumDifferences(x)
  PROVE  VerdictAt(x, reversed, c) \notin Flagged
<1>1. PICK p, q : p = Held(x, reversed) /\ q = Holder(x, reversed)
  OBVIOUS
<1>2. p \in {x.before, x.after} /\ q \in {x.before, x.after}
  BY <1>1 DEF Held, Holder
<1>3. \A s \in {p, q} : Sole(s, {"enum"}) /\ (s.enum # None => \A v \in s.enum : 2 * v \in Number)
  BY <1>2 DEF Exact, Rich
<1>4. ~NarrowsEnum(p.enum, q.enum)
  BY <1>1, <1>3, EnumFit
<1>5. \A s \in {x.before, x.after} : s.enum = None \/ s.enum \subseteq Int
  BY DEF Sole, IsSchema
<1>6. {x.before.enum, x.after.enum} # {None, {}}
  BY DEF Exact
<1>7. QED
  BY <1>1, <1>4, <1>5, <1>6, EnumAlarm

LEMMA FittingIsQuiet ==
  ASSUME NEW x, Exact(x), OneGroup(x), NEW reversed \in BOOLEAN, NEW tolerant,
         Contained(Held(x, reversed), Holder(x, reversed), tolerant),
         NEW c \in Differences(x), c.keyword \notin {"properties", "required", "default"}
  PROVE  VerdictAt(x, reversed, c) \notin Flagged
<1>1. PICK group \in {BoundKeys, LengthKeys, {"type"}, {"enum"}} :
        \A k \in (Simple \cup {"enum"}) \ group : x.before[k] = None /\ x.after[k] = None
  BY DEF OneGroup
<1>2. \A s \in {x.before, x.after} : Sole(s, group)
  <2>1. IsSchema(x.before, FALSE) /\ IsSchema(x.after, FALSE)
    <3>1. x.draft04 = FALSE /\ (x.draft04 \/ x.crossing) = FALSE
      BY DEF Exact, IsComparison
    <3>2. QED
      BY <3>1 DEF Exact, IsComparison
  <2>2. QED
    BY <1>1, <2>1 DEF Sole
<1>3. ASSUME NEW k \in Simple, x.before[k] # x.after[k], c = OfKeyword(x, k)
      PROVE  VerdictAt(x, reversed, c) \notin Flagged
  <2>1. k \in group /\ k # "enum"
    BY <1>1, <1>3 DEF Simple
  <2>2. CASE group = BoundKeys
    BY <1>2, <1>3, <2>1, <2>2, BoundsQuiet
  <2>3. CASE group = LengthKeys
    BY <1>2, <1>3, <2>1, <2>3, LengthsQuiet
  <2>4. CASE group = {"type"}
    <3>1. k = "type"
      BY <2>1, <2>4
    <3>2. QED
      BY <1>2, <1>3, <2>4, <3>1, TypeQuiet
  <2>5. QED
    BY <1>1, <2>1, <2>2, <2>3, <2>4
<1>4. CASE c \in EnumDifferences(x)
  <2>1. "enum" \in group
    BY <1>1, <1>4 DEF EnumDifferences
  <2>2. group = {"enum"}
    BY <2>1 DEF BoundKeys, LengthKeys
  <2>3. QED
    BY <1>2, <1>4, <2>2, EnumQuiet
<1>5. CASE c \in SimpleDifferences(x)
  <2>1. PICK k \in Simple : x.before[k] # x.after[k] /\ c = OfKeyword(x, k)
    BY <1>5 DEF SimpleDifferences, OfKeyword
  <2>2. QED
    BY <1>3, <2>1
<1>6. c \notin ItemDifferences(x, "required")
  BY DEF ItemDifferences, Difference
<1>7. c \notin PropertyDifferences(x)
  BY DEF PropertyDifferences, Difference
<1>8. QED
  BY <1>4, <1>5, <1>6, <1>7 DEF Differences

(***************************************************************************)
(* A compatible change is not flagged: for any bounds, any lengths, any    *)
(* enumerations and all types, each kind of them changed without the       *)
(* others, when a request keeps every value it could hold and a response   *)
(* holds no new one, no difference is breaking or risky.                   *)
(***************************************************************************)
THEOREM NoLossNotFlagged ==
  ASSUME \A x \in Input : ~x.draft04 /\ ~x.crossing => Rich(x)
  PROVE  Spec => []NoFalseAlarm
<1>1. VerdictsInv => NoFalseAlarm
  <2> SUFFICES ASSUME VerdictsInv, Done, Undisturbed, Lost = {}, asked.nots = 0,
                      ~asked.draft04, ~asked.crossing, OneGroup(asked),
                      \A s \in {asked.before, asked.after} :
                        /\ Unified(s)
                        /\ s.type = None => Holds(s, "number")
                        /\ s.type = None /\ s.enum = None => Holds(s, "string"),
                      asked.before.type = None <=> asked.after.type = None,
                      {asked.before.enum, asked.after.enum} # {None, {}},
                      \A c \in DOMAIN type : c.keyword \notin {"properties", "required", "default"},
                      NEW c \in DOMAIN type
               PROVE  ~Flags(c)
    BY DEF NoFalseAlarm
  <2>1. asked \in Input /\ IsComparison(asked)
    BY VerdictsAssumption DEF VerdictsInv
  <2>2. Exact(asked)
    BY <2>1 DEF Exact
  <2>3. Adapted(asked) = asked
    BY DEF Adapted
  <2>4. DOMAIN type = Differences(asked)
    BY <2>3 DEF VerdictsInv, Done
  <2>5. PICK reversed \in BOOLEAN : reversed <=> TurnedRound(asked)
    <3>1. (TRUE <=> TurnedRound(asked)) \/ (FALSE <=> TurnedRound(asked))
      OBVIOUS
    <3>2. QED
      BY <3>1
  <2>6. PICK turns : turns = Reversals
    OBVIOUS
  <2>7. /\ turns = asked.nots + (IF TurnedRound(asked) THEN 1 ELSE 0)
        /\ turns = (IF reversed THEN 1 ELSE 0)
    <3>1. turns = asked.nots + (IF TurnedRound(asked) THEN 1 ELSE 0)
      BY <2>6 DEF Reversals, TurnedRound
    <3>2. QED
      BY <2>5, <3>1
  <2>8. Contained(Held(asked, reversed), Holder(asked, reversed), turns = 0)
    <3>1. asked.draft04 = FALSE /\ (asked.draft04 \/ asked.crossing) = FALSE
      BY <2>1 DEF IsComparison
    <3>2. CASE reversed
      <4>1. Lost = AcceptedAfter(turns = 0) \ AcceptedBefore(turns = 0)
        <5>1. turns = 1 /\ ~(Reversals % 2 = 0)
          BY <2>6, <2>7, <3>2
        <5>2. QED
          BY <2>6, <5>1 DEF Lost
      <4>2. QED
        BY <3>1, <3>2, <4>1 DEF Contained, Held, Holder, AcceptedAfter, AcceptedBefore
    <3>3. CASE ~reversed
      <4>1. Lost = AcceptedBefore(turns = 0) \ AcceptedAfter(turns = 0)
        <5>1. turns = 0 /\ Reversals % 2 = 0
          BY <2>6, <2>7, <3>3
        <5>2. QED
          BY <2>6, <5>1 DEF Lost
      <4>2. QED
        BY <3>1, <3>3, <4>1 DEF Contained, Held, Holder, AcceptedAfter, AcceptedBefore
    <3>4. QED
      BY <3>2, <3>3
  <2>9. VerdictAt(asked, reversed, c) \notin Flagged
    BY <2>2, <2>4, <2>8, FittingIsQuiet
  <2>10. Slot(asked, c) = VerdictAt(asked, turns = 1, c) /\ (turns = 1) = reversed
    <3>1. IsDifference(c) /\ turns \in {0, 1}
      BY <2>7 DEF VerdictsInv
    <3>2. QED
      BY <2>1, <2>7, <3>1, SlotIsVerdictAt
  <2>11. Start(asked, c) \notin Flagged /\ Start(asked, c) \in Verdicts
    <3>1. IsDifference(c)
      BY DEF VerdictsInv
    <3>2. Start(asked, c) \in Verdicts
      BY <2>1, <3>1, StartIsVerdict
    <3>3. QED
      BY <2>9, <2>10, <3>2 DEF Start, Flagged
  <2>12. Result(asked, c) = Computed(Start(asked, c))
    BY <2>11, NoReclassification DEF Result, Undisturbed
  <2>13. type[c] = Start(asked, c)
    BY <2>12 DEF VerdictsInv, AsMade, Computed
  <2>14. QED
    BY <2>11, <2>13 DEF Flags, Flagged
<1>2. QED
  BY VerdictsHold, <1>1, PTL

=============================================================================
