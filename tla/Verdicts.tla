-------------------------------- MODULE Verdicts --------------------------------
(***************************************************************************)
(* The verdicts on the differences of two schemas: each is made by         *)
(* createDiff (diff.ts) with the rule of its keyword, turned round as      *)
(* often as the place of the schemas asks for, and goes through the        *)
(* reclassification rules of the caller.                                   *)
(***************************************************************************)
EXTENDS SchemaRules, SequencesExt

CONSTANT Input  \* the comparisons of two schemas

(***************************************************************************)
(* place: in a request or response of OpenAPI, or in a message AsyncAPI    *)
(* sends or receives; nots: how many "not" the schemas are inside of;      *)
(* draft04: both are of OpenAPI 3.0; crossing: only before is; custom: the *)
(* rule of a keyword that the caller added; reclassification: what each    *)
(* rule of the caller makes of a verdict, None when it declines.           *)
(***************************************************************************)
Simple == {"minimum", "exclusiveMinimum", "maximum", "exclusiveMaximum", "minLength",
           "maxLength", "multipleOf", "type", "custom"}

IsComparison(x) ==
  /\ DOMAIN x = {"before", "after", "place", "nots", "draft04", "crossing", "custom",
                 "reclassification"}
  /\ x.place \in {"request", "response", "send", "receive"}
  /\ x.nots \in Nat /\ {x.draft04, x.crossing} \subseteq BOOLEAN /\ ~(x.draft04 /\ x.crossing)
  /\ x.custom \in ClassifyRule
  /\ \A n \in 1 .. 3 : x.custom[n] # None
  /\ x.reclassification \in Seq([Verdicts -> Slots \cup {None}])
  /\ \A s \in {x.before, x.after} : DOMAIN s = Simple \cup {"enum", "required", "properties"}
  /\ IsSchema(x.before, x.draft04 \/ x.crossing) /\ IsSchema(x.after, x.draft04)

ASSUME VerdictsAssumption == \A x \in Input : IsComparison(x)

VARIABLES
  asked,   \* the comparison
  round,   \* "adapt", "classify"
  left,    \* the differences still to be made
  type,    \* the verdict on each difference made
  errors   \* how often onCreateDiffError was called for each of them

vars == <<asked, round, left, type, errors>>

-----------------------------------------------------------------------------
(***************************************************************************)
(* The differences of two schemas.                                         *)
(***************************************************************************)
\* What became of a value that is present on a side unless it is None.
Changed(b, a) == IF b = None THEN "add" ELSE IF a = None THEN "remove" ELSE "replace"

Difference(x, keyword, item, action) ==
  [keyword |-> keyword, item |-> item, action |-> action, before |-> x.before, after |-> x.after]

SimpleDifferences(x) ==
  {Difference(x, k, None, Changed(x.before[k], x.after[k])) :
     k \in {k \in Simple : x.before[k] # x.after[k]}}

\* The elements of two arrays that are matched by equality.
ItemDifferences(x, keyword) ==
  LET b == x.before[keyword]  a == x.after[keyword]
  IN  {Difference(x, keyword, i, "remove") : i \in b \ a}
        \cup {Difference(x, keyword, i, "add") : i \in a \ b}

EnumDifferences(x) ==
  IF x.before.enum = None /\ x.after.enum = None THEN {}
  ELSE IF None \in {x.before.enum, x.after.enum}
       THEN {Difference(x, "enum", None, Changed(x.before.enum, x.after.enum))}
       ELSE ItemDifferences(x, "enum")

PropertyDifferences(x) ==
  LET b == x.before.properties  a == x.after.properties
      one == {p \in Property : b[p] # a[p] /\ None \in {b[p], a[p]}}
      both == {p \in Property : b[p] # a[p]} \ one
  IN  {Difference(x, "properties", p, Changed(b[p], a[p])) : p \in one}
        \cup {Difference(x, "default", p, IF a[p] = "default" THEN "add" ELSE "remove") : p \in both}

Differences(x) ==
  SimpleDifferences(x) \cup EnumDifferences(x) \cup ItemDifferences(x, "required")
    \cup PropertyDifferences(x)

-----------------------------------------------------------------------------
(***************************************************************************)
(* The rule of a difference.                                               *)
(***************************************************************************)
Side(keyword) ==
  IF keyword \in {"minimum", "exclusiveMinimum", "minLength"} THEN lower ELSE upper

jsonSchemaRules(x, c) ==
  CASE c.keyword \in {"minimum", "maximum"} /\ x.draft04 -> numericClassifier(c, Side(c.keyword))
    [] c.keyword \in {"exclusiveMinimum", "exclusiveMaximum"} /\ x.draft04 ->
         exclusiveBooleanClassifier(c)
    [] c.keyword \in {"minimum", "maximum", "exclusiveMinimum", "exclusiveMaximum"} /\ ~x.draft04 ->
         effectiveBoundClassifier(c, Side(c.keyword))
    [] c.keyword \in {"minLength", "maxLength"} -> lengthClassifier(c, Side(c.keyword))
    [] c.keyword = "multipleOf" -> multipleOfClassifier(c)
    [] c.keyword = "type" -> typeClassifier(c)
    [] c.keyword = "enum" -> IF c.item = None THEN enumKeywordClassifier ELSE enumClassifyRule(c)
    [] c.keyword = "required" -> requiredItemClassifyRule(c)
    [] c.keyword = "properties" -> propertyClassifyRule(c)
    [] c.keyword = "default" -> defaultClassifier
    [] c.keyword = "custom" -> x.custom

\* Each "not" reverses the rules of the schema inside.
WithinNots(r, nots) ==
  LET f[n \in 0 .. nots] == IF n = 0 THEN r ELSE reverseClassifyRule(f[n - 1])
  IN  f[nots]

RuleOf(x, c) ==
  LET r == WithinNots(jsonSchemaRules(x, c), x.nots)
  IN  CASE x.place = "request" -> r
        [] x.place = "response" -> reverseClassifyRule(r)
        [] x.place \in {"send", "receive"} -> dynamicReverseClassifyRule(r, x.place = "receive")

Index(action) == CASE action = "add" -> 1 [] action = "remove" -> 2 [] action = "replace" -> 3

-----------------------------------------------------------------------------
(***************************************************************************)
(* createDiff.                                                             *)
(***************************************************************************)
\* Mutant: one guard around the whole pipeline, so a rule that throws undoes the rest.
runUnderOneGuard(rules, computed) ==
  LET Run(v, rule) ==
        IF v = Throws THEN v ELSE IF rule[v] = None THEN v ELSE rule[v]
      result == FoldLeft(Run, computed, rules)
  IN  [type |-> IF result = Throws THEN computed ELSE result, errors |-> IF result = Throws THEN 1 ELSE 0]

\* A rule that declines or throws leaves the verdict where the one before left it.
runReclassificationPipeline(rules, computed) ==
  LET Run(v, rule) ==
        [type |-> IF rule[v.type] \in {None, Throws} THEN v.type ELSE rule[v.type],
         errors |-> v.errors + (IF rule[v.type] = Throws THEN 1 ELSE 0)]
  IN  FoldLeft(Run, [type |-> computed, errors |-> 0], rules)

CreateDiff(c) ==
  LET slot == RuleOf(asked, c)[Index(c.action)]
      computed == IF slot = Throws THEN "unclassified" ELSE slot
      result == runReclassificationPipeline(asked.reclassification, computed)
  IN  /\ round = "classify" /\ c \in left
      /\ left' = left \ {c}
      /\ type' = [x \in DOMAIN type \cup {c} |-> IF x = c THEN result.type ELSE type[x]]
      /\ errors' = [x \in DOMAIN errors \cup {c} |->
                      IF x = c THEN result.errors + (IF slot = Throws THEN 1 ELSE 0) ELSE errors[x]]
      /\ UNCHANGED <<asked, round>>

Adapted(x) ==
  IF x.crossing THEN [x EXCEPT !.before = booleanExclusiveBoundsOas30to31Adapter(@)] ELSE x

Adapt ==
  /\ round = "adapt"
  /\ round' = "classify"
  /\ left' = Differences(Adapted(asked))
  /\ UNCHANGED <<asked, type, errors>>

Init ==
  /\ asked \in Input /\ round = "adapt"
  /\ left = {} /\ type = [c \in {} |-> None] /\ errors = [c \in {} |-> 0]

Next == Adapt \/ \E c \in left : CreateDiff(c)

Spec == Init /\ [][Next]_vars

-----------------------------------------------------------------------------
(***************************************************************************)
(* Properties                                                              *)
(***************************************************************************)
Done == round = "classify" /\ left = {}
Undisturbed == asked.reclassification = <<>> /\ asked.custom = allUnclassified
Flags(c) == type[c] \in {"breaking", "risky"}

\* A response, and a message received, may not come to hold more; inside a "not" it is
\* the other way round.
Reversals == asked.nots + (IF asked.place \in {"response", "receive"} THEN 1 ELSE 0)

\* Of unified schemas (test/openapi.exclusive-bounds.test.ts:53) a side has one bound.
Unified(s) ==
  /\ None \in {s.minimum, s.exclusiveMinimum} /\ None \in {s.maximum, s.exclusiveMaximum}

\* Numeric bounds are those of unified schemas.  Flags are no bounds of their own.
BoundsUnified(x) ==
  ~x.draft04 => Unified(x.after) /\ (~x.crossing => Unified(x.before))

AcceptedBefore(tolerant) ==
  {i \in Instance : Accepts(asked.before, asked.draft04 \/ asked.crossing, tolerant, i)}
AcceptedAfter(tolerant) == {i \in Instance : Accepts(asked.after, asked.draft04, tolerant, i)}

\* Values that one party goes on sending and the other is no longer prepared for.
Lost ==
  LET tolerant == Reversals = 0
  IN  IF Reversals % 2 = 0 THEN AcceptedBefore(tolerant) \ AcceptedAfter(tolerant)
      ELSE AcceptedAfter(tolerant) \ AcceptedBefore(tolerant)

(***************************************************************************)
(* An incompatible change of a schema never goes unflagged: when a request *)
(* may no longer hold some value, or a response may newly hold one, some   *)
(* difference is breaking or risky, whichever keywords changed together,   *)
(* in both encodings of bounds and across them.  A "not" in a request      *)
(* turns that round once; twice is more than the rules are made for.       *)
(***************************************************************************)
LossFlagged ==
  Done /\ Undisturbed /\ Lost # {} /\ Reversals <= 1 => \E c \in DOMAIN type : Flags(c)

Holds(s, kind) == \E i \in Instance : i.kind = kind /\ Accepts(s, FALSE, FALSE, i)

BoundKeys == {"minimum", "exclusiveMinimum", "maximum", "exclusiveMaximum"}
LengthKeys == {"minLength", "maxLength"}

\* Both schemas have keywords of one group only.
OneGroup(x) ==
  \E group \in {BoundKeys, LengthKeys, {"type"}, {"enum"}} :
    \A k \in (Simple \cup {"enum"}) \ group : x.before[k] = None /\ x.after[k] = None

(***************************************************************************)
(* And a compatible one is not flagged, where the rules are made to be     *)
(* exact: bounds of unified schemas (the tests of the defining property    *)
(* switch in openapi.exclusive-bounds.test.ts:305), lengths, enum, type.   *)
(* Not where keywords of two groups meet, as a minimum next to the type    *)
(* string, nor for a type that comes or goes, be it "any".                 *)
(***************************************************************************)
NoFalseAlarm ==
  /\ Done /\ Undisturbed /\ Lost = {} /\ asked.nots = 0 /\ ~asked.draft04 /\ ~asked.crossing
  /\ OneGroup(asked)
  /\ \A s \in {asked.before, asked.after} :
        /\ Unified(s)
        /\ s.type = None => Holds(s, "number")
        /\ s.type = None /\ s.enum = None => Holds(s, "string")
  /\ asked.before.type = None <=> asked.after.type = None
  /\ {asked.before.enum, asked.after.enum} # {None, {}}
  /\ \A c \in DOMAIN type : c.keyword \notin {"properties", "required", "default"}
  => \A c \in DOMAIN type : ~Flags(c)

\* There are instances on both sides of every number of the comparison.
Rich(x) ==
  /\ \E n, m \in Number : n % 2 = 0 /\ m % 2 = 1
  /\ \A s \in {x.before, x.after} :
        /\ s.type \in Types \cup {None}
        /\ \A k \in BoundKeys : s[k] # None => {2 * s[k] - 1, 2 * s[k], 2 * s[k] + 1} \subseteq Number
        /\ \A k \in LengthKeys : s[k] # None => {s[k] - 1, s[k], s[k] + 1} \subseteq Number
        /\ s.enum # None => \A v \in s.enum : 2 * v \in Number

(***************************************************************************)
(* A classifier or a reclassification rule that fails is reported once and *)
(* changes nothing else: the verdict is the one without it                 *)
(* (core.reclassificationRules.test.ts:40, :54; types/compare.ts:172-173). *)
(***************************************************************************)
FailuresContained ==
  \A c \in DOMAIN type :
    LET rules == asked.reclassification
        slot == RuleOf(asked, c)[Index(c.action)]
        mute == [n \in DOMAIN rules |-> [v \in Verdicts |->
                   IF rules[n][v] = Throws THEN None ELSE rules[n][v]]]
        Verdict(n) ==
          runReclassificationPipeline(SubSeq(mute, 1, n), IF slot = Throws THEN "unclassified" ELSE slot).type
        failed == {n \in DOMAIN rules : rules[n][Verdict(n - 1)] = Throws}
    IN  /\ type[c] = Verdict(Len(rules))
        /\ errors[c] = Cardinality(failed) + (IF slot = Throws THEN 1 ELSE 0)

(***************************************************************************)
(* The two reversals, one that makes a second set of rules and one that    *)
(* decides when a difference is made (rules.ts:133-137), agree: a schema   *)
(* received has the verdicts of a response, a schema sent of a request.    *)
(***************************************************************************)
ReversalsAgree ==
  asked.reclassification = <<>> =>
    \A c \in DOMAIN type :
      LET openApi == [asked EXCEPT !.place =
                        IF asked.place \in {"receive", "response"} THEN "response" ELSE "request"]
          slot == RuleOf(openApi, c)[Index(c.action)]
      IN  type[c] = IF slot = Throws THEN "unclassified" ELSE slot

=============================================================================
