------------------------------ MODULE SchemaRules ------------------------------
(***************************************************************************)
(* The classifiers of a JSON Schema's constraints (jsonSchema.classify.ts, *)
(* jsonSchema.numeric-bounds.ts, jsonSchema.rules.ts), and, as a reference *)
(* for them, which values a schema accepts.                                *)
(*                                                                         *)
(* A schema is a record of its keywords, None for an absent one.  required *)
(* and properties are always there: the normalization adds them.  A        *)
(* property is "plain" or has a "default".  In draft 04 the exclusive      *)
(* bounds are true or false.                                               *)
(***************************************************************************)
EXTENDS Rules, Integers

CONSTANTS
  true,      \* the Boolean values of a document
  false,
  Property,  \* names of properties
  Number     \* the numbers of instances, in halves: keyword value v is number 2 * v

\* Values of JSON, as far as the keywords tell them apart: strings by length, objects by keys.
Instance ==
  [kind : {"number"}, value : Number] \cup [kind : {"string"}, value : Number]
    \cup [kind : {"object"}, value : SUBSET Property]

lower == [inclusive |-> "minimum", exclusive |-> "exclusiveMinimum", low |-> TRUE]
upper == [inclusive |-> "maximum", exclusive |-> "exclusiveMaximum", low |-> FALSE]

Bound(side) ==
  [property : {side.inclusive, side.exclusive}, value : Int, exclusive : BOOLEAN]

Types == {"any", "number", "integer", "string", "object"}

ASSUME SchemaRulesAssumption ==
  /\ Number \subseteq Int /\ true # false
  /\ {None, true, false} \cap Int = {} /\ None \notin {true, false, "plain", "default"} \cup Types
  /\ None \notin Bound(lower) \cup Bound(upper)

\* Number x lies further inside than y.
Stricter(side, x, y) == IF side.low THEN x > y ELSE x < y

\* A schema of one encoding of bounds or the other.
IsSchema(s, draft04) ==
  /\ {s.minimum, s.maximum} \subseteq Int \cup {None}
  /\ {s.exclusiveMinimum, s.exclusiveMaximum}
       \subseteq IF draft04 THEN {None, true, false} ELSE Int \cup {None}
  /\ {s.minLength, s.maxLength} \subseteq Nat \cup {None}
  /\ s.multipleOf \in (Nat \ {0}) \cup {None}
  /\ s.enum = None \/ s.enum \subseteq Int
  /\ s.required \subseteq Property /\ s.properties \in [Property -> {None, "plain", "default"}]

-----------------------------------------------------------------------------
(***************************************************************************)
(* Reference: what a schema accepts.                                       *)
(***************************************************************************)
WithinBound(s, draft04, side, n) ==
  LET m == s[side.inclusive]  x == s[side.exclusive]
  IN  IF draft04
      THEN m # None => Stricter(side, n, 2 * m) \/ (n = 2 * m /\ x # true)
      ELSE /\ m # None => Stricter(side, n, 2 * m) \/ n = 2 * m
           /\ x # None => Stricter(side, n, 2 * x)

OfType(s, i) ==
  \/ s.type \in {None, "any", i.kind}
  \/ s.type = "integer" /\ i.kind = "number" /\ i.value % 2 = 0

InEnum(s, i) ==
  s.enum \in {None, {}} \/ (i.kind = "number" /\ \E v \in s.enum : i.value = 2 * v)

\* A server fills in what has a default: tolerant.
Accepts(s, draft04, tolerant, i) ==
  /\ OfType(s, i) /\ InEnum(s, i)
  /\ i.kind = "number" =>
       /\ WithinBound(s, draft04, lower, i.value) /\ WithinBound(s, draft04, upper, i.value)
       /\ s.multipleOf # None => i.value % (2 * s.multipleOf) = 0
  /\ i.kind = "string" =>
       /\ s.minLength # None => i.value >= s.minLength
       /\ s.maxLength # None => i.value <= s.maxLength
  /\ i.kind = "object" =>
       \A p \in s.required : p \in i.value \/ (tolerant /\ s.properties[p] = "default")

-----------------------------------------------------------------------------
(***************************************************************************)
(* Bounds.                                                                 *)
(***************************************************************************)
\* A Boolean flag next to a bound becomes an exclusive bound in its place.
adaptBooleanExclusiveBound(s, side) ==
  IF s[side.exclusive] = true /\ s[side.inclusive] # None
  THEN [s EXCEPT ![side.exclusive] = s[side.inclusive], ![side.inclusive] = None]
  ELSE [s EXCEPT ![side.exclusive] = None]

booleanExclusiveBoundsOas30to31Adapter(s) ==
  adaptBooleanExclusiveBound(adaptBooleanExclusiveBound(s, lower), upper)

\* getEffectiveLowerBound and getEffectiveUpperBound.
EffectiveBound(s, side) ==
  LET m == s[side.inclusive]  x == s[side.exclusive]
  IN  IF m = None /\ x = None THEN None
      ELSE IF m = None \/ (x # None /\ Stricter(side, x, m))
           THEN [property |-> side.exclusive, value |-> x, exclusive |-> TRUE]
           ELSE [property |-> side.inclusive, value |-> m, exclusive |-> x = m]

\* Mutant: of two bounds at one number the exclusive one is no stricter.
StricterNumber(side, x, y) == Stricter(side, x.value, y.value)

IsAfterStricter(side, before, after) ==
  \/ Stricter(side, after.value, before.value)
  \/ after.value = before.value /\ after.exclusive /\ ~before.exclusive

\* A difference c is [keyword, item, action, before, after], with both schemas.
classifyByEffectiveBound(c, side, stricterType, looserType) ==
  LET b == EffectiveBound(c.before, side)  a == EffectiveBound(c.after, side)
      defining == IF a # None THEN a ELSE b
  IN  IF defining = None \/ defining.property # c.keyword THEN "nonBreaking"
      ELSE IF b = None THEN stricterType
      ELSE IF a = None THEN looserType
      ELSE IF b.value = a.value /\ b.exclusive = a.exclusive THEN "nonBreaking"
      ELSE IF IsAfterStricter(side, b, a) THEN stricterType ELSE looserType

effectiveBoundClassifier(c, side) ==
  LET request == classifyByEffectiveBound(c, side, "breaking", "nonBreaking")
      response == classifyByEffectiveBound(c, side, "nonBreaking", "risky")
  IN  <<request, request, request, response, response, response>>

\* Draft 04: minimumClassifier and maximumClassifier.
numericClassifier(c, side) ==
  LET b == c.before[c.keyword]  a == c.after[c.keyword]
      both == b # None /\ a # None
  IN  <<"breaking", "nonBreaking", breakingIf(~both \/ Stricter(side, a, b)),
        "nonBreaking", "risky", riskyIf(~both \/ Stricter(side, b, a))>>

exclusiveBooleanClassifier(c) ==
  LET b == c.before[c.keyword]  a == c.after[c.keyword]
  IN  <<IF a = true THEN "breaking" ELSE "unclassified",
        IF b = true THEN "nonBreaking" ELSE "unclassified",
        breakingIf(a = true),
        IF a = true THEN "nonBreaking" ELSE "unclassified",
        IF b = true THEN "risky" ELSE "unclassified",
        IF a = false THEN "risky" ELSE "nonBreaking">>

\* minClassifier and maxClassifier: side tells which way is stricter.
lengthClassifier(c, side) ==
  LET b == c.before[c.keyword]  a == c.after[c.keyword]
  IN  ThreeSlots("breaking", "nonBreaking", breakingIf(b = None \/ a = None \/ Stricter(side, a, b)))

-----------------------------------------------------------------------------
(***************************************************************************)
(* The other constraints.                                                  *)
(***************************************************************************)
multipleOfClassifier(c) ==
  LET b == c.before.multipleOf  a == c.after.multipleOf
  IN  <<"breaking", "nonBreaking", breakingIf(b = None \/ a = None \/ b % a # 0),
        "nonBreaking", "breaking", "breaking">>

\* JSON_SCHEMA_ASSIGN_TYPE_MAPPING, and any type to itself.
Assignable(from, to) ==
  from = to \/ to = "any" \/ (from = "integer" /\ to = "number")

\* Mutant: a response is classified the way a request is.
typeOneWay(c) ==
  LET assigned == breakingIf(~Assignable(c.before.type, c.after.type))
  IN  <<"breaking", "breaking", assigned, "breaking", "breaking", assigned>>

typeClassifier(c) ==
  LET b == c.before.type  a == c.after.type
  IN  <<"breaking", "breaking", breakingIf(~Assignable(b, a)),
        "breaking", "breaking", breakingIf(~Assignable(a, b))>>

\* The keyword as a whole, when one side does not have it.
enumKeywordClassifier ==
  <<"breaking", "nonBreaking", "breaking", "nonBreaking", "risky", "nonBreaking">>

enumClassifyRule(c) ==
  LET fromSome == c.before.enum # {}  toSome == c.after.enum # {}
  IN  <<IF fromSome THEN "nonBreaking" ELSE "breaking",
        IF toSome THEN "breaking" ELSE "nonBreaking",
        "breaking",
        IF fromSome THEN "risky" ELSE "nonBreaking",
        IF toSome THEN "nonBreaking" ELSE "risky",
        "nonBreaking">>

requiredItemClassifyRule(c) ==
  LET tolerated == IF c.after.properties[c.item] = "default" THEN "nonBreaking" ELSE "breaking"
  IN  <<tolerated, "nonBreaking", tolerated, "nonBreaking", "risky", "breaking">>

propertyClassifyRule(c) ==
  <<breakingIf(c.after.properties[c.item] # "default" /\ c.item \in c.after.required),
    "breaking", "unclassified", "nonBreaking",
    breakingIf(c.item \in c.before.required), "unclassified">>

defaultClassifier == ThreeSlots("nonBreaking", "breaking", "breaking")

=============================================================================
