------------------------------- MODULE MCVerdicts -------------------------------
(***************************************************************************)
(* Comparisons for TLC, one family for each group of keywords.             *)
(***************************************************************************)
EXTENDS Verdicts, TLC

CONSTANTS p, q

MCProperty == {p, q}
MCNumber == 0 .. 8

Empty ==
  [k \in Simple \cup {"enum", "required", "properties"} |->
     IF k = "required" THEN {} ELSE IF k = "properties" THEN [x \in MCProperty |-> None] ELSE None]

\* All schemas with the given values of the given keywords; and, in pairs, in all places.
Schemas(values) == {f @@ Empty : f \in values}

Compare(befores, afters, places, nots, draft04, crossing) ==
  [before : befores, after : afters, place : places, nots : nots, draft04 : {draft04},
   crossing : {crossing}, custom : {allUnclassified}, reclassification : {<<>>}]

Places == {"request", "response", "send", "receive"}
OpenApi == {"request", "response"}
Limit == {None, 1, 2, 3}
Flag == {None, true, false}

Lowers(exclusives) == [minimum : Limit, exclusiveMinimum : exclusives]
Uppers(exclusives) == [maximum : Limit, exclusiveMaximum : exclusives]
Both == {f @@ g : f \in {h \in Lowers(Limit) : None \in {h.minimum, h.exclusiveMinimum}},
                  g \in {h \in Uppers(Limit) : None \in {h.maximum, h.exclusiveMaximum}}}

One(values, draft04, nots) ==
  Compare(Schemas(values), Schemas(values), Places, nots, draft04, FALSE)

ByBound ==
  One({f \in Lowers(Limit) : None \in {f.minimum, f.exclusiveMinimum}}, FALSE, {0, 1, 2})
    \cup Compare(Schemas(Both), Schemas(Both), OpenApi, {0}, FALSE, FALSE)

ByFlag == One(Lowers(Flag), TRUE, {0, 1}) \cup One(Uppers(Flag), TRUE, {0, 1})

ByCrossing ==
  Compare(Schemas(Lowers(Flag)), Schemas({f \in Lowers(Limit) : None \in {f.minimum, f.exclusiveMinimum}}),
          OpenApi, {0}, FALSE, TRUE)
  \cup Compare(Schemas(Uppers(Flag)), Schemas({f \in Uppers(Limit) : None \in {f.maximum, f.exclusiveMaximum}}),
          OpenApi, {0}, FALSE, TRUE)

ByLength == One([minLength : Limit, maxLength : Limit], FALSE, {0, 1})

ByMultiple == One([multipleOf : {None, 1, 2, 3, 4}], FALSE, {0, 1, 2})

ByType ==
  One([type : {"number", "integer", "string", "object", "any"}, enum : {None, {1}}], FALSE, {0, 1, 2})

ByEnum == One([enum : {None} \cup SUBSET {1, 2, 3}], FALSE, {0, 1, 2})

ByProperty ==
  One([required : SUBSET MCProperty, properties : [MCProperty -> {None, "plain", "default"}]], FALSE, {0})

\* Rules of the caller: a keyword's, with verdicts of its own for the reverse or without,
\* and what is made of the verdicts.
SomeSlots == {"breaking", "nonBreaking", "risky", Throws}

CustomRules ==
  {ThreeSlots(a, b, c) : a, b, c \in SomeSlots}
    \cup {<<a, "breaking", c, d, "risky", f>> : a, c, d, f \in SomeSlots}

Declines == [v \in Verdicts |-> None]
Fails == [v \in Verdicts |-> Throws]
Eases == [v \in Verdicts |-> IF v = "breaking" THEN "risky" ELSE None]
Silences == [v \in Verdicts |-> IF v = "risky" THEN "nonBreaking" ELSE IF v = "breaking" THEN Throws ELSE None]

Pipelines == UNION {[1 .. n -> {Declines, Fails, Eases, Silences}] : n \in 0 .. 3}

CustomSchemas == Schemas([custom : {None, 1, 2}])

ByCaller ==
  [before : CustomSchemas, after : CustomSchemas, place : Places, nots : {0, 1}, draft04 : {FALSE},
   crossing : {FALSE}, custom : CustomRules, reclassification : {<<>>}]
  \cup
  [before : CustomSchemas, after : CustomSchemas, place : {"request", "receive"}, nots : {0},
   draft04 : {FALSE}, crossing : {FALSE}, custom : {ThreeSlots("breaking", Throws, "risky")},
   reclassification : Pipelines]

MCInput ==
  {x : x \in ByBound \cup ByFlag \cup ByCrossing \cup ByLength \cup ByMultiple \cup ByType
               \cup ByEnum \cup ByProperty \cup ByCaller}

ASSUME InputsUnified == \A x \in MCInput : BoundsUnified(x)
ASSUME InputsRich == \A x \in MCInput : ~x.draft04 /\ ~x.crossing => Rich(x)

=============================================================================
