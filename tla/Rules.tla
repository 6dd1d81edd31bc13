--------------------------------- MODULE Rules ---------------------------------
(***************************************************************************)
(* The algebra of classify rules (rules.ts, constants.ts).  A rule has     *)
(* three slots, for what is added, removed and replaced, and may have      *)
(* three more with the verdicts of the reverse direction.  A slot is a     *)
(* verdict, or a function of the context that yields one: here a rule is   *)
(* what its slots yield at one context.  Everything the algebra does to a  *)
(* function it does to what the function yields.                           *)
(***************************************************************************)
EXTENDS Naturals, Sequences

CONSTANTS
  None,    \* undefined
  Throws   \* what a function that throws yields

Verdicts ==
  {"breaking", "nonBreaking", "risky", "annotation", "unclassified", "deprecated"}

Slots == Verdicts \cup {Throws}

ASSUME RulesAssumption == None \notin Slots /\ Throws \notin Verdicts

ClassifyRule == [1 .. 6 -> Slots \cup {None}]

\* A rule of three slots.
ThreeSlots(add, remove, replace) == <<add, remove, replace, None, None, None>>

\* What is breaking one way is not the other way; other verdicts have no reverse.
reverseDiffType(v) ==
  IF v = "breaking" THEN "nonBreaking" ELSE IF v = "nonBreaking" THEN "breaking" ELSE v

\* The explicit verdict of the reverse direction wins; a reversed rule has none left.
reverseClassifyRule(r) ==
  LET Slot(n) == IF r[n + 3] # None THEN r[n + 3] ELSE reverseDiffType(r[n])
  IN  ThreeSlots(Slot(1), Slot(2), Slot(3))

\* Mutant: a verdict is reversed although an explicit one is there.
dynamicAlwaysReverse(r, shouldReverse) ==
  LET Slot(n) == IF shouldReverse THEN reverseDiffType(r[n]) ELSE r[n]
  IN  ThreeSlots(Slot(1), Slot(2), Slot(3))

\* The same decided at the context.
dynamicReverseClassifyRule(r, shouldReverse) ==
  LET Slot(n) ==
        IF r[n + 3] # None
        THEN IF shouldReverse THEN r[n + 3] ELSE r[n]
        ELSE IF shouldReverse THEN reverseDiffType(r[n]) ELSE r[n]
  IN  ThreeSlots(Slot(1), Slot(2), Slot(3))

breakingIf(v) == IF v THEN "breaking" ELSE "nonBreaking"
riskyIf(v) == IF v THEN "risky" ELSE "nonBreaking"

allUnclassified == ThreeSlots("unclassified", "unclassified", "unclassified")

=============================================================================
