---------------------------- MODULE MCCombinerMatch ----------------------------
(***************************************************************************)
(* Combiners for TLC: three families that differ in the costs of pairs, in *)
(* what the options refer to, and in the parts pairs of options share.     *)
(***************************************************************************)
EXTENDS CombinerMatch, TLC

CONSTANTS b1, b2, b3, a1, a2, s, t, X, Y, severe, n1, n2, n3, n4

MCOption == {b1, b2, b3, a1, a2}
MCRef == {X, Y}
MCPart == {s, t}
MCDiff == {severe, n1, n2, n3, n4}
MCDangerous == {severe}

Befores == {<<>>, <<b1>>, <<b1, b2>>, <<b1, b1>>, <<b1, b2, b3>>}
Afters == {<<>>, <<a1>>, <<a1, a2>>, <<a2, a2>>}

NoRefs == [o \in MCOption |-> NoRef]
NoParts == [p \in MCOption \X MCOption |-> {}]
MCShows == s :> {n3, n4} @@ t :> {n2}

\* A table of what b1 and b2 have with a1 and a2, and the same for every other pair.
Table(f, other) ==
  [p \in MCOption \X MCOption |-> IF p \in DOMAIN f THEN f[p] ELSE other]

Tables(S) == {Table(f, {n1, n2}) : f \in [{b1, b2} \X {a1, a2} -> S]}

Make(befores, afters, refs, owns, partss, seens) ==
  [before : befores, after : afters, ref : refs, own : owns, parts : partss,
   shows : {MCShows}, seen : seens]

\* One severe difference counts more than two others.
ByCost == Make(Befores, Afters, {NoRefs}, Tables({{}, {n1}, {severe}, {n1, n2}}), {NoParts}, {{}})

Refs == {f @@ NoRefs : f \in [{b1, b2, a1, a2} -> {X, Y, NoRef}]}

ByRef == Make(Befores, Afters, Refs, Tables({{}, {severe}}), {NoParts}, {{}})

ByPart ==
  Make({<<b1>>, <<b1, b2>>}, {<<a1>>, <<a1, a2>>}, {NoRefs}, Tables({{}, {n1}}),
       {Table(f, {}) : f \in [{b1, b2} \X {a1, a2} -> {{}, {s}, {t}}]}, {{}, {t}})

MCInput == {c : c \in ByCost \cup ByRef \cup ByPart}

=============================================================================
