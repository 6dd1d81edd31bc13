---------------------------- MODULE MCAggregateDiffs ----------------------------
(***************************************************************************)
(* Merged documents for TLC: four objects that share and hold each other.  *)
(***************************************************************************)
EXTENDS AggregateDiffs, TLC

CONSTANTS r, a, b, c

MCObj == {r, a, b, c}

\* Chains, diamonds, and cycles that do or do not go through the root.
Graphs ==
  {r :> hr @@ a :> ha @@ b :> hb @@ c :> hc :
     hr \in SUBSET {a, b}, ha \in SUBSET {r, b, c}, hb \in SUBSET {a, c}, hc \in SUBSET {r, b}}

\* A difference is named by the object it is recorded in.
Documents ==
  {[holds |-> g, own |-> [o \in MCObj |-> IF o \in D THEN {o} ELSE {}]] :
     g \in Graphs, D \in {{}, {c}, {a, c}, {r, b}}}

=============================================================================
