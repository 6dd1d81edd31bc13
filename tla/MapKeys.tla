-------------------------------- MODULE MapKeys --------------------------------
(***************************************************************************)
(* What a mapping resolver answers (MapKeysResult) and what the comparison *)
(* of core/compare.ts relies on when it uses the answer.                   *)
(*                                                                         *)
(* An array is a sequence; its index i is the index i - 1 of the code.     *)
(* The order of "added" and "removed" is the order of diffs, not told here.*)
(***************************************************************************)
EXTENDS Naturals, Sequences, SequencesExt

MapKeysResult(added, removed, mapped) ==
  [added |-> added, removed |-> removed, mapped |-> mapped]

Nothing == [x \in {} |-> x]

\* A spread of f after one of g.
Over(f, g) == [x \in DOMAIN f \cup DOMAIN g |-> IF x \in DOMAIN f THEN f[x] ELSE g[x]]

MappedTo(r) == {r.mapped[k] : k \in DOMAIN r.mapped}

\* The state of a matching loop: what is mapped so far and what is still free.
Unmatched(removed, added) == MapKeysResult(added, removed, Nothing)

Pairing(r, i, j) ==
  [added |-> r.added \ {j}, removed |-> r.removed \ {i},
   mapped |-> [k \in DOMAIN r.mapped \cup {i} |-> IF k = i THEN j ELSE r.mapped[k]]]

Least(S) == CHOOSE x \in S : \A y \in S : x <= y

\* The keys of an object, in the order of the text, or the indexes of an array.
Indexes(s) == [i \in DOMAIN s |-> i]

ElementsOf(s) == {s[i] : i \in DOMAIN s}

-----------------------------------------------------------------------------
(***************************************************************************)
(* The contract.  B and A are the keys of the two objects or arrays.       *)
(***************************************************************************)
\* Every key is told exactly once: mapped, removed or added.
EachKeyOnce(r, B, A) ==
  /\ DOMAIN r.mapped \cup r.removed = B /\ DOMAIN r.mapped \cap r.removed = {}
  /\ MappedTo(r) \cup r.added = A /\ MappedTo(r) \cap r.added = {}

\* No two nodes are compared with the same node.
OneToOne(r) == \A k, l \in DOMAIN r.mapped : r.mapped[k] = r.mapped[l] => k = l

\* In a merged object a removed node keeps its key: nothing else may be put there.
RemovedKeepTheirKeys(r) == r.removed \cap (MappedTo(r) \cup r.added) = {}

=============================================================================
