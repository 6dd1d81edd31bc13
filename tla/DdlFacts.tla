-------------------------------- MODULE DdlFacts --------------------------------
(***************************************************************************)
(* What two schemas have to tell: names, values, and which elements there  *)
(* are, not their order, save that of the columns of a key; neither kind   *)
(* nor raw, which follow from the rest.                                    *)
(***************************************************************************)
EXTENDS DdlChanges

IsList(n) == n.is = "array" /\ n.kids # <<>> /\ n.kids[1].is = "scalar"

RECURSIVE Facts(_, _)
Facts(defs, node) ==
  LET n == Definition(defs, node)
      named == DOMAIN n.kids \ {"kind", "raw", "unsigned"}
      list == {k \in named : k \in {"columns", "refColumns"} /\ IsList(n.kids[k])}
  IN  CASE n.is = "object" -> [is |-> "object", lists |-> [k \in list |-> n.kids[k].kids],
                               of |-> [k \in named \ list |-> Facts(defs, n.kids[k])]]
        [] n.is = "array" -> [is |-> "array", of |-> {Facts(defs, n.kids[i]) : i \in DOMAIN n.kids}]
        [] OTHER -> [is |-> "scalar", of |-> n.of]

SameFacts(x) == Facts(x.before.defs, x.before.root) = Facts(x.after.defs, x.after.root)

\* Nothing is told of two schemas that differ in the order of their elements only, and something
\* of all others: no suppressed property hides a change (SUPPRESS, ignoreAddRemove, asElement,
\* the resolvers of ddl.mapping.ts).
SilentIffSame == Done => (diffs = {} <=> SameFacts(asked))

=============================================================================
