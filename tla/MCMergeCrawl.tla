------------------------------ MODULE MCMergeCrawl ------------------------------
(***************************************************************************)
(* Documents for TLC: small graphs of two objects a side, enumerated.      *)
(***************************************************************************)
EXTENDS MergeCrawl, TLC

CONSTANTS rb, b1, b2, ra, a1, a2, x, y, root, k1, k2, k3, k4, request, response, mark, marked

MCNode == {rb, b1, b2, ra, a1, a2}
MCLeaf == {x, y}
MCKey == {root, k1, k2, k3, k4} \cup 0 .. 3
MCScope == {RootScope, request, response}
MCElement == {mark}
MCElementValue == {marked}

\* Own place: (node, key).  A resolved $ref is declared where its target is: (node).
MCPath == {NoPath} \cup (MCNode \X MCKey) \cup {<<n>> : n \in MCNode}

PlainRule ==
  [ignoreDifference |-> FALSE, ignoreKeyDifference |-> FALSE, ignoreAddRemove |-> FALSE,
   newCompareScope |-> Unset, patchAt |-> EMPTY_CUSTOM_SCOPE]

PlainRules == [k \in MCKey |-> PlainRule]

-----------------------------------------------------------------------------
(***************************************************************************)
(* Where the value o holds under k is declared: in its own place, or, for  *)
(* the target of a $ref, at the target.  "edge" documents share and recur  *)
(* by object identity, "target" documents through $ref.                    *)
(***************************************************************************)
Declared(at, by) ==
  [o \in MCNode |->
    [k \in DOMAIN at[o] |->
       IF by = "target" /\ at[o][k] \in MCNode THEN <<at[o][k]>> ELSE <<o, k>>]]

\* objectMappingResolver and arrayMappingResolver: a key is mapped to itself.
SameKeys(at) ==
  [p \in MCNode \X MCNode |-> [k \in DOMAIN at[p[1]] \cap DOMAIN at[p[2]] |-> k]]

NoDefaults == [o \in MCNode |-> {}]

Documents(graphs, bys) ==
  {[at |-> at, decl |-> Declared(at, by), default |-> NoDefaults, array |-> {},
    map |-> SameKeys(at)] : at \in graphs, by \in bys}

\* Objects with k1 or with k1 and k2, whose values come from V1 and from V2.
Shapes(V1, V2) ==
  {k1 :> v @@ k2 :> w : v \in V1, w \in V2} \cup {k1 :> v : v \in V1}

Roots == (rb :> (root :> b1)) @@ (ra :> (root :> a1))

Graphs(B1, B2, A1, A2) ==
  {(b1 :> s1) @@ (b2 :> s2) @@ (a1 :> t1) @@ (a2 :> t2) @@ Roots :
     s1 \in B1, s2 \in B2, t1 \in A1, t2 \in A2}

\* Every way two objects a side can hold each other, themselves or a leaf.
SharedGraphs ==
  Graphs(Shapes({b1, b2, x}, {b1, x}), Shapes({b1, b2, x}, {b2}),
         Shapes({a1, a2, y}, {a2, x}), Shapes({a1, a2, x}, {a1}))

SharedInputs == Documents(SharedGraphs, {"edge", "target"})

-----------------------------------------------------------------------------
(***************************************************************************)
(* Rules: k1 is a node the caller marks, k2 opens the request scope and    *)
(* its additions and removals are not reported, the array elements 0 and 1 *)
(* have their reordering and their differences ignored.                    *)
(***************************************************************************)
MixedRules ==
  [PlainRules EXCEPT ![k1].patchAt = [e \in MCElement |-> marked],
                     ![k2].newCompareScope = request,
                     ![k2].ignoreAddRemove = TRUE,
                     ![0].ignoreKeyDifference = TRUE,
                     ![1].ignoreDifference = TRUE]

(***************************************************************************)
(* Two objects a side under these rules: a shared one is reached under up  *)
(* to four footprints.                                                     *)
(***************************************************************************)
ScopeGraphs ==
  Graphs(Shapes({b2, x}, {b1, b2}), Shapes({b1, x}, {b2}) \cup {k2 :> b1},
         Shapes({a2, y}, {a1, a2}), Shapes({a1, y}, {a2}))

ScopeInputs == Documents(ScopeGraphs, {"target"})

-----------------------------------------------------------------------------
(***************************************************************************)
(* Mappings: b1 and a1 are objects holding the arrays b2 and a2, and the   *)
(* resolvers answer anything their contract allows for these two pairs.    *)
(* Some values are defaults.                                               *)
(***************************************************************************)
Injections(D, R) ==
  {m \in UNION {[S -> R] : S \in SUBSET D} : \A k, l \in DOMAIN m : m[k] = m[l] => k = l}

Answers(at, array, b, a) ==
  {m \in Injections(DOMAIN at[b], DOMAIN at[a]) :
     b \notin array => DOMAIN at[b] \cap DOMAIN at[a] \subseteq DOMAIN m}

MappingGraphs ==
  Graphs({k1 :> b2, k1 :> b2 @@ k2 :> x, k1 :> x @@ k2 :> b2},
         {0 :> x, 0 :> x @@ 1 :> y, 0 :> b1 @@ 1 :> x},
         {k1 :> a2, k2 :> a2, k1 :> a2 @@ k2 :> y},
         {[i \in {} |-> x], 0 :> y, 0 :> y @@ 1 :> x, 0 :> a1 @@ 1 :> a1})

MappingInputs ==
  UNION {{[at |-> at, decl |-> Declared(at, "target"),
           default |-> [NoDefaults EXCEPT ![a1] = DOMAIN at[a1] \cap {k1},
                                          ![b1] = DOMAIN at[b1] \cap {k2}],
           array |-> {b2, a2},
           map |-> [SameKeys(at) EXCEPT ![<<b1, a1>>] = m, ![<<b2, a2>>] = n]] :
            m \in Answers(at, {b2, a2}, b1, a1), n \in Answers(at, {b2, a2}, b2, a2)} :
         at \in MappingGraphs}

\* One set, enumerated once.
MixedInputs == {d : d \in ScopeInputs \cup MappingInputs}

\* What the theorems about declaration paths suppose holds of these documents.
ASSUME MixedInputsDeclared == \A d \in MixedInputs : DeclaredOnce(d) /\ ToldByPath(d)

-----------------------------------------------------------------------------
(***************************************************************************)
(* The paths k1 and k2 refer to one path item and are renamed to k3 and    *)
(* k4, as two paths are whose parameter is called otherwise.               *)
(***************************************************************************)
RenameGraph ==
  (b1 :> (k1 :> b2 @@ k2 :> b2)) @@ (a1 :> (k3 :> a2 @@ k4 :> a2))
    @@ (b2 :> (k1 :> x)) @@ (a2 :> (k1 :> x)) @@ Roots

RenameInputs ==
  {[d EXCEPT !.map[<<b1, a1>>] = (k1 :> k3 @@ k2 :> k4)] :
     d \in Documents({RenameGraph}, {"target"})}

=============================================================================
