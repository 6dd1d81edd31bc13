----------------------------- MODULE AggregateDiffs -----------------------------
(***************************************************************************)
(* aggregateDiffsWithRollup (utils.ts): a depth-first walk of a merged     *)
(* document that stores in every object the set of the differences in it   *)
(* and below it.  A document may share objects and may be cyclic.          *)
(*                                                                         *)
(* The children of an object are visited in the order of the text, that    *)
(* is, in any order; only objects and arrays count as children.            *)
(***************************************************************************)
EXTENDS Naturals, Sequences, FiniteSets

CONSTANTS
  Obj,       \* the objects and arrays of the merged document
  Root,      \* the one the walk starts from
  Diff,      \* differences
  Input,     \* the documents: [holds : [Obj -> SUBSET Obj], own : [Obj -> SUBSET Diff]]
  MaxDepth   \* bound: the walk is not followed below this many open objects

ASSUME AggregateAssumption ==
  /\ Root \in Obj
  /\ \A d \in Input : d.holds \in [Obj -> SUBSET Obj] /\ d.own \in [Obj -> SUBSET Diff]
  /\ MaxDepth \in Nat \ {0}

VARIABLES
  doc,         \* the merged document: what each object holds, the diffs under its diffProperty
  stack,       \* the open calls, outermost first: [obj, todo, found]
  visited,     \* objects the walk has entered
  aggregated   \* aggregatedDiffProperty of the objects that have it

vars == <<doc, stack, visited, aggregated>>

Top == stack[Len(stack)]

\* What a call for o answers once o is visited: an object still open has no aggregate yet.
AggregateOf(o) == IF o \in DOMAIN aggregated THEN aggregated[o] ELSE {}

Call(o) == [obj |-> o, todo |-> doc.holds[o], found |-> {}]

\* The innermost call takes the answer for its child o; an empty one counts for nothing.
Take(s, o, answer) ==
  [s EXCEPT ![Len(s)].todo = @ \ {o}, ![Len(s)].found = @ \cup answer]

-----------------------------------------------------------------------------
\* Mutant: visited.add(obj) is left out.
EnterUnmarked(o) ==
  /\ stack # <<>> /\ o \in Top.todo
  /\ o \notin visited
  /\ Len(stack) < MaxDepth
  /\ stack' = Append(stack, Call(o))
  /\ UNCHANGED <<doc, visited, aggregated>>

Enter(o) ==
  /\ stack # <<>> /\ o \in Top.todo
  /\ o \notin visited
  /\ Len(stack) < MaxDepth
  /\ visited' = visited \cup {o}
  /\ stack' = Append(stack, Call(o))
  /\ UNCHANGED <<doc, aggregated>>

\* Mutant: an object met again answers nothing.
MeetAgainForNothing(o) ==
  /\ stack # <<>> /\ o \in Top.todo
  /\ o \in visited
  /\ stack' = Take(stack, o, {})
  /\ UNCHANGED <<doc, visited, aggregated>>

\* visited.has(obj): what is stored in the object so far is the answer.
MeetAgain(o) ==
  /\ stack # <<>> /\ o \in Top.todo
  /\ o \in visited
  /\ stack' = Take(stack, o, AggregateOf(o))
  /\ UNCHANGED <<doc, visited, aggregated>>

\* Mutant: the set of the children is handed on though the object has diffs of its own.
HandOn(own, found) == IF found # {} THEN found ELSE own

\* A new set, or the only child's set if there are no own diffs: the same members.
Rollup(own, found) == own \cup found

Leave ==
  LET o == Top.obj
      all == Rollup(doc.own[o], Top.found)
      outer == SubSeq(stack, 1, Len(stack) - 1)
  IN  /\ stack # <<>> /\ Top.todo = {}
      /\ aggregated' = IF all = {} THEN aggregated
                       ELSE [x \in DOMAIN aggregated \cup {o} |->
                               IF x = o THEN all ELSE aggregated[x]]
      /\ stack' = IF outer = <<>> THEN outer ELSE Take(outer, o, all)
      /\ UNCHANGED <<doc, visited>>

Init ==
  /\ doc \in Input
  /\ stack = <<Call(Root)>>
  /\ visited = {Root}
  /\ aggregated = [x \in {} |-> {}]

Next == (\E o \in Obj : Enter(o) \/ MeetAgain(o)) \/ Leave

\* One call on one thread.
Spec == Init /\ [][Next]_vars /\ WF_vars(Next)

-----------------------------------------------------------------------------
(***************************************************************************)
(* Properties                                                              *)
(***************************************************************************)
\* The objects reached from o: the least set with o that holds what its members hold.
Closed(S) == \A x \in S : doc.holds[x] \subseteq S
Reached(o) == {x \in Obj : \A S \in SUBSET Obj : o \in S /\ Closed(S) => x \in S}

Below(o) == UNION {doc.own[x] : x \in Reached(o)}

IsOpen(o) == \E i \in DOMAIN stack : stack[i].obj = o

InCycle(o) == \E x \in doc.holds[o] : o \in Reached(x)

(***************************************************************************)
(* Whatever is shared or cyclic in the document, the aggregate of its root *)
(* holds every difference recorded anywhere in it, and nothing else: what  *)
(* an open object cannot answer yet reaches the root another way.          *)
(***************************************************************************)
RootExact == stack = <<>> => AggregateOf(Root) = Below(Root)

(***************************************************************************)
(* No object aggregates a difference that is not in it or below it, and an *)
(* object the walk has left has them all, also those of objects that it    *)
(* shares, unless a cycle can be reached from it.                          *)
(***************************************************************************)
RollupExact ==
  \A o \in visited :
    /\ AggregateOf(o) \subseteq Below(o)
    /\ ~IsOpen(o) /\ (\A x \in Reached(o) : ~InCycle(x)) => AggregateOf(o) = Below(o)

\* The walk of a cyclic document ends.
Termination == <>(stack = <<>>)

=============================================================================
