-------------------------- MODULE AggregateDiffs_proofs --------------------------
(***************************************************************************)
(* Proofs about AggregateDiffs for every document, also a cyclic one.      *)
(***************************************************************************)
EXTENDS AggregateDiffs, TLAPS

-----------------------------------------------------------------------------
(***************************************************************************)
(* The inductive invariant.                                                *)
(***************************************************************************)
Frame == [obj : Obj, todo : SUBSET Obj, found : SUBSET Diff]

TypeOK ==
  /\ doc \in Input
  /\ stack \in Seq(Frame)
  /\ visited \in SUBSET Obj
  /\ DOMAIN aggregated \subseteq visited
  /\ aggregated \in [DOMAIN aggregated -> SUBSET Diff]

\* No cycle can be reached from o.
Acyclic(o) == \A x \in Reached(o) : ~InCycle(x)

\* The children of an open object that its call is done with.
Done(i) == doc.holds[stack[i].obj] \ stack[i].todo

\* Each open object is held by the one opened before it, so it is reached from all of those;
\* what a call has to do is held by its object.
Chained ==
  /\ \A i \in DOMAIN stack : stack[i].todo \subseteq doc.holds[stack[i].obj]
  /\ \A i, j \in DOMAIN stack :
       /\ i <= j => stack[j].obj \in Reached(stack[i].obj)
       /\ j = i + 1 => stack[j].obj \in doc.holds[stack[i].obj]

\* The walk has entered what is open, what it is done with, and what closed objects hold.
Entered ==
  /\ \A i \in DOMAIN stack : stack[i].obj \in visited /\ Done(i) \subseteq visited
  /\ \A x \in visited : IsOpen(x) \/ doc.holds[x] \subseteq visited

\* Nothing is collected for an object that is not in it or below it.
Sound ==
  /\ \A o \in Obj : AggregateOf(o) \subseteq Below(o)
  /\ \A i \in DOMAIN stack : stack[i].found \subseteq Below(stack[i].obj)

\* Away from cycles, a closed object and the children a call is done with have given all.
Complete ==
  /\ \A o \in visited : ~IsOpen(o) /\ Acyclic(o) => Below(o) \subseteq AggregateOf(o)
  /\ \A i \in DOMAIN stack : Acyclic(stack[i].obj) =>
       \A y \in Done(i) : Below(y) \subseteq stack[i].found

\* Until the walk ends, some open call has the own diffs of each closed object.
Carried ==
  stack # <<>> =>
    /\ stack[1].obj = Root
    /\ \A x \in visited : IsOpen(x) \/ \E i \in DOMAIN stack : doc.own[x] \subseteq stack[i].found

AggregateInv ==
  TypeOK /\ Chained /\ Entered /\ Sound /\ Complete /\ Carried /\ RootExact

-----------------------------------------------------------------------------
(***************************************************************************)
(* Lemmas about what is reached and what is below.                         *)
(***************************************************************************)

\* Reached(o) is the least closed set of objects that has o.
LEMMA ReachedLeast ==
  ASSUME NEW o \in Obj
  PROVE  /\ Reached(o) \in SUBSET Obj /\ o \in Reached(o)
         /\ \A S \in SUBSET Obj : o \in S /\ Closed(S) => Reached(o) \subseteq S
BY DEF Reached

\* What is held by something reached from o is reached from o.
LEMMA ReachedClosed ==
  ASSUME doc \in Input, NEW o \in Obj
  PROVE  Closed(Reached(o))
<1> SUFFICES ASSUME NEW x \in Reached(o), NEW y \in doc.holds[x] PROVE y \in Reached(o)
  BY DEF Closed
<1>1. x \in Obj /\ y \in Obj
  BY ReachedLeast, AggregateAssumption
<1>2. ASSUME NEW S \in SUBSET Obj, o \in S, Closed(S) PROVE y \in S
  <2>1. x \in S
    BY <1>2, ReachedLeast
  <2>2. QED
    BY <1>2, <2>1 DEF Closed
<1>3. QED
  BY <1>1, <1>2 DEF Reached

\* What is reached from something reached is reached, so it is below, and as far from cycles.
LEMMA ReachedFurther ==
  ASSUME doc \in Input, NEW o \in Obj, NEW x \in Reached(o)
  PROVE  /\ x \in Obj /\ Reached(x) \subseteq Reached(o) /\ Below(x) \subseteq Below(o)
         /\ Acyclic(o) => Acyclic(x)
<1>1. x \in Obj
  BY ReachedLeast
<1>2. Reached(x) \subseteq Reached(o)
  BY <1>1, ReachedLeast, ReachedClosed
<1>3. QED
  BY <1>1, <1>2 DEF Below, Acyclic

\* The children of an object are reached from it, and its own diffs are below it.
LEMMA ChildReached ==
  ASSUME doc \in Input, NEW o \in Obj
  PROVE  /\ \A y \in doc.holds[o] : y \in Obj /\ y \in Reached(o) /\ Below(y) \subseteq Below(o)
         /\ doc.own[o] \subseteq Below(o)
<1>1. o \in Reached(o)
  BY ReachedLeast
<1>2. \A y \in doc.holds[o] : y \in Reached(o)
  BY <1>1, ReachedClosed DEF Closed
<1>3. QED
  BY <1>1, <1>2, ReachedFurther DEF Below

\* Below an object there is nothing but its own diffs and what is below its children.
LEMMA BelowFromChildren ==
  ASSUME doc \in Input, NEW o \in Obj, NEW D,
         doc.own[o] \subseteq D, \A y \in doc.holds[o] : Below(y) \subseteq D
  PROVE  Below(o) \subseteq D
<1> DEFINE S == {o} \cup UNION {Reached(y) : y \in doc.holds[o]}
<1>1. \A y \in doc.holds[o] : y \in Obj
  BY ChildReached
<1>2. S \in SUBSET Obj
  BY <1>1, ReachedLeast
<1>3. Closed(S)
  <2>1. doc.holds[o] \subseteq S
    BY <1>1, ReachedLeast
  <2>2. \A y \in doc.holds[o] : Closed(Reached(y))
    BY <1>1, ReachedClosed
  <2>3. QED
    BY <2>1, <2>2 DEF Closed
<1>4. Reached(o) \subseteq S
  BY <1>2, <1>3, ReachedLeast
<1>5. ASSUME NEW x \in Reached(o) PROVE doc.own[x] \subseteq D
  <2>1. CASE x = o
    BY <2>1
  <2>2. ASSUME NEW y \in doc.holds[o], x \in Reached(y) PROVE doc.own[x] \subseteq D
    BY <2>2 DEF Below
  <2>3. QED
    BY <1>4, <2>1, <2>2
<1>6. QED
  BY <1>5 DEF Below

\* A closed set of objects has everything that is below one of them.
LEMMA BelowClosedSet ==
  ASSUME doc \in Input, NEW o \in Obj, NEW S \in SUBSET Obj, o \in S, Closed(S),
         NEW D, \A x \in S : doc.own[x] \subseteq D
  PROVE  Below(o) \subseteq D
<1>1. Reached(o) \subseteq S
  BY ReachedLeast
<1>2. QED
  BY <1>1 DEF Below

\* Of one document, what is reached and what is below does not change.
LEMMA DocumentFixed ==
  ASSUME doc' = doc
  PROVE  \A o : /\ Reached(o)' = Reached(o) /\ Below(o)' = Below(o)
                /\ Acyclic(o)' = Acyclic(o)
<1>1. ASSUME NEW o PROVE Reached(o)' = Reached(o)
  BY DEF Reached, Closed
<1>2. ASSUME NEW o PROVE InCycle(o)' = InCycle(o)
  BY <1>1 DEF InCycle
<1>3. QED
  BY <1>1, <1>2 DEF Below, Acyclic

-----------------------------------------------------------------------------
(***************************************************************************)
(* Lemmas about the stack and about one step.                              *)
(***************************************************************************)

\* An answer changes only the innermost call, and not the object it is for.
LEMMA TakeEffect ==
  ASSUME NEW s \in Seq(Frame), s # <<>>, NEW o, NEW answer \in SUBSET Diff
  PROVE  /\ Take(s, o, answer) \in Seq(Frame)
         /\ Len(Take(s, o, answer)) = Len(s) /\ DOMAIN Take(s, o, answer) = 1 .. Len(s)
         /\ \A i \in 1 .. Len(s) : Take(s, o, answer)[i].obj = s[i].obj
         /\ \A i \in 1 .. Len(s) : i # Len(s) => Take(s, o, answer)[i] = s[i]
         /\ Take(s, o, answer)[Len(s)].todo = s[Len(s)].todo \ {o}
         /\ Take(s, o, answer)[Len(s)].found = s[Len(s)].found \cup answer
<1> DEFINE n == Len(s)
           f == [s[n] EXCEPT !.todo = @ \ {o}, !.found = @ \cup answer]
<1>1. n \in Nat /\ n \in 1 .. n /\ s[n] \in Frame
  OBVIOUS
<1>2. f \in Frame /\ f.obj = s[n].obj /\ f.todo = s[n].todo \ {o}
      /\ f.found = s[n].found \cup answer
  BY <1>1 DEF Frame
<1>3. Take(s, o, answer) = [s EXCEPT ![n] = f]
  BY <1>1 DEF Take, Frame
<1> HIDE DEF f
<1>4. QED
  BY <1>1, <1>2, <1>3

\* What the innermost call is, when one is open.
LEMMA TopTyping ==
  ASSUME TypeOK, stack # <<>>
  PROVE  /\ Len(stack) \in Nat /\ Len(stack) >= 1 /\ DOMAIN stack = 1 .. Len(stack)
         /\ Top = stack[Len(stack)] /\ Top \in Frame
         /\ Top.obj \in Obj /\ Top.todo \in SUBSET Obj /\ Top.found \in SUBSET Diff
         /\ \A i \in 1 .. Len(stack) : stack[i] \in Frame
<1>1. /\ Len(stack) \in Nat /\ Len(stack) >= 1 /\ DOMAIN stack = 1 .. Len(stack)
      /\ \A i \in 1 .. Len(stack) : stack[i] \in Frame
  BY DEF TypeOK
<1>2. Top = stack[Len(stack)] /\ Top \in Frame
  BY <1>1 DEF Top
<1>3. QED
  BY <1>1, <1>2 DEF Frame

\* The document has its shape, whatever it is.
LEMMA DocumentShape ==
  ASSUME doc \in Input
  PROVE  doc.holds \in [Obj -> SUBSET Obj] /\ doc.own \in [Obj -> SUBSET Diff]
BY AggregateAssumption

\* Enter opens an object that is held by the innermost one and was never open.
LEMMA EnterStep ==
  ASSUME AggregateInv, NEW o \in Obj, Enter(o)
  PROVE  AggregateInv'
<1> DEFINE n == Len(stack)
<1>1. /\ TypeOK /\ stack # <<>> /\ o \in Top.todo /\ o \notin visited
      /\ doc' = doc /\ aggregated' = aggregated
      /\ visited' = visited \cup {o} /\ stack' = Append(stack, Call(o))
  BY DEF Enter, AggregateInv
<1>2. /\ n \in Nat /\ n >= 1 /\ DOMAIN stack = 1 .. n /\ Top = stack[n]
      /\ \A i \in 1 .. n : stack[i] \in Frame
  BY <1>1, TopTyping
<1>3. /\ Call(o) \in Frame /\ Call(o).obj = o /\ Call(o).found = {}
      /\ Call(o).todo = doc.holds[o]
  BY <1>1, DocumentShape DEF Call, Frame, TypeOK
<1>4. /\ stack' \in Seq(Frame) /\ Len(stack') = n + 1 /\ DOMAIN stack' = 1 .. n + 1
      /\ stack'[n + 1] = Call(o) /\ \A i \in 1 .. n : stack'[i] = stack[i]
  BY <1>1, <1>2, <1>3 DEF TypeOK
<1>5. \A x : /\ Reached(x)' = Reached(x) /\ Below(x)' = Below(x) /\ Acyclic(x)' = Acyclic(x)
             /\ AggregateOf(x)' = AggregateOf(x)
  BY <1>1, DocumentFixed DEF AggregateOf
<1>6. \A x : IsOpen(x)' <=> IsOpen(x) \/ x = o
  BY <1>2, <1>3, <1>4 DEF IsOpen
<1>7. \A i \in 1 .. n + 1 : Done(i)' = IF i = n + 1 THEN {} ELSE Done(i)
  BY <1>1, <1>2, <1>3, <1>4 DEF Done
<1>8. TypeOK'
  BY <1>1, <1>4 DEF TypeOK
<1>9. Chained'
  <2>1. Top.obj \in Obj /\ o \in doc.holds[Top.obj]
    BY <1>1, <1>2, TopTyping DEF AggregateInv, Chained
  <2>2. \A i \in 1 .. n : o \in Reached(stack[i].obj)
    <3> TAKE i \in 1 .. n
    <3>1. stack[n].obj \in Reached(stack[i].obj) /\ stack[i].obj \in Obj
      BY <1>2 DEF AggregateInv, Chained, Frame
    <3>2. QED
      BY <1>1, <1>2, <2>1, <3>1, ReachedClosed DEF Closed, TypeOK
  <2>3. o \in Reached(o)
    BY ReachedLeast
  <2>4. \A i \in 1 .. n + 1 : stack'[i].todo \subseteq doc.holds[stack'[i].obj]
    BY <1>2, <1>3, <1>4 DEF AggregateInv, Chained
  <2>5. \A i, j \in 1 .. n + 1 :
          /\ i <= j => stack'[j].obj \in Reached(stack'[i].obj)
          /\ j = i + 1 => stack'[j].obj \in doc.holds[stack'[i].obj]
    <3> TAKE i, j \in 1 .. n + 1
    <3>1. CASE j \in 1 .. n
      BY <3>1, <1>2, <1>4 DEF AggregateInv, Chained
    <3>2. CASE j = n + 1
      BY <3>2, <1>2, <1>3, <1>4, <2>1, <2>2, <2>3
    <3>3. QED
      BY <1>2, <3>1, <3>2
  <2>6. QED
    BY <1>1, <1>4, <1>5, <2>4, <2>5 DEF Chained
<1>10. Entered'
  <2>1. ASSUME NEW i \in 1 .. n + 1
        PROVE  stack'[i].obj \in visited' /\ Done(i)' \subseteq visited'
    <3>1. CASE i \in 1 .. n
      BY <3>1, <1>1, <1>2, <1>4, <1>7 DEF AggregateInv, Entered
    <3>2. CASE i = n + 1
      BY <3>2, <1>1, <1>3, <1>4, <1>7
    <3>3. QED
      BY <1>2, <3>1, <3>2
  <2>2. \A x \in visited' : IsOpen(x)' \/ doc'.holds[x] \subseteq visited'
    BY <1>1, <1>6 DEF AggregateInv, Entered
  <2>3. QED
    BY <1>4, <2>1, <2>2 DEF Entered
<1>11. Sound'
  <2>1. \A i \in 1 .. n + 1 : stack'[i].found \subseteq Below(stack'[i].obj)
    BY <1>2, <1>3, <1>4 DEF AggregateInv, Sound
  <2>2. QED
    BY <1>4, <1>5, <2>1 DEF AggregateInv, Sound
<1>12. Complete'
  <2>1. ASSUME NEW i \in 1 .. n + 1
        PROVE  Acyclic(stack'[i].obj) => \A y \in Done(i)' : Below(y) \subseteq stack'[i].found
    <3>1. CASE i \in 1 .. n
      BY <3>1, <1>2, <1>4, <1>7 DEF AggregateInv, Complete
    <3>2. CASE i = n + 1
      BY <3>2, <1>7
    <3>3. QED
      BY <1>2, <3>1, <3>2
  <2>2. \A x \in visited' : ~IsOpen(x)' /\ Acyclic(x) => Below(x) \subseteq AggregateOf(x)
    BY <1>1, <1>6 DEF AggregateInv, Complete
  <2>3. QED
    BY <1>4, <1>5, <2>1, <2>2 DEF Complete
<1>13. Carried'
  <2>1. stack'[1].obj = Root
    BY <1>1, <1>2, <1>4 DEF AggregateInv, Carried
  <2>2. ASSUME NEW x \in visited'
        PROVE  IsOpen(x)' \/ \E i \in 1 .. n + 1 : doc.own[x] \subseteq stack'[i].found
    BY <1>1, <1>2, <1>4, <1>6, <2>2 DEF AggregateInv, Carried
  <2>3. QED
    BY <1>1, <1>4, <2>1, <2>2 DEF Carried
<1>14. RootExact'
  BY <1>2, <1>4 DEF RootExact
<1>15. QED
  BY <1>8, <1>9, <1>10, <1>11, <1>12, <1>13, <1>14 DEF AggregateInv

\* Away from cycles, an object met again is not open, for an open one reaches the innermost.
LEMMA MetOpenIsCyclic ==
  ASSUME AggregateInv, NEW o \in Obj, stack # <<>>, o \in Top.todo, IsOpen(o)
  PROVE  ~Acyclic(Top.obj)
<1> DEFINE n == Len(stack)
<1>1. TypeOK /\ doc \in Input
  BY DEF AggregateInv, TypeOK
<1>2. n \in Nat /\ n >= 1 /\ DOMAIN stack = 1 .. n /\ Top = stack[n] /\ Top.obj \in Obj
  BY <1>1, TopTyping
<1> HIDE DEF n
<1>3. PICK j \in 1 .. n : stack[j].obj = o
  BY <1>2 DEF IsOpen
<1>4. o \in doc.holds[Top.obj]
  BY <1>2 DEF AggregateInv, Chained
<1>5. o \in Reached(Top.obj)
  BY <1>1, <1>2, <1>4, ChildReached
<1>6. InCycle(o)
  <2>1. CASE j = n
    BY <2>1, <1>2, <1>3, <1>4, ReachedLeast DEF InCycle
  <2>2. CASE j # n
    <3> DEFINE x == stack[j + 1].obj
    <3>1. j + 1 \in 1 .. n /\ j + 1 <= n
      BY <2>2, <1>2
    <3>2. x \in doc.holds[o]
      BY <3>1, <1>2, <1>3 DEF AggregateInv, Chained
    <3>3. Top.obj \in Reached(x)
      BY <3>1, <1>2 DEF AggregateInv, Chained
    <3>4. x \in Obj
      BY <1>1, <3>2, ChildReached
    <3>5. o \in Reached(x)
      BY <1>1, <1>4, <3>3, <3>4, ReachedClosed DEF Closed
    <3>6. QED
      BY <3>2, <3>5 DEF InCycle
  <2>3. QED
    BY <2>1, <2>2
<1>7. QED
  BY <1>5, <1>6 DEF Acyclic

\* MeetAgain takes what is stored so far, which away from cycles is everything.
LEMMA MeetAgainStep ==
  ASSUME AggregateInv, NEW o \in Obj, MeetAgain(o)
  PROVE  AggregateInv'
<1> DEFINE n == Len(stack)
<1>1. /\ TypeOK /\ stack # <<>> /\ o \in Top.todo /\ o \in visited
      /\ doc' = doc /\ aggregated' = aggregated /\ visited' = visited
      /\ stack' = Take(stack, o, AggregateOf(o)) /\ doc \in Input
  BY DEF MeetAgain, AggregateInv, TypeOK
<1>2. /\ n \in Nat /\ n >= 1 /\ DOMAIN stack = 1 .. n /\ Top = stack[n] /\ Top.obj \in Obj
      /\ \A i \in 1 .. n : stack[i] \in Frame
  BY <1>1, TopTyping
<1>3. AggregateOf(o) \in SUBSET Diff /\ stack \in Seq(Frame)
  BY <1>1 DEF AggregateOf, TypeOK
<1>4. /\ stack' \in Seq(Frame) /\ Len(stack') = n /\ DOMAIN stack' = 1 .. n
      /\ \A i \in 1 .. n : stack'[i].obj = stack[i].obj
      /\ \A i \in 1 .. n : i # n => stack'[i] = stack[i]
      /\ stack'[n].todo = stack[n].todo \ {o}
      /\ stack'[n].found = stack[n].found \cup AggregateOf(o)
  <2> DEFINE t == Take(stack, o, AggregateOf(o))
  <2>1. /\ t \in Seq(Frame) /\ Len(t) = n /\ DOMAIN t = 1 .. n
        /\ \A i \in 1 .. n : t[i].obj = stack[i].obj
        /\ \A i \in 1 .. n : i # n => t[i] = stack[i]
        /\ t[n].todo = stack[n].todo \ {o}
        /\ t[n].found = stack[n].found \cup AggregateOf(o)
    BY <1>1, <1>3, TakeEffect
  <2> HIDE DEF t
  <2>2. stack' = t
    BY <1>1 DEF t
  <2> HIDE DEF n
  <2>3. QED
    BY <2>1, <2>2
<1>5. \A x : /\ Reached(x)' = Reached(x) /\ Below(x)' = Below(x) /\ Acyclic(x)' = Acyclic(x)
             /\ AggregateOf(x)' = AggregateOf(x)
  BY <1>1, DocumentFixed DEF AggregateOf
<1>6. \A x : IsOpen(x)' <=> IsOpen(x)
  BY <1>2, <1>4 DEF IsOpen
<1>7. o \in doc.holds[Top.obj]
  BY <1>1, <1>2 DEF AggregateInv, Chained
<1>8. \A i \in 1 .. n : Done(i)' \subseteq IF i = n THEN Done(i) \cup {o} ELSE Done(i)
  BY <1>1, <1>2, <1>4 DEF Done
<1>9. TypeOK'
  BY <1>1, <1>4 DEF TypeOK
<1>10. Chained'
  <2>1. \A i \in 1 .. n : stack'[i].todo \subseteq doc.holds[stack'[i].obj]
    BY <1>2, <1>4 DEF AggregateInv, Chained
  <2>2. \A i, j \in 1 .. n :
          /\ i <= j => stack'[j].obj \in Reached(stack'[i].obj)
          /\ j = i + 1 => stack'[j].obj \in doc.holds[stack'[i].obj]
    BY <1>2, <1>4 DEF AggregateInv, Chained
  <2>3. QED
    BY <1>1, <1>4, <1>5, <2>1, <2>2 DEF Chained
<1>11. Entered'
  <2>1. \A i \in 1 .. n : stack'[i].obj \in visited /\ Done(i)' \subseteq visited
    BY <1>1, <1>2, <1>4, <1>8 DEF AggregateInv, Entered
  <2>2. \A x \in visited : IsOpen(x)' \/ doc.holds[x] \subseteq visited
    BY <1>6 DEF AggregateInv, Entered
  <2>3. QED
    BY <1>1, <1>4, <2>1, <2>2 DEF Entered
<1>12. Sound'
  <2>1. AggregateOf(o) \subseteq Below(Top.obj)
    BY <1>1, <1>2, <1>7, ChildReached DEF AggregateInv, Sound
  <2>2. \A i \in 1 .. n : stack'[i].found \subseteq Below(stack'[i].obj)
    BY <1>2, <1>4, <2>1 DEF AggregateInv, Sound
  <2>3. QED
    BY <1>4, <1>5, <2>2 DEF AggregateInv, Sound
<1>13. Complete'
  <2>1. Acyclic(Top.obj) => Below(o) \subseteq AggregateOf(o)
    <3> SUFFICES ASSUME Acyclic(Top.obj) PROVE Below(o) \subseteq AggregateOf(o)
      OBVIOUS
    <3>1. ~IsOpen(o)
      BY <1>1, MetOpenIsCyclic
    <3>2. Acyclic(o)
      BY <1>1, <1>2, <1>7, ChildReached, ReachedFurther
    <3>3. QED
      BY <1>1, <3>1, <3>2 DEF AggregateInv, Complete
  <2>2. ASSUME NEW i \in 1 .. n
        PROVE  Acyclic(stack'[i].obj) => \A y \in Done(i)' : Below(y) \subseteq stack'[i].found
    <3>1. CASE i = n
      BY <3>1, <1>2, <1>4, <1>8, <2>1 DEF AggregateInv, Complete
    <3>2. CASE i # n
      BY <3>2, <1>2, <1>4, <1>8 DEF AggregateInv, Complete
    <3>3. QED
      BY <3>1, <3>2
  <2>3. \A x \in visited : ~IsOpen(x)' /\ Acyclic(x) => Below(x) \subseteq AggregateOf(x)
    BY <1>6 DEF AggregateInv, Complete
  <2>4. QED
    BY <1>1, <1>4, <1>5, <2>2, <2>3 DEF Complete
<1>14. Carried'
  <2>1. \A i \in 1 .. n : stack[i].found \subseteq stack'[i].found
    BY <1>2, <1>4
  <2>2. \A x \in visited : IsOpen(x)' \/ \E i \in 1 .. n : doc.own[x] \subseteq stack'[i].found
    BY <1>1, <1>2, <1>6, <2>1 DEF AggregateInv, Carried
  <2>3. stack'[1].obj = Root
    BY <1>1, <1>2, <1>4 DEF AggregateInv, Carried
  <2>4. QED
    BY <1>1, <1>4, <2>2, <2>3 DEF Carried
<1>15. RootExact'
  BY <1>2, <1>4 DEF RootExact
<1>16. QED
  BY <1>9, <1>10, <1>11, <1>12, <1>13, <1>14, <1>15 DEF AggregateInv

\* What Leave stores and hands on is the rollup of the innermost object: never too much, and
\* everything away from cycles.
LEMMA RollupOfTop ==
  ASSUME AggregateInv, stack # <<>>, Top.todo = {},
         NEW all, all = Rollup(doc.own[Top.obj], Top.found)
  PROVE  /\ all \in SUBSET Diff /\ doc.own[Top.obj] \subseteq all /\ Top.found \subseteq all
         /\ all \subseteq Below(Top.obj)
         /\ Acyclic(Top.obj) => Below(Top.obj) \subseteq all
<1> DEFINE n == Len(stack)
<1>1. TypeOK /\ doc \in Input
  BY DEF AggregateInv, TypeOK
<1>2. /\ n \in 1 .. n /\ DOMAIN stack = 1 .. n /\ Top = stack[n] /\ Top.obj \in Obj
      /\ Top.found \in SUBSET Diff
  BY <1>1, TopTyping
<1>3. all = doc.own[Top.obj] \cup Top.found /\ doc.own[Top.obj] \in SUBSET Diff
  BY <1>1, <1>2, DocumentShape DEF Rollup
<1>4. all \subseteq Below(Top.obj)
  BY <1>1, <1>2, <1>3, ChildReached DEF AggregateInv, Sound
<1>5. ASSUME Acyclic(Top.obj) PROVE Below(Top.obj) \subseteq all
  <2>1. Done(n) = doc.holds[Top.obj]
    BY <1>2 DEF Done
  <2>2. \A y \in doc.holds[Top.obj] : Below(y) \subseteq Top.found
    BY <1>2, <1>5, <2>1 DEF AggregateInv, Complete
  <2>3. QED
    BY <1>1, <1>2, <1>3, <2>2, BelowFromChildren
<1>6. QED
  BY <1>2, <1>3, <1>4, <1>5

\* What is stored when the call of o is left: o has the rollup, the others what they had.
LEMMA StoredEffect ==
  ASSUME TypeOK, NEW o \in visited, NEW all \in SUBSET Diff,
         aggregated' = IF all = {} THEN aggregated
                       ELSE [x \in DOMAIN aggregated \cup {o} |->
                               IF x = o THEN all ELSE aggregated[x]]
  PROVE  /\ DOMAIN aggregated' \subseteq visited
         /\ aggregated' \in [DOMAIN aggregated' -> SUBSET Diff]
         /\ \A x : x # o => AggregateOf(x)' = AggregateOf(x)
         /\ all \subseteq AggregateOf(o)'
         /\ AggregateOf(o)' \subseteq AggregateOf(o) \cup all
<1>1. CASE all = {}
  BY <1>1 DEF TypeOK, AggregateOf
<1>2. CASE all # {}
  BY <1>2 DEF TypeOK, AggregateOf
<1>3. QED
  BY <1>1, <1>2

\* Leave of the root: the walk ends, and all that is entered has come to the root.
LEMMA LeaveRootStep ==
  ASSUME AggregateInv, Leave, Len(stack) = 1
  PROVE  AggregateInv'
<1> DEFINE all == Rollup(doc.own[Top.obj], Top.found)
<1>1. /\ TypeOK /\ stack # <<>> /\ Top.todo = {} /\ doc' = doc /\ visited' = visited
      /\ doc \in Input
  BY DEF Leave, AggregateInv, TypeOK
<1>2. DOMAIN stack = 1 .. 1 /\ Top = stack[1] /\ Top.obj = Root /\ Root \in Obj
  BY <1>1, TopTyping DEF AggregateInv, Carried
<1>3. stack' = <<>>
  <2>1. SubSeq(stack, 1, Len(stack) - 1) = <<>>
    BY <1>1 DEF TypeOK
  <2>2. QED
    BY <2>1 DEF Leave
<1>4. /\ all \in SUBSET Diff /\ doc.own[Root] \subseteq all /\ Top.found \subseteq all
      /\ all \subseteq Below(Root)
  BY <1>1, <1>2, RollupOfTop
<1>5. Root \in visited
  BY <1>2 DEF AggregateInv, Entered
<1>6. aggregated' = IF all = {} THEN aggregated
                    ELSE [x \in DOMAIN aggregated \cup {Root} |->
                            IF x = Root THEN all ELSE aggregated[x]]
  BY <1>2 DEF Leave
<1> HIDE DEF all
<1>7. /\ DOMAIN aggregated' \subseteq visited
      /\ aggregated' \in [DOMAIN aggregated' -> SUBSET Diff]
      /\ \A x : x # Root => AggregateOf(x)' = AggregateOf(x)
      /\ all \subseteq AggregateOf(Root)'
      /\ AggregateOf(Root)' \subseteq AggregateOf(Root) \cup all
  BY <1>1, <1>4, <1>5, <1>6, StoredEffect
<1>8. \A x : /\ Reached(x)' = Reached(x) /\ Below(x)' = Below(x) /\ Acyclic(x)' = Acyclic(x)
  BY <1>1, DocumentFixed
<1>9. \A x \in visited : x = Root \/ ~IsOpen(x)
  BY <1>2 DEF IsOpen
<1>10. DOMAIN stack' = {} /\ stack' \in Seq(Frame)
  BY <1>3
<1>11. Below(Root) \subseteq all
  <2>1. \A x \in visited : doc.own[x] \subseteq all
    BY <1>1, <1>2, <1>4, <1>9 DEF AggregateInv, Carried
  <2>2. Closed(visited)
    <3>1. doc.holds[Root] \subseteq visited
      BY <1>1, <1>2 DEF AggregateInv, Entered, Done
    <3>2. QED
      BY <1>9, <3>1 DEF AggregateInv, Entered, Closed
  <2>3. visited \in SUBSET Obj
    BY <1>1 DEF TypeOK
  <2>4. QED
    BY <1>1, <1>2, <1>5, <2>1, <2>2, <2>3, BelowClosedSet
<1>12. TypeOK'
  BY <1>1, <1>7, <1>10 DEF TypeOK
<1>13. Chained' /\ Carried'
  BY <1>3, <1>10 DEF Chained, Carried
<1>14. Entered'
  <2>1. doc.holds[Root] \subseteq visited
    BY <1>1, <1>2 DEF AggregateInv, Entered, Done
  <2>2. QED
    BY <1>1, <1>9, <1>10, <2>1 DEF AggregateInv, Entered
<1>15. \A x \in Obj : AggregateOf(x)' \subseteq Below(x)
  <2> TAKE x \in Obj
  <2>1. AggregateOf(x) \subseteq Below(x)
    BY DEF AggregateInv, Sound
  <2>2. CASE x = Root
    BY <1>4, <1>7, <2>1, <2>2
  <2>3. CASE x # Root
    BY <1>7, <2>1, <2>3
  <2>4. QED
    BY <2>2, <2>3
<1>16. Complete'
  <2>1. \A x \in visited : Acyclic(x) => Below(x) \subseteq AggregateOf(x)'
    BY <1>7, <1>9, <1>11 DEF AggregateInv, Complete
  <2>2. QED
    BY <1>1, <1>8, <1>10, <2>1 DEF Complete
<1>17. Sound'
  BY <1>8, <1>10, <1>15 DEF Sound
<1>18. RootExact'
  <2>1. AggregateOf(Root)' = Below(Root)
    BY <1>2, <1>7, <1>11, <1>15
  <2>2. QED
    BY <1>8, <2>1 DEF RootExact
<1>19. QED
  BY <1>12, <1>13, <1>14, <1>16, <1>17, <1>18 DEF AggregateInv

\* Leave of another object: the call outside takes the rollup, and with it all it carried.
LEMMA LeaveInnerStep ==
  ASSUME AggregateInv, Leave, Len(stack) # 1
  PROVE  AggregateInv'
<1> DEFINE n == Len(stack)
           m == n - 1
           o == Top.obj
           all == Rollup(doc.own[o], Top.found)
           outer == SubSeq(stack, 1, n - 1)
<1>1. /\ TypeOK /\ stack # <<>> /\ Top.todo = {} /\ doc' = doc /\ visited' = visited
      /\ doc \in Input
  BY DEF Leave, AggregateInv, TypeOK
<1>2. /\ n \in Nat /\ m \in Nat /\ m >= 1 /\ n = m + 1 /\ DOMAIN stack = 1 .. n
      /\ Top = stack[n] /\ o \in Obj /\ Top.found \in SUBSET Diff
      /\ \A i \in 1 .. n : stack[i] \in Frame
  BY <1>1, TopTyping
<1>3. /\ outer \in Seq(Frame) /\ Len(outer) = m /\ outer # <<>>
      /\ \A i \in 1 .. m : outer[i] = stack[i]
  <2>1. stack \in Seq(Frame) /\ 1 \in 1 .. n + 1 /\ n - 1 \in 0 .. n
    BY <1>1, <1>2 DEF TypeOK
  <2>2. outer \in Seq(Frame) /\ Len(outer) = m
    BY <2>1, <1>2
  <2>3. \A i \in 1 .. m : outer[i] = stack[i]
    BY <2>1, <1>2
  <2> HIDE DEF outer
  <2>4. QED
    BY <2>2, <2>3, <1>2
<1>4. /\ all \in SUBSET Diff /\ doc.own[o] \subseteq all /\ Top.found \subseteq all
      /\ all \subseteq Below(o)
      /\ Acyclic(o) => Below(o) \subseteq all
  BY <1>1, RollupOfTop
<1>5. o \in visited
  BY <1>2 DEF AggregateInv, Entered
<1>6. /\ aggregated' = IF all = {} THEN aggregated
                       ELSE [x \in DOMAIN aggregated \cup {o} |->
                               IF x = o THEN all ELSE aggregated[x]]
      /\ stack' = Take(outer, o, all)
  BY <1>3 DEF Leave
<1>7. /\ DOMAIN aggregated' \subseteq visited
      /\ aggregated' \in [DOMAIN aggregated' -> SUBSET Diff]
      /\ \A x : x # o => AggregateOf(x)' = AggregateOf(x)
      /\ \A x : x = o => /\ all \subseteq AggregateOf(x)'
                         /\ AggregateOf(x)' \subseteq AggregateOf(x) \cup all
  <2> HIDE DEF all, o
  <2>1. PICK x \in visited : x = o
    BY <1>5
  <2>2. aggregated' = IF all = {} THEN aggregated
                      ELSE [y \in DOMAIN aggregated \cup {x} |->
                              IF y = x THEN all ELSE aggregated[y]]
    BY <1>6, <2>1
  <2>3. /\ DOMAIN aggregated' \subseteq visited
        /\ aggregated' \in [DOMAIN aggregated' -> SUBSET Diff]
        /\ \A y : y # x => AggregateOf(y)' = AggregateOf(y)
        /\ all \subseteq AggregateOf(x)'
        /\ AggregateOf(x)' \subseteq AggregateOf(x) \cup all
    BY <1>1, <1>4, <2>2, StoredEffect
  <2>4. QED
    BY <2>1, <2>3
<1>8. /\ stack' \in Seq(Frame) /\ DOMAIN stack' = 1 .. m
      /\ \A i \in 1 .. m : stack'[i].obj = stack[i].obj
      /\ \A i \in 1 .. m : i # m => stack'[i] = stack[i]
      /\ \A i \in 1 .. m : i = m => /\ stack'[i].todo = stack[i].todo \ {o}
                                    /\ stack'[i].found = stack[i].found \cup all
  <2> DEFINE t == Take(outer, o, all)
  <2> HIDE DEF all, o, outer
  <2>1. /\ t \in Seq(Frame) /\ DOMAIN t = 1 .. m
        /\ \A i \in 1 .. m : t[i].obj = outer[i].obj
        /\ \A i \in 1 .. m : i # m => t[i] = outer[i]
        /\ \A i \in 1 .. m : i = m => /\ t[i].todo = outer[i].todo \ {o}
                                      /\ t[i].found = outer[i].found \cup all
    BY <1>3, <1>4, TakeEffect
  <2> HIDE DEF t, m
  <2>2. stack' = t
    BY <1>6 DEF t
  <2>3. QED
    BY <1>3, <2>1, <2>2
<1> HIDE DEF all, outer, m, o
<1>9. \A x : Reached(x)' = Reached(x) /\ Below(x)' = Below(x) /\ Acyclic(x)' = Acyclic(x)
  BY <1>1, DocumentFixed
<1>10. \A x : /\ IsOpen(x)' => IsOpen(x)
              /\ IsOpen(x) => IsOpen(x)' \/ x = o
  BY <1>2, <1>8 DEF IsOpen, o
<1>11. o \in doc.holds[stack[m].obj] /\ m \in 1 .. m /\ m \in 1 .. n /\ stack[m].obj \in Obj
  BY <1>2 DEF AggregateInv, Chained, Frame, o
<1>12. \A i \in 1 .. m : Done(i)' \subseteq IF i = m THEN Done(i) \cup {o} ELSE Done(i)
  BY <1>1, <1>2, <1>8 DEF Done
<1>13. 1 .. m \subseteq 1 .. n
  BY <1>2
<1>14. \A x \in Obj : AggregateOf(x)' \subseteq Below(x)
  <2> TAKE x \in Obj
  <2>1. AggregateOf(x) \subseteq Below(x)
    BY DEF AggregateInv, Sound
  <2>2. CASE x = o
    BY <1>4, <1>7, <2>1, <2>2
  <2>3. CASE x # o
    BY <1>7, <2>1, <2>3
  <2>4. QED
    BY <2>2, <2>3
<1>15. TypeOK'
  BY <1>1, <1>7, <1>8 DEF TypeOK
<1>16. Chained'
  <2>1. \A i \in 1 .. m : stack'[i].todo \subseteq doc.holds[stack'[i].obj]
    BY <1>2, <1>8, <1>13 DEF AggregateInv, Chained
  <2>2. \A i, j \in 1 .. m :
          /\ i <= j => stack'[j].obj \in Reached(stack'[i].obj)
          /\ j = i + 1 => stack'[j].obj \in doc.holds[stack'[i].obj]
    BY <1>2, <1>8, <1>13 DEF AggregateInv, Chained
  <2>3. QED
    BY <1>1, <1>8, <1>9, <2>1, <2>2 DEF Chained
<1>17. Entered'
  <2>1. \A i \in 1 .. m : stack'[i].obj \in visited /\ Done(i)' \subseteq visited
    BY <1>2, <1>5, <1>8, <1>12, <1>13 DEF AggregateInv, Entered
  <2>2. doc.holds[o] \subseteq visited
    BY <1>1, <1>2 DEF AggregateInv, Entered, Done, o
  <2>3. \A x \in visited : IsOpen(x)' \/ doc.holds[x] \subseteq visited
    BY <1>10, <2>2 DEF AggregateInv, Entered
  <2>4. QED
    BY <1>1, <1>8, <2>1, <2>3 DEF Entered
<1>18. Sound'
  <2>1. all \subseteq Below(stack[m].obj)
    BY <1>1, <1>4, <1>11, ChildReached
  <2>2. \A i \in 1 .. m : stack'[i].found \subseteq Below(stack'[i].obj)
    BY <1>2, <1>8, <1>13, <2>1 DEF AggregateInv, Sound
  <2>3. QED
    BY <1>8, <1>9, <1>14, <2>2 DEF Sound
<1>19. Complete'
  <2>1. Acyclic(stack[m].obj) => Below(o) \subseteq all
    BY <1>1, <1>4, <1>11, ChildReached, ReachedFurther
  <2>2. ASSUME NEW i \in 1 .. m
        PROVE  Acyclic(stack'[i].obj) => \A y \in Done(i)' : Below(y) \subseteq stack'[i].found
    <3>1. Acyclic(stack[i].obj) => \A y \in Done(i) : Below(y) \subseteq stack[i].found
      BY <1>2, <1>13 DEF AggregateInv, Complete
    <3>2. CASE i = m
      BY <3>1, <3>2, <1>8, <1>12, <2>1
    <3>3. CASE i # m
      BY <3>1, <3>3, <1>8, <1>12
    <3>4. QED
      BY <3>2, <3>3
  <2>3. ASSUME NEW x \in visited, ~IsOpen(x)', Acyclic(x) PROVE Below(x) \subseteq AggregateOf(x)'
    <3>1. CASE x = o
      BY <3>1, <2>3, <1>4, <1>7
    <3>2. CASE x # o
      BY <3>2, <2>3, <1>7, <1>10 DEF AggregateInv, Complete
    <3>3. QED
      BY <3>1, <3>2
  <2>4. QED
    BY <1>1, <1>8, <1>9, <2>2, <2>3 DEF Complete
<1>20. Carried'
  <2>1. \A i \in 1 .. n : \E j \in 1 .. m : stack[i].found \subseteq stack'[j].found
    <3> TAKE i \in 1 .. n
    <3>1. CASE i = n
      BY <3>1, <1>2, <1>4, <1>8, <1>11
    <3>2. CASE i # n
      <4>1. i \in 1 .. m
        BY <3>2, <1>2
      <4>2. QED
        BY <4>1, <1>8
    <3>3. QED
      BY <3>1, <3>2
  <2>2. \E j \in 1 .. m : doc.own[o] \subseteq stack'[j].found
    BY <1>4, <1>8, <1>11
  <2>3. ASSUME NEW x \in visited
        PROVE  IsOpen(x)' \/ \E j \in 1 .. m : doc.own[x] \subseteq stack'[j].found
    <3>1. CASE x = o
      BY <3>1, <2>2
    <3>2. CASE x # o /\ IsOpen(x)
      BY <3>2, <1>10
    <3>3. CASE ~IsOpen(x)
      <4>1. PICK i \in 1 .. n : doc.own[x] \subseteq stack[i].found
        BY <3>3, <1>1, <1>2 DEF AggregateInv, Carried
      <4>2. QED
        BY <4>1, <2>1
    <3>4. QED
      BY <3>1, <3>2, <3>3
  <2>4. stack'[1].obj = Root
    BY <1>1, <1>2, <1>8 DEF AggregateInv, Carried
  <2>5. QED
    BY <1>1, <1>8, <2>3, <2>4 DEF Carried
<1>21. RootExact'
  BY <1>8, <1>11 DEF RootExact
<1>22. QED
  BY <1>15, <1>16, <1>17, <1>18, <1>19, <1>20, <1>21 DEF AggregateInv

-----------------------------------------------------------------------------
(***************************************************************************)
(* Theorems.                                                               *)
(***************************************************************************)

\* The walk starts with the root alone entered and open.
LEMMA AggregateInit == Init => AggregateInv
<1> SUFFICES ASSUME Init PROVE AggregateInv
  OBVIOUS
<1>1. /\ doc \in Input /\ stack = <<Call(Root)>> /\ visited = {Root}
      /\ aggregated = [x \in {} |-> {}] /\ Root \in Obj
  BY AggregateAssumption DEF Init
<1>2. /\ Call(Root) \in Frame /\ Call(Root).obj = Root /\ Call(Root).found = {}
      /\ Call(Root).todo = doc.holds[Root]
  BY <1>1, DocumentShape DEF Call, Frame
<1>3. stack \in Seq(Frame) /\ DOMAIN stack = {1} /\ stack[1] = Call(Root)
  BY <1>1, <1>2
<1>4. \A x : AggregateOf(x) = {}
  BY <1>1 DEF AggregateOf
<1>5. IsOpen(Root) /\ Done(1) = {}
  BY <1>2, <1>3 DEF IsOpen, Done
<1>6. TypeOK
  BY <1>1, <1>3 DEF TypeOK
<1>7. Chained
  <2>1. Root \in Reached(Root)
    BY <1>1, ReachedLeast
  <2>2. QED
    BY <1>2, <1>3, <2>1 DEF Chained
<1>8. Entered /\ Sound /\ Complete
  BY <1>1, <1>2, <1>3, <1>4, <1>5 DEF Entered, Sound, Complete
<1>9. Carried /\ RootExact
  BY <1>1, <1>2, <1>3, <1>5 DEF Carried, RootExact
<1>10. QED
  BY <1>6, <1>7, <1>8, <1>9 DEF AggregateInv

\* Every step of the walk keeps the invariant.
LEMMA AggregateStep == AggregateInv /\ [Next]_vars => AggregateInv'
<1> SUFFICES ASSUME AggregateInv, [Next]_vars PROVE AggregateInv'
  OBVIOUS
<1>1. ASSUME NEW o \in Obj, Enter(o) PROVE AggregateInv'
  BY <1>1, EnterStep
<1>2. ASSUME NEW o \in Obj, MeetAgain(o) PROVE AggregateInv'
  BY <1>2, MeetAgainStep
<1>3. CASE Leave
  BY <1>3, LeaveRootStep, LeaveInnerStep
<1>4. CASE UNCHANGED vars
  <2>1. \A x : Reached(x)' = Reached(x) /\ Below(x)' = Below(x) /\ Acyclic(x)' = Acyclic(x)
    BY <1>4, DocumentFixed DEF vars
  <2>2. /\ \A x : AggregateOf(x)' = AggregateOf(x) /\ (IsOpen(x)' <=> IsOpen(x))
        /\ \A i : Done(i)' = Done(i)
    BY <1>4 DEF vars, AggregateOf, IsOpen, Done
  <2>3. TypeOK' /\ Chained' /\ Entered'
    BY <1>4, <2>1, <2>2 DEF vars, AggregateInv, TypeOK, Chained, Entered
  <2>4. Sound' /\ Complete'
    BY <1>4, <2>1, <2>2 DEF vars, AggregateInv, Sound, Complete
  <2>5. Carried' /\ RootExact'
    BY <1>4, <2>1, <2>2 DEF vars, AggregateInv, Carried, RootExact
  <2>6. QED
    BY <2>3, <2>4, <2>5 DEF AggregateInv
<1>5. QED
  BY <1>1, <1>2, <1>3, <1>4 DEF Next

\* The invariant of the walk, for every document, shared and cyclic ones included.
THEOREM AggregateInvariant == Spec => []AggregateInv
<1>1. QED
  BY AggregateInit, AggregateStep, PTL DEF Spec

(***************************************************************************)
(* When the walk is over, the aggregate of the root holds every difference *)
(* recorded anywhere in the document and no other, whatever is shared or   *)
(* cyclic in it.                                                           *)
(***************************************************************************)
THEOREM RootIsExact == Spec => []RootExact
<1>1. AggregateInv => RootExact
  BY DEF AggregateInv
<1>2. QED
  BY <1>1, AggregateInvariant, PTL

(***************************************************************************)
(* At every moment, no object has aggregated a difference that is not in   *)
(* it or below it, and an object that the walk has left has them all       *)
(* unless it reaches a cycle.                                              *)
(***************************************************************************)
THEOREM RollupIsExact == Spec => []RollupExact
<1>1. AggregateInv => RollupExact
  <2> SUFFICES ASSUME AggregateInv, NEW o \in visited
      PROVE  /\ AggregateOf(o) \subseteq Below(o)
             /\ ~IsOpen(o) /\ Acyclic(o) => AggregateOf(o) = Below(o)
    BY DEF RollupExact, Acyclic
  <2>1. AggregateOf(o) \subseteq Below(o)
    BY DEF AggregateInv, TypeOK, Sound
  <2>2. ~IsOpen(o) /\ Acyclic(o) => Below(o) \subseteq AggregateOf(o)
    BY DEF AggregateInv, Complete
  <2>3. QED
    BY <2>1, <2>2
<1>2. QED
  BY <1>1, AggregateInvariant, PTL

=============================================================================
