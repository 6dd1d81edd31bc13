------------------------------- MODULE DiffReport -------------------------------
(***************************************************************************)
(* What a comparison promises, without saying how: starting from the roots *)
(* every pair of values the mappings lead to is compared, the differences  *)
(* reported are those of compared pairs, and when the comparison returns   *)
(* nothing is left to compare and nothing is left to report.               *)
(*                                                                         *)
(* A pair is compared per compare scope and custom scope: routes that      *)
(* disagree about either reach separate differences.                       *)
(***************************************************************************)
EXTENDS Jso

CONSTANT Input

VARIABLES
  doc,       \* the document pair
  compared,  \* the pairs opened so far
  reported,  \* the differences reported so far
  done       \* the comparison has returned

reportVars == <<doc, compared, reported, done>>

\* The pairs one mapping away: what comparing p obliges the comparison to compare.
SubPairs(p) ==
  {c \in {ChildPair(doc, p, k) : k \in Compared(doc, p)} : SameContainer(doc, c.b, c.a)}

\* The differences p itself shows, and the renames, which a reuse may leave out.
Differences(p) ==
  {DiffReplaced(doc, p, k) : k \in ReplacedKeys(doc, p)}
    \cup {DiffRemoved(doc, p, k) : k \in ReportedRemovals(doc, p)}
    \cup {DiffAdded(doc, p, k) : k \in ReportedAdditions(doc, p)}

RenamesOf(p) == {DiffRenamed(doc, p, k) : k \in RenamedKeys(doc, p)}

ReportInit ==
  /\ doc \in Input
  /\ compared = {RootPair}
  /\ reported = {}
  /\ done = FALSE

\* Compare some pairs reached from compared ones, report some of what they show.
Progress ==
  /\ ~done
  /\ compared \subseteq compared'
  /\ compared' \subseteq compared \cup UNION {SubPairs(p) : p \in compared}
  /\ reported \subseteq reported'
  /\ reported' \subseteq
       reported \cup UNION {Differences(p) \cup RenamesOf(p) : p \in compared}
  /\ UNCHANGED <<doc, done>>

Finish ==
  /\ ~done
  /\ \A p \in compared : SubPairs(p) \subseteq compared /\ Differences(p) \subseteq reported
  /\ done' = TRUE
  /\ UNCHANGED <<doc, compared, reported>>

ReportSpec == ReportInit /\ [][Progress \/ Finish]_reportVars

=============================================================================
