------------------------------ MODULE CoreMapping ------------------------------
(***************************************************************************)
(* The mapping resolvers of core/mapping.ts, and the test of the crawl     *)
(* that decides from an answer whether a node was removed.  Objects are    *)
(* sequences of distinct keys, in the order of the text.                   *)
(***************************************************************************)
EXTENDS MapKeys

\* By position; what the longer array has in excess is removed or added.
arrayMappingResolver(before, after) ==
  MapKeysResult(DOMAIN after \ DOMAIN before, DOMAIN before \ DOMAIN after,
                [i \in DOMAIN before \cap DOMAIN after |-> i])

\* Mutant: an element already matched is looked at again.
AnyEqual(equality, r, before, after, i) ==
  {j \in DOMAIN after : <<before[i], after[j]>> \in equality}

\* Mutant: only the element at the same index is looked at.
EqualAtSameIndex(equality, r, before, after, i) ==
  {j \in r.added : j = i /\ <<before[i], after[j]>> \in equality}

FreeEqual(equality, r, before, after, i) ==
  {j \in r.added : <<before[i], after[j]>> \in equality}

\* The first element of after that is equal and still free, for each element of before in turn;
\* equality is the pairs of elements that the function given accepts.
customUniqueItemsArrayMappingResolver(equality, before, after) ==
  LET Match(r, i) ==
        LET equal == FreeEqual(equality, r, before, after, i)
        IN  IF equal = {} THEN r ELSE Pairing(r, i, Least(equal))
  IN  FoldLeft(Match, Unmatched(DOMAIN before, DOMAIN after), Indexes(before))

\* Mutant: undefined is a key like any other.
FirstWithAnyKey(after, noKey) ==
  [key \in ElementsOf(after) |-> Least({j \in DOMAIN after : after[j] = key})]

\* afterKeyToIndex: the first element with a key wins.
FirstWithKey(after, noKey) ==
  [key \in ElementsOf(after) \ {noKey} |-> Least({j \in DOMAIN after : after[j] = key})]

\* On the keys of the elements, noKey for undefined.  An element goes to the first element with
\* its key, as long as that one is unmatched.
createKeyMappingResolver(before, after, noKey) ==
  LET index == FirstWithKey(after, noKey)
      Match(r, i) ==
        IF before[i] \in DOMAIN index /\ index[before[i]] \in r.added
        THEN Pairing(r, i, index[before[i]]) ELSE r
  IN  FoldLeft(Match, Unmatched(DOMAIN before, DOMAIN after), Indexes(before))

objectMappingResolver(before, after) ==
  LET b == ElementsOf(before)  a == ElementsOf(after)
  IN  MapKeysResult(a \ b, b \ a, [k \in b \cap a |-> k])

=============================================================================
