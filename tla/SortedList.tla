------------------------------- MODULE SortedList -------------------------------
(***************************************************************************)
(* What attos::tree promises (attos/tree.h): its elements in the order of  *)
(* their keys, equal ones in the order of insertion, an iterator that goes *)
(* through them whatever is inserted or removed meanwhile, and searches.   *)
(***************************************************************************)
EXTENDS Integers, SequencesExt

CONSTANTS Nodes, Key, Bounds, Null

VARIABLES
    list,   \* the elements
    at      \* the element an iterator is at, Null for end()

FirstIn(s) == IF s = <<>> THEN Null ELSE Head(s)
After(n) == LET i == SelectInSeq(list, LAMBDA x : x = n) IN FirstIn(SubSeq(list, i + 1, Len(list)))

Init == list = <<>> /\ at = Null

Insert(n) ==
    /\ n \notin ToSet(list)
    /\ list' = SelectSeq(list, LAMBDA x : Key[x] <= Key[n]) \o <<n>> \o SelectSeq(list, LAMBDA x : Key[x] > Key[n])
    /\ UNCHANGED at

\* An iterator at the element is given up.
Delete(n) ==
    /\ n \in ToSet(list)
    /\ list' = SelectSeq(list, LAMBDA x : x # n)
    /\ at' = IF at = n THEN Null ELSE at

Begin == at' = FirstIn(list) /\ UNCHANGED list
Advance == at # Null /\ at' = After(at) /\ UNCHANGED list
LowerBound(k) == at' = FirstIn(SelectSeq(list, LAMBDA x : Key[x] >= k)) /\ UNCHANGED list
UpperBound(k) == at' = FirstIn(SelectSeq(list, LAMBDA x : Key[x] > k)) /\ UNCHANGED list

Next ==
    \/ \E n \in Nodes : Insert(n) \/ Delete(n)
    \/ Begin \/ Advance
    \/ \E k \in Bounds : LowerBound(k) \/ UpperBound(k)

Spec == Init /\ [][Next]_<<list, at>>
================================================================================
