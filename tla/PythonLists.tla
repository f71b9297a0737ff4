---------------------------- MODULE PythonLists ----------------------------
(***************************************************************************)
(* Selections from lists and their order, as Python's comprehensions and   *)
(* its sorted make them.  Pure operators.  (SortSeq of TLC's module and    *)
(* what SequencesExt builds on it serve total orders only.)                *)
(***************************************************************************)
EXTENDS Integers, FiniteSets, SequencesExt

\* A finite set as a sequence in the order Less: so many elements come before.
Listed(S, Less(_, _)) ==
  [k \in 1..Cardinality(S) |->
    CHOOSE x \in S : Cardinality({y \in S : Less(y, x)}) = k - 1]

\* The elements of s at the positions of a set, in order.
At(s, positions) ==
  LET order == Listed(positions, <) IN [k \in DOMAIN order |-> s[order[k]]]

\* sorted: elements of which none is less keep their order.
Sorted(s, Less(_, _)) ==
  LET before(i, j) == Less(s[i], s[j]) \/ (i < j /\ ~Less(s[j], s[i]))
      order == Listed(DOMAIN s, before)
  IN  [k \in DOMAIN s |-> s[order[k]]]

\* Order of sequences whose elements are ordered by Less: that of Python's str
\* and tuple.
LexLess(s, t, Less(_, _)) ==
  \E i \in 1..Len(t) :
    /\ \A j \in 1..(i - 1) : j \in DOMAIN s /\ s[j] = t[j]
    /\ i > Len(s) \/ Less(s[i], t[i])

StringLess(s, t) == LexLess(s, t, <)
=============================================================================
