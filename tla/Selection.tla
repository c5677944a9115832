----------------------------- MODULE Selection -----------------------------
(***************************************************************************)
(* The elements of a sequence that are in a set, in their order: a loop    *)
(* over a list with a condition in it.                                     *)
(***************************************************************************)
EXTENDS Integers, Sequences, SequencesExt

\* SelectSeq with a set for the test, and as a function that recurs over the
\* positions: its properties can be proved.
Kept(s, S) ==
  LET kept[i \in 0..Len(s)] ==
        IF i = 0 THEN <<>>
        ELSE IF s[i] \in S THEN Append(kept[i - 1], s[i])
        ELSE kept[i - 1]
  IN kept[Len(s)]

\* A sequence of numbers in their order, none of them twice.
Ascending(s) == IsSorted(s, <)
=============================================================================
