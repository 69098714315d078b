------------------------------- MODULE Lists -------------------------------
(***************************************************************************)
(* The part of a list that satisfies a condition, in the order of the      *)
(* list.  It is what SelectSeq is, written as a recursive function and     *)
(* with a set for the condition, so that proofs can use its definition.    *)
(***************************************************************************)
EXTENDS Integers, Sequences

\* The elements of the list s that are in S.
Keep(s, S) ==
    LET kept[i \in 0..Len(s)] ==
            IF i = 0 THEN <<>>
            ELSE IF s[i] \in S THEN Append(kept[i - 1], s[i]) ELSE kept[i - 1]
    IN  kept[Len(s)]
=============================================================================
