------------------------------ MODULE SeqFilter ------------------------------
(***************************************************************************)
(* The elements of a sequence that are in a set.  It is SelectSeq with the *)
(* test a set; the loops of the code that destroy, erase or visit some of  *)
(* the elements of a vector or list are stated with it.                    *)
(***************************************************************************)
EXTENDS Naturals, Sequences

Filter(s, S) ==
    LET kept[i \in Nat] ==
            IF i = 0 THEN <<>>
            ELSE IF s[i] \in S THEN Append(kept[i - 1], s[i]) ELSE kept[i - 1]
    IN  kept[Len(s)]
=============================================================================
