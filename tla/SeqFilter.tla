------------------------------ MODULE SeqFilter ------------------------------
(***************************************************************************)
(* A part of a sequence, in its order.  SelectSeq of Sequences says the    *)
(* same with an operator for the test; a set can be reasoned about.        *)
(***************************************************************************)
EXTENDS Integers, Sequences

\* The elements of seq that are in S.
Keeping(seq, S) ==
    LET kept[n \in 0..Len(seq)] ==
            IF n = 0 THEN <<>>
            ELSE IF seq[n] \in S THEN Append(kept[n - 1], seq[n]) ELSE kept[n - 1]
    IN  kept[Len(seq)]
=============================================================================
