------------------------------- MODULE Selection -------------------------------
(***************************************************************************)
(* What several lists of this repository do: go through a sequence and     *)
(* keep some of its elements.  It is SelectSeq, written as a recursive     *)
(* function on the positions so that it can be reasoned about.             *)
(***************************************************************************)
EXTENDS Naturals, Sequences

\* The elements of s that are in T, in their order.
Among(s, T) ==
    LET kept[n \in 0..Len(s)] ==
            IF n = 0 THEN <<>>
            ELSE IF s[n] \in T THEN Append(kept[n - 1], s[n]) ELSE kept[n - 1]
    IN  kept[Len(s)]
=============================================================================
