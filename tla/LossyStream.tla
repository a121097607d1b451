------------------------------ MODULE LossyStream ------------------------------
(***************************************************************************)
(* What /proc/codetimer promises about the codes it generates: they queue  *)
(* up in the order of their generation, a reader takes some of the oldest, *)
(* and a code is read once or, when the buffer, the list or a call fails   *)
(* it, not at all.  CodeTimer implements one such stream, CodeTimerOpt one  *)
(* for the codes of even length and one for the others.                    *)
(***************************************************************************)
EXTENDS Naturals, Sequences

CONSTANTS Item, Reader

VARIABLES
    queue,  \* codes generated and not read, oldest first
    got     \* what each reader has taken and not yet returned

vars == <<queue, got>>

Init ==
    /\ queue = <<>>
    /\ got = [r \in Reader |-> <<>>]

Put(c) == queue' = Append(queue, c) /\ UNCHANGED got

Take(r) ==
    /\ got[r] = <<>>
    /\ \E n \in 1..Len(queue) :
          /\ got' = [got EXCEPT ![r] = SubSeq(queue, 1, n)]
          /\ queue' = SubSeq(queue, n + 1, Len(queue))

Return(r) == got' = [got EXCEPT ![r] = <<>>] /\ UNCHANGED queue

\* The oldest codes, the newest or both are thrown away.
Lose ==
    /\ \E i \in 1..(Len(queue) + 1), j \in 0..Len(queue) : queue' = SubSeq(queue, i, j)
    /\ UNCHANGED got

Next ==
    \/ \E c \in Item : Put(c)
    \/ \E r \in Reader : Take(r) \/ Return(r)
    \/ Lose

Spec == Init /\ [][Next]_vars
=============================================================================
