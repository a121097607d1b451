------------------------------ MODULE AtomicList ------------------------------
(***************************************************************************)
(* What /proc/modlist promises its users: a list of numbers on which each  *)
(* command acts at once.                                                   *)
(***************************************************************************)
EXTENDS Naturals, Sequences, Functions

CONSTANT Number     \* the numbers that commands may name

VARIABLE list

Add == \E v \in Number : list' = Append(list, v)

\* t is what s leaves at the positions that f names one after the other.
Picks(t, s, f) ==
    /\ \A i, j \in DOMAIN f : i < j => f[i] < f[j]
    /\ t = [i \in DOMAIN f |-> s[f[i]]]

\* t is s without its items equal to v, the others in their order.
IsWithout(t, s, v) ==
    \E f \in [1..Len(t) -> DOMAIN s] :
        Range(f) = {i \in DOMAIN s : s[i] # v} /\ Picks(t, s, f)

\* remove deletes every item that is equal to its number.
Remove == \E v \in Number : IsWithout(list', list, v)

Cleanup == list' = << >>

Init == list = << >>
Next == Add \/ Remove \/ Cleanup
Spec == Init /\ [][Next]_list
=============================================================================
