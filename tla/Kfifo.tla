-------------------------------- MODULE Kfifo --------------------------------
(***************************************************************************)
(* The kernel's circular buffer (<linux/kfifo.h>) as multipc.c uses it: a  *)
(* ring of max_size pointers.  It is not part of the repository.  kfifo_in *)
(* and kfifo_out take no lock and are not atomic: each first copies the    *)
(* item and then moves its index, so two unserialised callers of the same  *)
(* function can copy to, or from, the same slot.                           *)
(*                                                                         *)
(* The indices run freely and wrap at a multiple of the ring's size        *)
(* (2^32 bytes in the kernel, IndexWrap items here); a slot number is an   *)
(* index modulo the size.                                                  *)
(***************************************************************************)
EXTENDS Integers, Sequences

CONSTANTS
    max_size,   \* items the ring holds: the parameter max_size of multipc.c
    IndexWrap   \* where the free-running indices wrap (a named bound)

\* multipc.c:374 only accepts a positive max_size; that it is a power of two
\* makes the wrap of the indices a multiple of it.
ASSUME RingAssumption ==
    /\ max_size \in Nat \ {0}
    /\ IndexWrap \in Nat
    /\ IndexWrap > max_size
    /\ IndexWrap % max_size = 0

Index == 0..(IndexWrap - 1)
Slot(i) == i % max_size
NextIndex(i) == IF i = IndexWrap - 1 THEN 0 ELSE i + 1

\* kfifo_alloc
NewKfifo(empty) ==
    [in |-> 0, out |-> 0, data |-> [s \in 0..(max_size - 1) |-> empty]]

\* kfifo_len, in items: the distance from out to in.
Used(f) == IF f.in >= f.out THEN f.in - f.out ELSE f.in + IndexWrap - f.out

HasRoom(f)  == Used(f) < max_size
HasItem(f)  == Used(f) > 0

\* The two halves of kfifo_in.
CopyIn(f, item) == [f EXCEPT !.data[Slot(f.in)] = item]
AdvanceIn(f)    == [f EXCEPT !.in = NextIndex(@)]

\* The two halves of kfifo_out.
OldestItem(f) == f.data[Slot(f.out)]
AdvanceOut(f) == [f EXCEPT !.out = NextIndex(@)]

\* The items in the ring, oldest first.
Contents(f) == [i \in 1..Used(f) |-> f.data[Slot(f.out + i - 1)]]
=============================================================================
