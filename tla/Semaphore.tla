------------------------------ MODULE Semaphore ------------------------------
(***************************************************************************)
(* The counting semaphore of the Linux kernel (<linux/semaphore.h>), on    *)
(* which every blocking driver of this repository is built.  It is not     *)
(* part of the repository: it is modelled from the calls the drivers make  *)
(* (sema_init, down, down_interruptible, up).                              *)
(*                                                                         *)
(* A semaphore is a record of a count and the FIFO queue of its waiters.   *)
(* up() hands the unit straight to the first waiter, so a process that     *)
(* called down() owns its unit as soon as it is no longer in the queue:    *)
(* the caller moves its program counter past the call at once, and every   *)
(* action of the code after the call is guarded by Granted.                *)
(* down_interruptible() returns -EINTR only while the caller is queued.    *)
(***************************************************************************)
EXTENDS Integers, Sequences

\* sema_init(&sem, n)
NewSemaphore(n) == [count |-> n, queue |-> <<>>]

\* The processes blocked inside down() or down_interruptible().
Waiting(sem) == {sem.queue[i] : i \in 1..Len(sem.queue)}

\* p has been given the unit it asked for: its call returned 0.
Granted(sem, p) == p \notin Waiting(sem)

\* p calls down() or down_interruptible(): it takes a unit or joins the queue.
Down(sem, p) ==
    IF sem.count > 0
    THEN [sem EXCEPT !.count = @ - 1]
    ELSE [sem EXCEPT !.queue = Append(@, p)]

\* Mutant of Up: the unit is put back without being handed to a waiter.
UpUnseen(sem) == [sem EXCEPT !.count = @ + 1]

\* up(): the unit goes to the first waiter if there is one.
Up(sem) ==
    IF sem.queue = <<>>
    THEN [sem EXCEPT !.count = @ + 1]
    ELSE [sem EXCEPT !.queue = Tail(@)]

\* The place of the waiting process p in the queue.
Place(sem, p) == CHOOSE i \in 1..Len(sem.queue) : sem.queue[i] = p

\* A signal takes the waiting process p out of the queue: -EINTR.
Cancel(sem, p) ==
    LET i == Place(sem, p)
        q == sem.queue
    IN  [sem EXCEPT !.queue = SubSeq(q, 1, i - 1) \o SubSeq(q, i + 1, Len(q))]

\* A well-formed semaphore: nobody waits twice, and nobody waits while units
\* are left.
IsSemaphore(sem, P) ==
    /\ sem \in [count : Nat, queue : Seq(P)]
    /\ \A i, j \in 1..Len(sem.queue) : sem.queue[i] = sem.queue[j] => i = j
    /\ sem.count > 0 => sem.queue = <<>>
=============================================================================
