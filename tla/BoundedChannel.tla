---------------------------- MODULE BoundedChannel ----------------------------
(***************************************************************************)
(* What an entry of /proc/multipc promises to its users: a first-in        *)
(* first-out channel of bounded capacity.  A process offers a block, which *)
(* either enters the channel whole or is withdrawn; a process takes the    *)
(* oldest block, which leaves the channel for that process alone.  Nothing *)
(* is said of locks, semaphores, or how the ring is laid out.              *)
(***************************************************************************)
EXTENDS Integers, Sequences

CONSTANTS
    Proc,       \* the processes that use the channel
    Block,      \* the blocks of memory that carry the data
    NoBlock,    \* no block at all
    Capacity    \* the number of blocks the channel holds

VARIABLES
    queue,      \* the blocks in the channel, oldest first
    offer,      \* offer[p]: the block p is trying to insert
    taken       \* taken[p]: the block p has extracted and not yet freed

vars == <<queue, offer, taken>>

\* The blocks somebody holds or that are in the channel.
InUse == {queue[i] : i \in 1..Len(queue)} \cup {offer[p] : p \in Proc}
                                          \cup {taken[p] : p \in Proc}

Idle(p) == offer[p] = NoBlock /\ taken[p] = NoBlock

Init ==
    /\ queue = <<>>
    /\ offer = [p \in Proc |-> NoBlock]
    /\ taken = [p \in Proc |-> NoBlock]

\* p starts to write, with a block nobody else has.
Offer(p, b) ==
    /\ Idle(p)
    /\ b \notin InUse
    /\ offer' = [offer EXCEPT ![p] = b]
    /\ UNCHANGED <<queue, taken>>

\* p's write is interrupted: the block never enters the channel.
Withdraw(p) ==
    /\ offer[p] # NoBlock
    /\ offer' = [offer EXCEPT ![p] = NoBlock]
    /\ UNCHANGED <<queue, taken>>

Put(p) ==
    /\ offer[p] # NoBlock
    /\ Len(queue) < Capacity
    /\ queue' = Append(queue, offer[p])
    /\ offer' = [offer EXCEPT ![p] = NoBlock]
    /\ UNCHANGED taken

Take(p) ==
    /\ Idle(p)
    /\ queue # <<>>
    /\ taken' = [taken EXCEPT ![p] = Head(queue)]
    /\ queue' = Tail(queue)
    /\ UNCHANGED offer

\* p is done with the block it extracted.
Drop(p) ==
    /\ taken[p] # NoBlock
    /\ taken' = [taken EXCEPT ![p] = NoBlock]
    /\ UNCHANGED <<queue, offer>>

Next ==
    \E p \in Proc :
        \/ \E b \in Block : Offer(p, b)
        \/ Withdraw(p)
        \/ Put(p)
        \/ Take(p)
        \/ Drop(p)

Spec == Init /\ [][Next]_vars
=============================================================================
