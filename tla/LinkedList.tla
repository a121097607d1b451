------------------------------ MODULE LinkedList ------------------------------
(***************************************************************************)
(* What list_for_each_entry (<linux/list.h>) goes through: the nodes that  *)
(* are reached from a head by following one of the two links, up to the    *)
(* head.  The list is not part of the repository; it is modelled from how  *)
(* the modules go through it.                                              *)
(***************************************************************************)
EXTENDS Naturals, FiniteSets

\* The k-th node after the head, or where the list has ended before.  The links
\* are a function, S is the set of all nodes.
Walk(links, head, S) ==
    LET nth[k \in 0..(Cardinality(S) + 1)] ==
            IF k = 0 THEN head
            ELSE IF k = 1 \/ nth[k - 1] \in S THEN links[nth[k - 1]]
            ELSE nth[k - 1]
    IN  nth

\* The sequence of the nodes of the list.
Nodes(links, head, S) ==
    LET nth == Walk(links, head, S)
    IN  [k \in 1..Cardinality({j \in DOMAIN nth : nth[j] \in S}) |-> nth[k]]
=============================================================================
