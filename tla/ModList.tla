------------------------------- MODULE ModList -------------------------------
(***************************************************************************)
(* Práctica4/ParteA/modlist.c: a list of numbers behind /proc/modlist,     *)
(* under a read-write spin lock.  The list is modelled at the grain of its *)
(* links, so that what one command leaves for the others, in the middle of *)
(* a change or after it, is visible.                                       *)
(*                                                                         *)
(* A number that does not fit is refused, but the path that refuses it     *)
(* goes on to the end of add_number: it frees the node, releases the lock, *)
(* links the freed node into the list and releases the lock again, which   *)
(* may by then be another writer's.  The model follows that path as long   *)
(* as it makes sense: freed memory keeps its contents and can be allocated *)
(* again, and a process that follows a poisoned pointer, or fills its      *)
(* buffer past the end, stops for good where it is.  The history variable  *)
(* refused tells that the path was taken.                                  *)
(*                                                                         *)
(* Left out: the checks on what the user passes, and the offset.           *)
(***************************************************************************)
EXTENDS LinkedList, Sequences, Functions

CONSTANTS
    Proc,       \* processes that read or write the entry
    Number,     \* the numbers that commands may name
    Node,       \* addresses of struct list_item
    mylist,     \* &mylist, the head of the list
    Poison,     \* what list_del leaves in the links of a node
    All,        \* stands for the argument of cleanup
    PROCFS_MAX_SIZE

ASSUME ListAssumption ==
    /\ IsFiniteSet(Proc) /\ IsFiniteSet(Node)
    /\ mylist \notin Node /\ Poison \notin Node \cup {mylist}
    /\ Number \subseteq 0..99 /\ Number # {} /\ All \notin Number
    /\ PROCFS_MAX_SIZE \in Nat \ {0}

VARIABLES
    pc,         \* where each process stands
    arg,        \* the number it was given, or All
    node,       \* new_node, watch or cur_node
    after,      \* next, in a traversal that deletes; prev, in list_add_tail
    out,        \* what a reader has written into its buffer
    next, prev, data, \* the fields of the nodes, and the links of mylist
    used,       \* the nodes that are allocated
    rwl,        \* [writer, readers]: who holds rwl
    refused,    \* history: a number did not fit
    committed   \* history: the list when its last writer left it

links == <<next, prev, data, used>>
history == <<refused, committed>>
vars == <<pc, arg, node, after, out, links, rwl, history>>

Link == Node \cup {mylist}

Goto(p, from, to) == pc[p] = from /\ pc' = [pc EXCEPT ![p] = to]

\* A call begins.  Bound: none does once a number was refused; what was in
\* progress then goes on.
Begin(p, to) == ~refused /\ Goto(p, "idle", to)

-----------------------------------------------------------------------------
(* The lock.  write_unlock clears the writer's byte, whoever it belongs to. *)

WriteLock ==
    /\ ~rwl.writer /\ rwl.readers = 0
    /\ rwl' = [rwl EXCEPT !.writer = TRUE]
WriteUnlock == rwl' = [rwl EXCEPT !.writer = FALSE]
ReadLock == ~rwl.writer /\ rwl' = [rwl EXCEPT !.readers = @ + 1]
ReadUnlock == rwl' = [rwl EXCEPT !.readers = @ - 1]

-----------------------------------------------------------------------------
(* The list as it is linked                                                *)

\* The k-th node after the head, or where the list has ended before.
Nth == Walk(next, mylist, Node)

Ends == \E k \in 1..(Cardinality(Node) + 1) : Nth[k] = mylist
Listed == Nodes(next, mylist, Node)
Numbers == LET nodes == Listed IN [k \in DOMAIN nodes |-> data[nodes[k]]]

\* "%d\n": a digit and the end of the line, and a second digit for some.
Size(s) == 2 * Len(s) + Cardinality({k \in DOMAIN s : s[k] > 9})

-----------------------------------------------------------------------------
(* add                                                                     *)

\* vmalloc, before the lock.
BeginAdd(p) ==
    /\ Begin(p, "add")
    /\ \E v \in Number, n \in Node \ used :
          /\ used' = used \cup {n}
          /\ data' = [data EXCEPT ![n] = v]
          /\ node' = [node EXCEPT ![p] = n]
          /\ arg' = [arg EXCEPT ![p] = v]
    /\ UNCHANGED <<after, out, next, prev, rwl, history>>

\* Mutant of LockToAdd: write_lock is missing.
AddUnlocked(p) ==
    /\ Goto(p, "add", "measure")
    /\ UNCHANGED <<arg, node, after, out, links, rwl, history>>

LockToAdd(p) ==
    /\ Goto(p, "add", "measure")
    /\ WriteLock
    /\ UNCHANGED <<arg, node, after, out, links, history>>

\* Mutant of TooLong: the byte that ends the string is forgotten.
TooLongForText(v) == Size(Numbers) + Size(<<v>>) > PROCFS_MAX_SIZE

TooLong(v) == Size(Numbers) + Size(<<v>>) >= PROCFS_MAX_SIZE

Measure(p) ==
    /\ Goto(p, "measure", "link") /\ ~TooLong(arg[p])
    /\ UNCHANGED <<arg, node, after, out, links, rwl, history>>

\* vfree and write_unlock: the path goes on as if there had been room.
Refuse(p) ==
    /\ Goto(p, "measure", "link") /\ TooLong(arg[p])
    /\ used' = used \ {node[p]}
    /\ WriteUnlock
    /\ refused' = TRUE
    /\ UNCHANGED <<arg, node, after, out, next, prev, data, committed>>

\* list_add_tail: the head's link to its last node, the links of the new node,
\* and last the link that makes it visible to a traversal.
LinkHead(p) ==
    /\ Goto(p, "link", "linknew")
    /\ after' = [after EXCEPT ![p] = prev[mylist]]
    /\ prev' = [prev EXCEPT ![mylist] = node[p]]
    /\ UNCHANGED <<arg, node, out, next, data, used, rwl, history>>

LinkNew(p) ==
    /\ Goto(p, "linknew", "linklast")
    /\ next' = [next EXCEPT ![node[p]] = mylist]
    /\ prev' = [prev EXCEPT ![node[p]] = after[p]]
    /\ UNCHANGED <<arg, node, after, out, data, used, rwl, history>>

LinkLast(p) ==
    /\ Goto(p, "linklast", "unlock")
    /\ after[p] # Poison
    /\ next' = [next EXCEPT ![after[p]] = node[p]]
    /\ UNCHANGED <<arg, node, after, out, prev, data, used, rwl, history>>

-----------------------------------------------------------------------------
(* remove and cleanup: list_for_each_entry_safe with list_del and vfree    *)

\* The list is tested without the lock.
RemoveFromEmpty(p) ==
    /\ next[mylist] = mylist
    /\ pc[p] = "idle"
    /\ UNCHANGED vars

BeginRemove(p) ==
    /\ Begin(p, "remove")
    /\ \E v \in Number \cup {All} :
          /\ v = All \/ next[mylist] # mylist
          /\ arg' = [arg EXCEPT ![p] = v]
    /\ UNCHANGED <<node, after, out, links, rwl, history>>

\* A process that deletes stands at watch = w, and next is read at once.
Visit(p, w) ==
    /\ w # Poison
    /\ node' = [node EXCEPT ![p] = w]
    /\ after' = [after EXCEPT ![p] = IF w = mylist THEN mylist ELSE next[w]]

LockToRemove(p) ==
    /\ Goto(p, "remove", "walk")
    /\ WriteLock
    /\ Visit(p, next[mylist])
    /\ UNCHANGED <<arg, out, links, history>>

Matches(p) == arg[p] = All \/ data[node[p]] = arg[p]

Skip(p) ==
    /\ pc[p] = "walk" /\ node[p] # mylist /\ ~Matches(p)
    /\ Visit(p, after[p])
    /\ UNCHANGED <<pc, arg, out, links, rwl, history>>

EndWalk(p) ==
    /\ node[p] = mylist
    /\ Goto(p, "walk", "unlock")
    /\ UNCHANGED <<arg, node, after, out, links, rwl, history>>

\* Mutant of UnlinkBack: the next node keeps its link to the deleted one.
UnlinkForwardOnly(p) ==
    /\ Goto(p, "walk", "unlink")
    /\ node[p] # mylist /\ Matches(p)
    /\ UNCHANGED <<arg, node, after, out, links, rwl, history>>

UnlinkBack(p) ==
    /\ Goto(p, "walk", "unlink")
    /\ node[p] # mylist /\ Matches(p) /\ next[node[p]] # Poison
    /\ prev' = [prev EXCEPT ![next[node[p]]] = prev[node[p]]]
    /\ UNCHANGED <<arg, node, after, out, next, data, used, rwl, history>>

UnlinkForward(p) ==
    /\ Goto(p, "unlink", "free")
    /\ prev[node[p]] # Poison
    /\ next' = [next EXCEPT ![prev[node[p]]] = next[node[p]]]
    /\ UNCHANGED <<arg, node, after, out, prev, data, used, rwl, history>>

\* The deleted node is poisoned and freed, and the traversal goes on.
FreeNode(p) ==
    /\ Goto(p, "free", "walk")
    /\ next' = [next EXCEPT ![node[p]] = Poison]
    /\ prev' = [prev EXCEPT ![node[p]] = Poison]
    /\ used' = used \ {node[p]}
    /\ Visit(p, after[p])
    /\ UNCHANGED <<arg, out, data, rwl, history>>

\* write_unlock, and the command returns.
Unlock(p) ==
    /\ Goto(p, "unlock", "idle")
    /\ WriteUnlock
    /\ committed' = IF refused THEN committed ELSE Numbers
    /\ arg' = [arg EXCEPT ![p] = All]
    /\ node' = [node EXCEPT ![p] = mylist]
    /\ after' = [after EXCEPT ![p] = mylist]
    /\ UNCHANGED <<out, links, refused>>

-----------------------------------------------------------------------------
(* read                                                                    *)

\* Mutant of LockToRead: read_lock is missing.
ReadUnlocked(p) ==
    /\ Begin(p, "read")
    /\ rwl' = [rwl EXCEPT !.readers = @ + 1]
    /\ node' = [node EXCEPT ![p] = next[mylist]]
    /\ UNCHANGED <<arg, after, out, links, history>>

LockToRead(p) ==
    /\ Begin(p, "read")
    /\ ReadLock
    /\ node' = [node EXCEPT ![p] = next[mylist]]
    /\ UNCHANGED <<arg, after, out, links, history>>

\* sprintf ends what it writes with a null byte.
ReadItem(p) ==
    /\ pc[p] = "read" /\ node[p] \in Node
    /\ Size(out[p]) + Size(<<data[node[p]]>>) < PROCFS_MAX_SIZE
    /\ out' = [out EXCEPT ![p] = Append(@, data[node[p]])]
    /\ node' = [node EXCEPT ![p] = next[node[p]]]
    /\ UNCHANGED <<pc, arg, after, links, rwl, history>>

EndRead(p) ==
    /\ node[p] = mylist
    /\ Goto(p, "read", "idle")
    /\ ReadUnlock
    /\ out' = [out EXCEPT ![p] = << >>]
    /\ UNCHANGED <<arg, node, after, links, history>>

-----------------------------------------------------------------------------
Init ==
    /\ pc = [p \in Proc |-> "idle"]
    /\ arg = [p \in Proc |-> All]
    /\ node = [p \in Proc |-> mylist]
    /\ after = [p \in Proc |-> mylist]
    /\ out = [p \in Proc |-> << >>]
    /\ next = [n \in Link |-> IF n = mylist THEN mylist ELSE Poison]
    /\ prev = next
    /\ data = [n \in Node |-> CHOOSE v \in Number : TRUE]
    /\ used = {}
    /\ rwl = [writer |-> FALSE, readers |-> 0]
    /\ refused = FALSE
    /\ committed = << >>

Next ==
    \E p \in Proc :
        \/ BeginAdd(p)        \/ LockToAdd(p)    \/ Measure(p)   \/ Refuse(p)
        \/ LinkHead(p)        \/ LinkNew(p)      \/ LinkLast(p)
        \/ RemoveFromEmpty(p) \/ BeginRemove(p)  \/ LockToRemove(p)
        \/ Skip(p)            \/ EndWalk(p)      \/ UnlinkBack(p)
        \/ UnlinkForward(p)   \/ FreeNode(p)     \/ Unlock(p)
        \/ LockToRead(p)      \/ ReadItem(p)     \/ EndRead(p)

Spec == Init /\ [][Next]_vars
-----------------------------------------------------------------------------
(* Properties                                                              *)

(* Every variable keeps its type: until a number is refused, no process holds
   a poisoned pointer. *)
TypeOK ==
    /\ pc \in [Proc -> {"idle", "add", "measure", "link", "linknew", "linklast",
                        "remove", "walk", "unlink", "free", "unlock", "read"}]
    /\ arg \in [Proc -> Number \cup {All}]
    /\ node \in [Proc -> Link \cup {Poison}]
    /\ after \in [Proc -> Link \cup {Poison}]
    /\ \A p \in Proc : out[p] \in Seq(Number)
    /\ next \in [Link -> Link \cup {Poison}]
    /\ prev \in [Link -> Link \cup {Poison}]
    /\ data \in [Node -> Number]
    /\ used \subseteq Node
    /\ rwl \in [writer : BOOLEAN, readers : 0..Cardinality(Proc)]
    /\ refused \in BOOLEAN
    /\ committed \in Seq(Number)
    /\ refused \/ \A p \in Proc : Poison \notin {node[p], after[p]}

\* The new nodes of the adds that have not linked them yet.
AtHand == {node[p] : p \in {q \in Proc : pc[q] \in {"add", "measure", "link"}}}

(* Until a number is refused, whenever no writer is inside, the links close a
   ring from the head in both directions, and what is allocated is what the
   ring holds and what an add has at hand: each node unlinked was freed, once,
   and nothing freed can be reached. *)
ListSound ==
    ~refused /\ ~rwl.writer =>
        LET nodes == <<mylist>> \o Listed \o <<mylist>>
        IN  /\ Ends
            /\ \A k \in 1..(Len(nodes) - 1) : prev[nodes[k + 1]] = nodes[k]
            /\ Range(Listed) \cap AtHand = {}
            /\ used = Range(Listed) \cup AtHand

(* Until a number is refused, a reader sees one state of the list and no part
   of a change: when it reaches the end, what it has written is the list as the
   last writer left it. *)
ReadsWhole ==
    \A p \in Proc :
        ~refused /\ pc[p] = "read" /\ node[p] = mylist => out[p] = committed

(* Until a number is refused, the text of the list and its null byte fit in the
   buffer of PROCFS_MAX_SIZE bytes that read_list fills without a test. *)
BufferFits == ~refused => Size(committed) + 1 <= PROCFS_MAX_SIZE

\* With the list as its writers leave it, modlist is an atomic list.
Atomic == INSTANCE AtomicList WITH list <- committed

(* Each command takes effect at once, or not at all. *)
ImplementsList == Atomic!Spec
=============================================================================
