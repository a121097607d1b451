----------------------------- MODULE MultipcAdmin -----------------------------
(***************************************************************************)
(* The administration of multipc.c: admin_write creates and deletes the    *)
(* entries of /proc/multipc while their users are inside test_read or      *)
(* test_write.  What those do with an entry is the business of             *)
(* MultipcEntry; here a user is only in an entry, for as long as it likes. *)
(*                                                                         *)
(* procfs is not part of the repository.  remove_proc_entry takes the name *)
(* out of the directory, lets no call enter any more, and waits for those  *)
(* that are inside; proc_create_data fails if the name is taken.           *)
(*                                                                         *)
(* An administrator at "limit" or "uncount" has called down_interruptible  *)
(* on mtx_num_process.                                                     *)
(*                                                                         *)
(* The list is read and written without any lock.  It is modelled at the   *)
(* grain of its links: list_add and list_del write them one after the      *)
(* other, and two such changes that overlap can cut an entry out of the    *)
(* list, or leave a link to one that is freed.  The history variable       *)
(* overlapped tells that two did.  Bound: no deletion begins after that,   *)
(* since its search may follow a link to freed memory; creations, and what *)
(* was in progress, go on with the links as they are.  list_add reads the  *)
(* first entry and writes the link back of it in one step.  The history    *)
(* variable entries is the list as its changes should leave it.            *)
(*                                                                         *)
(* Deleters tells who may delete.  The search of a deletion is one step:   *)
(* it reads the link of the head once, and the links behind it are changed *)
(* by deletions only.                                                      *)
(***************************************************************************)
EXTENDS Semaphore, LinkedList

CONSTANTS
    Name,           \* names of entries
    TestName,       \* the entry the module creates when it is loaded
    Node,           \* addresses of struct list_item
    NoNode,         \* and what list_del leaves in the links of an entry
    proc_list,      \* &proc_list, the head of the list
    Admin,          \* processes that write to /proc/multipc/admin
    Deleters,       \* those of them that delete entries
    User,           \* processes that use the entries
    max_entries,    \* parameter of the module
    UintMod,        \* where an unsigned int wraps (2^32; smaller in the runs)
    Signals,        \* TRUE if blocked processes may receive signals
    MaxMissing      \* bound on the deletes that name no entry, net of leaks

ASSUME AdminAssumption ==
    /\ TestName \in Name /\ {"free", "raw"} \cap Name = {}
    /\ NoNode \notin Node /\ proc_list \notin Node \cup {NoNode}
    /\ Deleters \subseteq Admin
    /\ max_entries \in Nat \ {0} /\ UintMod \in Nat /\ UintMod > max_entries + 1
    /\ Signals \in BOOLEAN /\ MaxMissing \in Nat
    /\ IsFiniteSet(Name) /\ IsFiniteSet(Admin) /\ IsFiniteSet(Node)
    /\ Cardinality(Node) >= Cardinality(Name) + Cardinality(Admin)

VARIABLES
    pc, name, node,     \* each administrator's place, name given, entry at hand
    mem,                \* mem[n]: "free", "raw" (fields not set yet) or the
                        \* field name of an entry that is set up
    dir,                \* the directory /proc/multipc
    next, prev,         \* the links of the entries and of the head
    before, after,      \* the neighbours as list_add or list_del has read them
    entries,            \* history: the list as it should be, newest first
    overlapped,         \* history: two changes of the list have overlapped
    inside,             \* inside[u]: the entry u's running handler works on
    num_of_process, mtx_num_process,
    drift               \* history: what commands have wrongly left in the number

heap == <<mem, dir>>
links == <<next, prev, before, after, entries, overlapped>>
num == <<num_of_process, mtx_num_process, drift>>
vars == <<pc, name, node, heap, links, inside, num>>

Goto(a, from, to) == pc[a] = from /\ pc' = [pc EXCEPT ![a] = to]

\* a's call ends, and its local variables with it.
Return(a, from) ==
    /\ Goto(a, from, "idle")
    /\ name' = [name EXCEPT ![a] = TestName]
    /\ node' = [node EXCEPT ![a] = NoNode]

\* a calls down_interruptible(&mtx_num_process) and will go on at label to.
AskNum(a, from, to) ==
    /\ Goto(a, from, to)
    /\ mtx_num_process' = Down(mtx_num_process, a)
    /\ UNCHANGED <<num_of_process, drift>>

-----------------------------------------------------------------------------
(* new <name> <type>                                                       *)

BeginNew(a) ==
    /\ AskNum(a, "idle", "limit")
    /\ \E s \in Name : name' = [name EXCEPT ![a] = s]
    /\ UNCHANGED <<node, heap, links, inside>>

\* The test on the number of entries, and its increment.
CheckLimit(a) ==
    /\ Granted(mtx_num_process, a)
    /\ \/ /\ num_of_process > max_entries
          /\ Return(a, "limit")
          /\ UNCHANGED num_of_process
       \/ /\ num_of_process <= max_entries
          /\ Goto(a, "limit", "create")
          /\ num_of_process' = (num_of_process + 1) % UintMod
          /\ UNCHANGED <<name, node>>
    /\ mtx_num_process' = Up(mtx_num_process)
    /\ UNCHANGED <<heap, links, inside, drift>>

\* proc_create_data fails, because the name is taken or for want of memory.
CreateFails(a) ==
    /\ Goto(a, "create", "undo")
    /\ UNCHANGED <<name, node, heap, links, inside, num>>

\* vmalloc and proc_create_data: users can reach the entry from now on.
Publish(a) ==
    /\ dir[name[a]] = NoNode
    /\ Goto(a, "create", "setup")
    /\ \E n \in Node :
          /\ mem[n] = "free"
          /\ mem' = [mem EXCEPT ![n] = "raw"]
          /\ dir' = [dir EXCEPT ![name[a]] = n]
          /\ node' = [node EXCEPT ![a] = n]
    /\ UNCHANGED <<name, links, inside, num>>

\* kfifo_alloc, sema_init and the other fields.
SetUp(a) ==
    /\ Goto(a, "setup", "link")
    /\ mem' = [mem EXCEPT ![node[a]] = name[a]]
    /\ UNCHANGED <<name, node, dir, links, inside, num>>

\* A change of the list begins beside those in progress.
Changing == {a \in Admin : pc[a] \in {"fields", "head", "unlink"}}
BeginChange == overlapped' = (overlapped \/ Changing # {})

\* list_add: the link back of the first entry, the links of the new one, and
\* last the link of the head, which makes it visible to a search.
LinkFirst(a) ==
    /\ Goto(a, "link", "fields")
    /\ BeginChange
    /\ before' = [before EXCEPT ![a] = proc_list]
    /\ after' = [after EXCEPT ![a] = next[proc_list]]
    /\ prev' = [prev EXCEPT ![next[proc_list]] = node[a]]
    /\ UNCHANGED <<name, node, heap, next, entries, inside, num>>

LinkFields(a) ==
    /\ Goto(a, "fields", "head")
    /\ next' = [next EXCEPT ![node[a]] = after[a]]
    /\ prev' = [prev EXCEPT ![node[a]] = before[a]]
    /\ UNCHANGED <<name, node, heap, before, after, entries, overlapped, inside, num>>

LinkHead(a) ==
    /\ Return(a, "head")
    /\ next' = [next EXCEPT ![before[a]] = node[a]]
    /\ before' = [before EXCEPT ![a] = NoNode]
    /\ after' = [after EXCEPT ![a] = NoNode]
    /\ entries' = <<node[a]>> \o entries
    /\ UNCHANGED <<heap, prev, overlapped, inside, num>>

\* Mutant of Vacated: the call inside the entry is not waited for.
NotAwaited(n) == TRUE

\* remove_proc_entry returns when no call is inside the entry any more.
Vacated(n) == \A u \in User : inside[u] # n

\* Mutant of SetUpFails: the name stays in the directory.
SetUpFailsPublished(a) ==
    /\ Goto(a, "setup", "discard")
    /\ UNCHANGED <<name, node, heap, links, inside, num>>

\* kfifo_alloc failed: remove_proc_entry, then vfree.
SetUpFails(a) ==
    /\ Goto(a, "setup", "discard")
    /\ dir' = [dir EXCEPT ![name[a]] = NoNode]
    /\ UNCHANGED <<name, node, mem, links, inside, num>>

Discard(a) ==
    /\ Vacated(node[a])
    /\ Goto(a, "discard", "undo")
    /\ mem' = [mem EXCEPT ![node[a]] = "free"]
    /\ UNCHANGED <<name, node, dir, links, inside, num>>

-----------------------------------------------------------------------------
(* delete <name>                                                           *)

\* The list as it is linked, and the places in it of the entries named s.
Listing == Nodes(next, proc_list, Node)
Entries(s) == {i \in DOMAIN Listing : mem[Listing[i]] = s}

\* The first entry of the list with that name.  delete_proc returns 0 if there
\* is none, and admin_write counts a deletion all the same.
BeginDelete(a) ==
    /\ a \in Deleters /\ ~overlapped
    /\ \E s \in Name :
          \/ /\ Entries(s) # {}
             /\ node' = [node EXCEPT ![a] = Listing[
                   CHOOSE i \in Entries(s) : \A j \in Entries(s) : i <= j]]
             /\ Goto(a, "idle", "remove")
             /\ UNCHANGED drift
          \/ /\ Entries(s) = {} /\ drift > -MaxMissing
             /\ Goto(a, "idle", "undo")
             /\ drift' = drift - 1
             /\ UNCHANGED node
    /\ UNCHANGED <<name, heap, links, inside, num_of_process, mtx_num_process>>

\* remove_proc_entry, up to the point where it waits.
Unpublish(a) ==
    /\ Goto(a, "remove", "rundown")
    /\ dir' = [dir EXCEPT ![mem[node[a]]] = NoNode]
    /\ UNCHANGED <<name, node, mem, links, inside, num>>

\* Mutant of UnlinkBack: the next entry keeps its link to the deleted one.
UnlinkForwardOnly(a) ==
    /\ Vacated(node[a])
    /\ Goto(a, "rundown", "unlink")
    /\ BeginChange
    /\ before' = [before EXCEPT ![a] = prev[node[a]]]
    /\ after' = [after EXCEPT ![a] = next[node[a]]]
    /\ UNCHANGED <<name, node, heap, next, prev, entries, inside, num>>

\* cleanup_buffer, kfifo_free, and the link back of list_del.
UnlinkBack(a) ==
    /\ Vacated(node[a])
    /\ Goto(a, "rundown", "unlink")
    /\ BeginChange
    /\ before' = [before EXCEPT ![a] = prev[node[a]]]
    /\ after' = [after EXCEPT ![a] = next[node[a]]]
    /\ prev' = [prev EXCEPT ![next[node[a]]] = prev[node[a]]]
    /\ UNCHANGED <<name, node, heap, next, entries, inside, num>>

\* The sequence without the entry n of it.
Without(s, n) ==
    LET i == CHOOSE k \in 1..Len(s) : s[k] = n
    IN  SubSeq(s, 1, i - 1) \o SubSeq(s, i + 1, Len(s))

\* The link forward of list_del, which poisons those of the entry, and vfree.
FreeEntry(a) ==
    /\ Goto(a, "unlink", "undo")
    /\ next' = [next EXCEPT ![before[a]] = after[a], ![node[a]] = NoNode]
    /\ prev' = [prev EXCEPT ![node[a]] = NoNode]
    /\ mem' = [mem EXCEPT ![node[a]] = "free"]
    /\ before' = [before EXCEPT ![a] = NoNode]
    /\ after' = [after EXCEPT ![a] = NoNode]
    /\ entries' = Without(entries, node[a])
    /\ UNCHANGED <<name, node, dir, overlapped, inside, num>>

-----------------------------------------------------------------------------
(* num_of_process after a deletion, or after a creation that failed        *)

AskUncount(a) ==
    /\ AskNum(a, "undo", "uncount")
    /\ UNCHANGED <<name, node, heap, links, inside>>

\* Mutant of Uncount: the number is decremented twice.
UncountTwice(a) ==
    /\ Granted(mtx_num_process, a)
    /\ Return(a, "uncount")
    /\ num_of_process' = (num_of_process + UintMod - 2) % UintMod
    /\ mtx_num_process' = Up(mtx_num_process)
    /\ UNCHANGED <<heap, links, inside, drift>>

Uncount(a) ==
    /\ Granted(mtx_num_process, a)
    /\ Return(a, "uncount")
    /\ num_of_process' = (num_of_process + UintMod - 1) % UintMod
    /\ mtx_num_process' = Up(mtx_num_process)
    /\ UNCHANGED <<heap, links, inside, drift>>

\* -EINTR, before the limit is tested or with the number left as it is.
InterruptNum(a) ==
    /\ Signals
    /\ ~Granted(mtx_num_process, a)
    /\ \/ Return(a, "limit") /\ UNCHANGED drift
       \/ Return(a, "uncount") /\ drift' = drift + 1
    /\ mtx_num_process' = Cancel(mtx_num_process, a)
    /\ UNCHANGED <<heap, links, inside, num_of_process>>

-----------------------------------------------------------------------------
(* The users                                                               *)

EnterEntry(u) ==
    /\ inside[u] = NoNode
    /\ \E s \in Name :
          dir[s] # NoNode /\ inside' = [inside EXCEPT ![u] = dir[s]]
    /\ UNCHANGED <<pc, name, node, heap, links, num>>

LeaveEntry(u) ==
    /\ inside[u] # NoNode
    /\ inside' = [inside EXCEPT ![u] = NoNode]
    /\ UNCHANGED <<pc, name, node, heap, links, num>>

-----------------------------------------------------------------------------
\* init_prodcons_module has created the entry TestName.
Init ==
    /\ pc = [a \in Admin |-> "idle"]
    /\ name = [a \in Admin |-> TestName]
    /\ node = [a \in Admin |-> NoNode]
    /\ \E n \in Node :
          /\ mem = [m \in Node |-> IF m = n THEN TestName ELSE "free"]
          /\ dir = [s \in Name |-> IF s = TestName THEN n ELSE NoNode]
          /\ next = [m \in Node \cup {proc_list} |->
                IF m = n THEN proc_list ELSE IF m = proc_list THEN n ELSE NoNode]
          /\ prev = next
          /\ entries = <<n>>
    /\ inside = [u \in User |-> NoNode]
    /\ before = [a \in Admin |-> NoNode]
    /\ after = [a \in Admin |-> NoNode]
    /\ overlapped = FALSE
    /\ num_of_process = 2
    /\ mtx_num_process = NewSemaphore(1)
    /\ drift = 0

AdminStep(a) ==
    \/ BeginNew(a)    \/ CheckLimit(a)  \/ CreateFails(a)  \/ Publish(a)
    \/ SetUp(a)       \/ LinkFirst(a)   \/ LinkFields(a)   \/ LinkHead(a)
    \/ SetUpFails(a)  \/ Discard(a)     \/ BeginDelete(a)  \/ Unpublish(a)
    \/ UnlinkBack(a)  \/ FreeEntry(a)   \/ AskUncount(a)   \/ Uncount(a)
    \/ InterruptNum(a)

Next ==
    \/ \E a \in Admin : AdminStep(a)
    \/ \E u \in User : EnterEntry(u) \/ LeaveEntry(u)

Spec == Init /\ [][Next]_vars
-----------------------------------------------------------------------------
(* Properties                                                              *)

Places == {"idle", "limit", "create", "setup", "link", "fields", "head",
           "discard", "remove", "rundown", "unlink", "undo", "uncount"}

(* Every variable keeps its type; the list names allocated memory only. *)
TypeOK ==
    /\ pc \in [Admin -> Places]
    /\ name \in [Admin -> Name]
    /\ node \in [Admin -> Node \cup {NoNode}]
    /\ mem \in [Node -> {"free", "raw"} \cup Name]
    /\ dir \in [Name -> Node \cup {NoNode}]
    /\ next \in [Node \cup {proc_list} -> Node \cup {proc_list, NoNode}]
    /\ prev \in [Node \cup {proc_list} -> Node \cup {proc_list, NoNode}]
    /\ before \in [Admin -> Node \cup {proc_list, NoNode}]
    /\ after \in [Admin -> Node \cup {proc_list, NoNode}]
    /\ entries \in Seq({n \in Node : mem[n] \in Name})
    /\ overlapped \in BOOLEAN
    /\ inside \in [User -> Node \cup {NoNode}]
    /\ num_of_process \in 0..(UintMod - 1)
    /\ drift \in Int
    /\ IsSemaphore(mtx_num_process, Admin)

Published == {s \in Name : dir[s] # NoNode}

(* The memory of an entry is not released while a user is inside one of its
   handlers, or could still enter one: remove_proc_entry comes first, and
   waits, on the path of a deletion and on that of a failed creation. *)
NoUseAfterFree ==
    /\ \A u \in User : inside[u] # NoNode => mem[inside[u]] # "free"
    /\ \A s \in Published : mem[dir[s]] # "free"

(* The number of entries never exceeds max_entries ("Número maximo de
   entradas.", line 23), whatever signals interrupt the administrators. *)
WithinMaximum == Cardinality(Published) <= max_entries

(* The only way past max_entries is a delete that named no entry: each such
   delete buys one entry, and each number that an interrupted command failed
   to give back costs one.  Administrators who pass the test of the limit
   together, or whose creation fails, never exceed it. *)
LimitDriftsOnly == Cardinality(Published) <= max_entries - drift

Quiet == \A a \in Admin : pc[a] = "idle"

(* Between commands, the directory and the list hold the same entries, each
   under its own name, so that what exists can be deleted, and the list is the
   same in both directions: unless two changes of the list have overlapped,
   which nothing in admin_write prevents, the changes, failures and searches
   that run beside each other lose no entry. *)
DirectoryMatchesList ==
    Quiet /\ ~overlapped =>
        LET list == Listing
            ring == <<proc_list>> \o list \o <<proc_list>>
        IN  /\ Cardinality(Published) = Len(list)
            /\ \A i \in DOMAIN list : dir[mem[list[i]]] = list[i]
            /\ \A i \in 1..Len(list) + 1 : prev[ring[i + 1]] = ring[i]

(* Between commands, num_of_process is one more than the number of entries of
   the directory, but for the drift: every other failed or refused command undid
   exactly what it had counted, also beside changes that cut entries out of the
   list (the number is not read off it). *)
NumberMatchesDirectory ==
    Quiet => num_of_process
                = (Cardinality(Published) + 1 + drift + UintMod) % UintMod
=============================================================================
