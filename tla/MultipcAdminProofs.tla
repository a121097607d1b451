-------------------------- MODULE MultipcAdminProofs --------------------------
(***************************************************************************)
(* Proofs about the administration of the entries, for any number of       *)
(* names, of administrators and of users, and any maximum of entries.      *)
(*                                                                         *)
(* An entry is always somebody's: while it is created it belongs to its    *)
(* creator, then to the list, and only the process that deletes it takes   *)
(* it out.  All the theorems rest on OneDeleter: two processes that delete *)
(* can find the same entry, and then none of this holds.  The first        *)
(* invariant, Inv, is about entries, the list as it should be.             *)
(*                                                                         *)
(* The list is read and written without a lock.  The second invariant,     *)
(* LinksInv, says how the links stand to entries as long as no two changes *)
(* of the list have overlapped: forward they are right at every moment,    *)
(* backward all but the one that the only change in progress is about.     *)
(* So the search of a deletion finds what entries holds.                   *)
(*                                                                         *)
(* The number of entries is kept by counting: a creation that has passed   *)
(* the limit and a deletion that has not been counted yet are in debt for  *)
(* one entry each, and num_of_process is entries plus the debts.           *)
(***************************************************************************)
EXTENDS MultipcAdmin, CommonLemmas

\* At most one process deletes entries.
OneDeleter == \A a, b \in Deleters : a = b

\* The administrators about to execute one of the statements L.
At(L) == {a \in Admin : pc[a] \in L}

\* The entries of the list.
Listed == Elements(entries)

\* The places where the entry of a deletion is still in the list.
Deleting == {"remove", "rundown", "unlink"}

\* The places where an entry that is not in the list belongs to its creator.
Creating == {"setup", "link", "fields", "head", "discard"}

\* Those where it is set up.
Linking == {"link", "fields", "head"}

\* The places where num_of_process counts an entry that is not in the list.
Owing == {"create", "undo", "uncount"} \cup Creating

Types ==
    /\ pc \in [Admin -> Places]
    /\ name \in [Admin -> Name]
    /\ node \in [Admin -> Node \cup {NoNode}]
    /\ mem \in [Node -> {"free", "raw"} \cup Name]
    /\ dir \in [Name -> Node \cup {NoNode}]
    /\ entries \in Seq(Node)
    /\ inside \in [User -> Node \cup {NoNode}]
    /\ num_of_process \in 0..(UintMod - 1)
    /\ drift \in Int

\* The process that creates an entry has it to itself.
Creators ==
    /\ \A a \in Admin : pc[a] \in Creating =>
          /\ node[a] \in Node /\ node[a] \notin Listed
          /\ mem[node[a]] = (IF pc[a] \in Linking THEN name[a] ELSE "raw")
          /\ IF pc[a] = "discard" THEN \A s \in Name : dir[s] # node[a]
                                  ELSE dir[name[a]] = node[a]
    /\ \A a, b \in Admin :
          pc[a] \in Creating /\ pc[b] \in Creating /\ node[a] = node[b] => a = b

\* The entry that is deleted stays in the list; it leaves the directory, and then
\* its users leave it.
Deletions ==
    \A a \in Admin : pc[a] \in Deleting =>
       /\ a \in Deleters /\ node[a] \in Listed
       /\ pc[a] \in {"rundown", "unlink"} => \A s \in Name : dir[s] # node[a]
       /\ pc[a] = "unlink" => Vacated(node[a])

\* Nothing is twice in the list, and what is in it is in the directory, unless
\* it is about to be freed.
ListKept ==
    /\ Distinct(entries)
    /\ \A n \in Listed :
          /\ mem[n] \in Name
          /\ \/ dir[mem[n]] = n
             \/ \E a \in Admin : pc[a] \in {"rundown", "unlink"} /\ node[a] = n

\* What is in the directory is in the list, unless it is about to be put there.
DirectoryKept ==
    \A s \in Published :
       \/ dir[s] \in Listed /\ mem[dir[s]] = s
       \/ \E a \in Admin :
             pc[a] \in {"setup"} \cup Linking /\ name[a] = s /\ node[a] = dir[s]

UsersKept == \A u \in User : inside[u] # NoNode => mem[inside[u]] # "free"

\* The inductive invariant about the entries.
Inv ==
    /\ Types
    /\ Creators
    /\ Deletions
    /\ ListKept
    /\ DirectoryKept
    /\ UsersKept

Cell == Node \cup {proc_list}

LinkTypes ==
    /\ next \in [Cell -> Cell \cup {NoNode}]
    /\ prev \in [Cell -> Cell \cup {NoNode}]
    /\ before \in [Admin -> Cell \cup {NoNode}]
    /\ after \in [Admin -> Cell \cup {NoNode}]
    /\ overlapped \in BOOLEAN

\* The k-th entry of the list, with the head before the first and after the last.
Pos(k) == Around(entries, proc_list, k)

\* The links back are right but for those to the places of K.
Backward(K) == \A k \in (0..Len(entries)) \ K : prev[Pos(k + 1)] = Pos(k)

\* a puts an entry first: the link back of the first one is already to it.
Adding(a) ==
    /\ pc[a] \in {"fields", "head"}
    /\ before[a] = proc_list /\ after[a] = Pos(1)
    /\ prev[Pos(1)] = node[a] /\ Backward({0})
    /\ pc[a] = "head" => next[node[a]] = Pos(1) /\ prev[node[a]] = proc_list

\* a takes out the i-th entry: the link back of the next one passes it by.
Removing(a, i) ==
    /\ pc[a] = "unlink" /\ node[a] = Pos(i)
    /\ before[a] = Pos(i - 1) /\ after[a] = Pos(i + 1)
    /\ prev[Pos(i + 1)] = Pos(i - 1) /\ Backward({i})

\* Nobody changes the list, or one process does.
Orderly ==
    /\ Follows(next, proc_list, entries)
    /\ \/ Changing = {} /\ Backward({})
       \/ \E a \in Admin :
             /\ Changing = {a}
             /\ Adding(a) \/ \E i \in 1..Len(entries) : Removing(a, i)

\* The inductive invariant about the links.
LinksInv ==
    /\ LinkTypes
    /\ overlapped \/ Orderly

\* What num_of_process would be if it did not wrap.
Count == Len(entries) + 1 + drift + Cardinality(At(Owing))

\* The inductive invariant about the number of entries.
NumberInv ==
    /\ num_of_process = Count % UintMod
    /\ Count <= max_entries + 1

\* One unit of mtx_num_process, and who may wait for it.
NumBalance ==
    Ledger(mtx_num_process, Admin,
           At({"limit", "uncount"}), At({"limit", "uncount"}), 1)

AllInv == Inv /\ LinksInv /\ NumberInv /\ NumBalance
-----------------------------------------------------------------------------
(* The list                                                                *)

(* Without leaves out the only place of an entry. *)
LEMMA WithoutSkips ==
    ASSUME entries \in Seq(Node), Distinct(entries), NEW i \in 1..Len(entries)
    PROVE  /\ Without(entries, entries[i]) \in Seq(Node)
           /\ Skips(Without(entries, entries[i]), entries, i)
<1> DEFINE n == entries[i]
           k == CHOOSE j \in 1..Len(entries) : entries[j] = n
<1>1. k \in 1..Len(entries) /\ entries[k] = n
  OBVIOUS
<1>2. k = i
  BY <1>1 DEF Distinct
<1>3. Without(entries, n) = SubSeq(entries, 1, k - 1)
                               \o SubSeq(entries, k + 1, Len(entries))
  BY DEF Without
<1> HIDE DEF k
<1> QED BY <1>2, <1>3, AroundPosition

(* list_del takes out one entry. *)
LEMMA UnlinkEffect ==
    ASSUME entries \in Seq(Node), Distinct(entries), NEW n \in Listed
    PROVE  LET r == Without(entries, n)
           IN  /\ r \in Seq(Node) /\ Len(r) = Len(entries) - 1
               /\ Distinct(r) /\ Elements(r) = Listed \ {n}
<1>1. PICK k \in 1..Len(entries) : entries[k] = n
  BY DEF Listed, Elements
<1>2. Without(entries, n) \in Seq(Node) /\ Skips(Without(entries, n), entries, k)
  BY <1>1, WithoutSkips
<1>3. /\ Distinct(Without(entries, n))
      /\ Elements(Without(entries, n)) = Listed \ {n}
  BY <1>1, <1>2, TakenOut DEF Listed
<1> QED BY <1>2, <1>3 DEF Skips

-----------------------------------------------------------------------------
(* The links                                                               *)

(* The places of a list are cells, and two of them are never the same cell but
   for the two ends. *)
LEMMA PositionsApart ==
    ASSUME entries \in Seq(Node), Distinct(entries)
    PROVE  /\ Len(entries) \in Nat
           /\ \A k \in Int : Pos(k) \in Cell
           /\ \A i, j \in 0..Len(entries) : Pos(i) = Pos(j) => i = j
           /\ \A i, j \in 1..(Len(entries) + 1) : Pos(i) = Pos(j) => i = j
           /\ Pos(0) = proc_list /\ Pos(Len(entries) + 1) = proc_list
           /\ \A k \in 1..Len(entries) : Pos(k) = entries[k] /\ Pos(k) \in Node
           /\ \A k \in Int : Pos(k) \in Node => Pos(k) \in Listed
<1>1. Len(entries) \in Nat /\ \A k \in 1..Len(entries) : entries[k] \in Node
  OBVIOUS
<1>2. \A k \in Int : Pos(k) = IF k \in 1..Len(entries) THEN entries[k] ELSE proc_list
  BY DEF Pos, Around
<1>3. proc_list \notin Node
  BY AdminAssumption
<1> QED BY <1>1, <1>2, <1>3 DEF Cell, Distinct, Listed, Elements

(* The list with its head at both ends has the head around it. *)
LEMMA RingAround ==
    ASSUME entries \in Seq(Node), NEW k \in 0..(Len(entries) + 1)
    PROVE  (<<proc_list>> \o entries \o <<proc_list>>)[k + 1]
              = Around(entries, proc_list, k)
<1> DEFINE h == <<proc_list>>
           u == h \o entries
<1>1. /\ Len(entries) \in Nat /\ entries \in Seq(Cell)
      /\ h \in Seq(Cell) /\ Len(h) = 1 /\ h[1] = proc_list
  BY DEF Cell
<1> HIDE DEF h
<1>2. /\ u \in Seq(Cell) /\ Len(u) = 1 + Len(entries)
      /\ \A i \in 1..(1 + Len(entries)) :
            u[i] = IF i <= 1 THEN h[i] ELSE entries[i - 1]
  <2>1. /\ u \in Seq(Cell) /\ Len(u) = Len(h) + Len(entries)
        /\ \A i \in 1..(Len(h) + Len(entries)) :
              u[i] = IF i <= Len(h) THEN h[i] ELSE entries[i - Len(h)]
    BY <1>1, ConcatProperties
  <2> HIDE DEF u
  <2> QED BY <2>1, <1>1
<1> HIDE DEF u
<1>3. \A i \in 1..(Len(entries) + 2) :
         (u \o h)[i] = IF i <= Len(u) THEN u[i] ELSE h[i - Len(u)]
  <2>1. \A i \in 1..(Len(u) + Len(h)) :
           (u \o h)[i] = IF i <= Len(u) THEN u[i] ELSE h[i - Len(u)]
    BY <1>1, <1>2, ConcatProperties
  <2>2. Len(u) + Len(h) = Len(entries) + 2
    BY <1>1, <1>2
  <2> QED BY <2>1, <2>2
<1>4. (u \o h)[k + 1] = Around(entries, proc_list, k)
  <2>1. CASE k = 0
    BY <2>1, <1>1, <1>2, <1>3 DEF Around
  <2>2. CASE k \in 1..Len(entries)
    <3>1. k + 1 \in 1..(1 + Len(entries)) /\ ~(k + 1 <= 1) /\ (k + 1) - 1 = k
      BY <2>2, <1>1
    <3> QED BY <3>1, <2>2, <1>1, <1>2, <1>3 DEF Around
  <2>3. CASE k = Len(entries) + 1
    <3>1. /\ k + 1 \in 1..(Len(entries) + 2) /\ ~(k + 1 <= Len(u))
          /\ (k + 1) - Len(u) = 1 /\ k \notin 1..Len(entries)
      BY <2>3, <1>1, <1>2
    <3> QED BY <3>1, <1>1, <1>3 DEF Around
  <2>4. k = 0 \/ k \in 1..Len(entries) \/ k = Len(entries) + 1
    <3>1. Len(entries) \in Nat /\ k \in 0..(Len(entries) + 1)
      BY <1>1
    <3> QED BY <3>1
  <2> QED BY <2>1, <2>2, <2>3, <2>4
<1> QED BY <1>4 DEF u, h

(* A search finds what entries holds, as long as no two changes have
   overlapped, whatever change is in progress. *)
LEMMA ListingIs ==
    ASSUME Inv, LinksInv, ~overlapped
    PROVE  Listing = entries
<1>1. /\ IsFiniteSet(Node) /\ proc_list \notin Node
      /\ entries \in Seq(Node) /\ Distinct(entries)
      /\ Follows(next, proc_list, entries)
  BY AdminAssumption DEF Inv, Types, ListKept, LinksInv, Orderly
<1> QED BY <1>1, NodesAre DEF Listing

-----------------------------------------------------------------------------
(* The entries                                                             *)

\* Only the administrator a moves.
OnlyMoves(a) ==
    \A b \in Admin \ {a} :
       pc'[b] = pc[b] /\ name'[b] = name[b] /\ node'[b] = node[b]

(* A step that neither starts nor ends where an entry is at hand, and leaves
   the entries alone, keeps the invariant. *)
LEMMA StepAway ==
    ASSUME Inv, NEW a \in Admin, OnlyMoves(a),
           pc[a] \notin Creating \cup Deleting,
           pc'[a] \notin Creating \cup Deleting,
           UNCHANGED <<heap, entries, inside>>, Types'
    PROVE  Inv'
<1> USE DEF heap, Vacated
<1>1. Creators'
  BY DEF OnlyMoves, Inv, Creators, Creating, Listed
<1>2. Deletions'
  BY DEF OnlyMoves, Inv, Deletions, Listed
<1>3. ListKept'
  BY DEF OnlyMoves, Inv, ListKept, Listed, Deleting
<1>4. DirectoryKept'
  BY DEF OnlyMoves, Inv, DirectoryKept, Published, Creating, Listed, Linking
<1>5. UsersKept'
  BY DEF Inv, UsersKept
<1> QED BY <1>1, <1>2, <1>3, <1>4, <1>5 DEF Inv

(* The steps that only move an administrator or count. *)
LEMMA CountingKeepsInv ==
    ASSUME Inv, NEW a \in Admin,
           BeginNew(a) \/ CheckLimit(a) \/ CreateFails(a) \/ AskUncount(a)
             \/ Uncount(a) \/ InterruptNum(a)
    PROVE  Inv'
<1> USE AdminAssumption DEF Inv, Types, Places, OnlyMoves, Goto, Return, AskNum,
                            num, links, Creating, Deleting
<1>1. CASE BeginNew(a)
  <2>1. OnlyMoves(a) /\ pc[a] = "idle" /\ pc'[a] = "limit"
    BY <1>1 DEF BeginNew
  <2>2. Types'
    BY <1>1 DEF BeginNew, heap
  <2> QED BY <1>1, <2>1, <2>2, StepAway DEF BeginNew
<1>2. CASE CheckLimit(a)
  <2>1. OnlyMoves(a) /\ pc[a] = "limit" /\ pc'[a] \in {"idle", "create"}
    BY <1>2 DEF CheckLimit
  <2>2. num_of_process' \in 0..(UintMod - 1)
    BY <1>2 DEF CheckLimit
  <2>3. Types'
    BY <1>2, <2>2 DEF CheckLimit, heap
  <2> QED BY <1>2, <2>1, <2>3, StepAway DEF CheckLimit
<1>3. CASE CreateFails(a)
  <2>1. OnlyMoves(a) /\ pc[a] = "create" /\ pc'[a] = "undo"
    BY <1>3 DEF CreateFails
  <2>2. Types'
    BY <1>3 DEF CreateFails, heap
  <2> QED BY <1>3, <2>1, <2>2, StepAway DEF CreateFails
<1>4. CASE AskUncount(a)
  <2>1. OnlyMoves(a) /\ pc[a] = "undo" /\ pc'[a] = "uncount"
    BY <1>4 DEF AskUncount
  <2>2. Types'
    BY <1>4 DEF AskUncount, heap
  <2> QED BY <1>4, <2>1, <2>2, StepAway DEF AskUncount
<1>5. CASE Uncount(a)
  <2>1. OnlyMoves(a) /\ pc[a] = "uncount" /\ pc'[a] = "idle"
    BY <1>5 DEF Uncount
  <2>2. num_of_process' \in 0..(UintMod - 1)
    BY <1>5 DEF Uncount
  <2>3. Types'
    BY <1>5, <2>2 DEF Uncount, heap
  <2> QED BY <1>5, <2>1, <2>3, StepAway DEF Uncount
<1>6. CASE InterruptNum(a)
  <2>1. OnlyMoves(a) /\ pc[a] \in {"limit", "uncount"} /\ pc'[a] = "idle"
    BY <1>6 DEF InterruptNum
  <2>2. drift' \in Int
    BY <1>6 DEF InterruptNum
  <2>3. Types'
    BY <1>6, <2>2 DEF InterruptNum, heap
  <2> QED BY <1>6, <2>1, <2>3, StepAway DEF InterruptNum
<1> QED BY <1>1, <1>2, <1>3, <1>4, <1>5, <1>6

(* proc_create_data gives a new entry to its creator. *)
LEMMA PublishKeepsInv ==
    ASSUME Inv, NEW a \in Admin, Publish(a)
    PROVE  Inv'
<1> USE AdminAssumption
<1>1. PICK n \in Node : /\ mem[n] = "free"
                        /\ mem' = [mem EXCEPT ![n] = "raw"]
                        /\ dir' = [dir EXCEPT ![name[a]] = n]
                        /\ node' = [node EXCEPT ![a] = n]
  BY DEF Publish
<1>2. /\ pc[a] = "create" /\ pc' = [pc EXCEPT ![a] = "setup"]
      /\ dir[name[a]] = NoNode
      /\ UNCHANGED <<name, entries, inside, num>>
  BY DEF Publish, Goto, links
<1>3. Types'
  BY <1>1, <1>2 DEF Inv, Types, Places, num
<1>4. /\ OnlyMoves(a) /\ pc'[a] = "setup" /\ node'[a] = n /\ name' = name
      /\ Listed' = Listed /\ n # NoNode
      /\ \A m \in Node \ {n} : mem'[m] = mem[m]
      /\ mem'[n] = "raw"
      /\ \A s \in Name \ {name[a]} : dir'[s] = dir[s]
      /\ dir'[name[a]] = n /\ name[a] \in Name
  BY <1>1, <1>2 DEF OnlyMoves, Inv, Types, Listed
<1>5. n \notin Listed /\ \A s \in Name : dir[s] # n
  BY <1>1 DEF Inv, ListKept, DirectoryKept, Published, Creators, Creating, Types,
               Linking
<1>6. \A b \in Admin : pc[b] \in Creating => node[b] # n
  BY <1>1 DEF Inv, Types, Creators, Creating
<1>7. Creators'
  <2>1. ASSUME NEW b \in Admin, pc'[b] \in Creating
        PROVE  /\ node'[b] \in Node /\ node'[b] \notin Listed
               /\ mem'[node'[b]] = (IF pc'[b] \in Linking THEN name'[b] ELSE "raw")
               /\ IF pc'[b] = "discard" THEN \A s \in Name : dir'[s] # node'[b]
                                        ELSE dir'[name'[b]] = node'[b]
    <3>1. CASE b = a
      BY <3>1, <1>4, <1>5 DEF Linking
    <3>2. CASE b # a
      <4>1. pc'[b] = pc[b] /\ name'[b] = name[b] /\ node'[b] = node[b]
        BY <3>2, <1>4 DEF OnlyMoves
      <4>2. node[b] \in Node \ {n} /\ node[b] \notin Listed
        BY <2>1, <4>1, <1>6 DEF Inv, Creators
      <4>3. mem'[node[b]] = (IF pc[b] \in Linking THEN name[b] ELSE "raw")
        BY <2>1, <4>1, <4>2, <1>4 DEF Inv, Creators
      <4>4. CASE pc[b] = "discard"
        BY <4>1, <4>2, <4>3, <4>4, <1>4, <2>1 DEF Inv, Creators
      <4>5. CASE pc[b] # "discard"
        <5>1. dir[name[b]] = node[b] /\ name[b] \in Name
          BY <4>1, <4>5, <2>1 DEF Inv, Creators, Types
        <5>2. dir'[name[b]] = node[b]
          BY <5>1, <4>2, <1>2, <1>4
        <5> QED BY <4>1, <4>2, <4>3, <4>5, <5>2
      <4> QED BY <4>4, <4>5
    <3> QED BY <3>1, <3>2
  <2>2. ASSUME NEW b \in Admin, NEW c \in Admin, pc'[b] \in Creating,
               pc'[c] \in Creating, node'[b] = node'[c]
        PROVE  b = c
    BY <2>2, <1>4, <1>6 DEF Inv, Creators, OnlyMoves
  <2> QED BY <2>1, <2>2, <1>4 DEF Creators
<1>8. Deletions'
  BY <1>2, <1>4, <1>5, <1>6 DEF Inv, Deletions, OnlyMoves, Deleting, Vacated
<1>9. ListKept'
  <2> SUFFICES ASSUME NEW m \in Listed
               PROVE  /\ mem'[m] \in Name
                      /\ \/ dir'[mem'[m]] = m
                         \/ \E b \in Admin :
                               pc'[b] \in {"rundown", "unlink"} /\ node'[b] = m
    BY <1>2, <1>4 DEF Inv, ListKept
  <2>1. mem'[m] = mem[m] /\ m \in Node
    BY <1>4, <1>5 DEF Inv, Types, Listed, Elements
  <2>2. mem[m] = name[a] => dir[mem[m]] # m
    BY <1>2, <2>1
  <2> QED BY <1>2, <1>4, <2>1, <2>2 DEF Inv, ListKept, OnlyMoves
<1>10. DirectoryKept'
  BY <1>2, <1>4, <1>5, <1>6 DEF Inv, DirectoryKept, Published, Creating,
                                OnlyMoves, Types
<1>11. UsersKept'
  BY <1>1, <1>2, <1>4 DEF Inv, UsersKept, Types
<1> QED BY <1>3, <1>7, <1>8, <1>9, <1>10, <1>11 DEF Inv

(* Its creator fills the entry in. *)
LEMMA SetUpKeepsInv ==
    ASSUME Inv, NEW a \in Admin, SetUp(a)
    PROVE  Inv'
<1> USE AdminAssumption
<1>1. PICK n \in Node : n = node[a]
  BY DEF SetUp, Goto, Inv, Creators, Creating
<1>2. /\ pc[a] = "setup" /\ pc' = [pc EXCEPT ![a] = "link"]
      /\ mem' = [mem EXCEPT ![n] = name[a]]
      /\ UNCHANGED <<name, node, dir, entries, inside, num>>
  BY <1>1 DEF SetUp, Goto, links
<1>3. Types'
  BY <1>2 DEF Inv, Types, Places, num
<1>4. /\ OnlyMoves(a) /\ pc'[a] = "link" /\ Listed' = Listed
      /\ \A m \in Node \ {n} : mem'[m] = mem[m]
      /\ mem'[n] = name[a] /\ name[a] \in Name
  BY <1>2 DEF OnlyMoves, Inv, Types, Listed
<1>5. /\ n \notin Listed /\ dir[name[a]] = n
      /\ \A b \in Admin : pc[b] \in Creating /\ node[b] = n => a = b
  BY <1>1, <1>2 DEF Inv, Creators, Creating
<1>6. Creators'
  BY <1>1, <1>2, <1>4, <1>5 DEF Inv, Creators, Creating, OnlyMoves, Linking
<1>7. Deletions'
  BY <1>2, <1>4 DEF Inv, Deletions, OnlyMoves, Deleting, Vacated
<1>8. \A m \in Listed : m \in Node /\ mem'[m] = mem[m]
  BY <1>4, <1>5 DEF Inv, Types, Listed, Elements
<1>9. ListKept'
  BY <1>2, <1>4, <1>8 DEF Inv, ListKept, OnlyMoves
<1>10. DirectoryKept'
  BY <1>2, <1>4, <1>8 DEF Inv, DirectoryKept, Published, OnlyMoves, Linking
<1>11. UsersKept'
  BY <1>2, <1>4 DEF Inv, UsersKept, Types
<1> QED BY <1>3, <1>6, <1>7, <1>9, <1>10, <1>11 DEF Inv

(* The other steps of list_add and list_del move nothing yet. *)
LEMMA LinkingKeepsInv ==
    ASSUME Inv, NEW a \in Admin, LinkFirst(a) \/ LinkFields(a) \/ UnlinkBack(a)
    PROVE  Inv'
<1> USE AdminAssumption
<1>1. /\ UNCHANGED <<name, node, mem, dir, entries, inside, num>>
      /\ \A b \in Admin \ {a} : pc'[b] = pc[b]
      /\ \/ pc[a] = "link" /\ pc'[a] = "fields"
         \/ pc[a] = "fields" /\ pc'[a] = "head"
         \/ pc[a] = "rundown" /\ pc'[a] = "unlink" /\ Vacated(node[a])
  BY DEF LinkFirst, LinkFields, UnlinkBack, Goto, heap, Inv, Types
<1>2. Types'
  BY <1>1 DEF LinkFirst, LinkFields, UnlinkBack, Goto, Inv, Types, Places, num
<1>3. Creators'
  BY <1>1 DEF Inv, Creators, Creating, Linking, Listed
<1>4. Deletions'
  BY <1>1 DEF Inv, Deletions, Deleting, Listed, Vacated
<1>5. ListKept'
  BY <1>1 DEF Inv, ListKept, Listed
<1>6. DirectoryKept'
  BY <1>1 DEF Inv, DirectoryKept, Published, Linking, Listed
<1>7. UsersKept'
  BY <1>1 DEF Inv, UsersKept
<1> QED BY <1>2, <1>3, <1>4, <1>5, <1>6, <1>7 DEF Inv

(* The last link of list_add hands the entry over from its creator to the list. *)
LEMMA LinkHeadKeepsInv ==
    ASSUME Inv, NEW a \in Admin, LinkHead(a)
    PROVE  Inv'
<1> USE AdminAssumption
<1>1. PICK n \in Node : n = node[a]
  BY DEF LinkHead, Return, Goto, Inv, Creators, Creating
<1>2. /\ pc[a] = "head" /\ pc' = [pc EXCEPT ![a] = "idle"]
      /\ name' = [name EXCEPT ![a] = TestName]
      /\ node' = [node EXCEPT ![a] = NoNode]
      /\ entries' = <<n>> \o entries
      /\ UNCHANGED <<mem, dir, inside, num>>
  BY <1>1 DEF LinkHead, Return, Goto, heap
<1>3. /\ n \notin Listed /\ dir[name[a]] = n /\ mem[n] = name[a]
      /\ \A b \in Admin : pc[b] \in Creating /\ node[b] = n => a = b
  BY <1>1, <1>2 DEF Inv, Creators, Creating, Linking
<1>4. entries' \in Seq(Node) /\ Distinct(entries') /\ Listed' = Listed \cup {n}
  BY <1>2, <1>3, PutFirst DEF Inv, Types, ListKept, Listed
<1>5. Types'
  BY <1>2, <1>4 DEF Inv, Types, Places, num
<1>6. OnlyMoves(a) /\ pc'[a] = "idle"
  BY <1>2 DEF OnlyMoves, Inv, Types
<1>7. Creators'
  BY <1>2, <1>3, <1>4, <1>6 DEF Inv, Creators, Creating, OnlyMoves
<1>8. Deletions'
  BY <1>2, <1>4, <1>6 DEF Inv, Deletions, OnlyMoves, Deleting, Vacated
<1>9. ListKept'
  <2> SUFFICES ASSUME NEW m \in Listed \cup {n}
               PROVE  /\ mem[m] \in Name
                      /\ \/ dir[mem[m]] = m
                         \/ \E b \in Admin :
                               pc'[b] \in {"rundown", "unlink"} /\ node'[b] = m
    BY <1>2, <1>4 DEF ListKept
  <2>1. CASE m = n
    BY <2>1, <1>3 DEF Inv, Types
  <2>2. CASE m \in Listed
    BY <2>2, <1>2, <1>6 DEF Inv, ListKept, OnlyMoves
  <2> QED BY <2>1, <2>2
<1>10. DirectoryKept'
  <2> SUFFICES ASSUME NEW s \in Published
               PROVE  \/ dir[s] \in Listed \cup {n} /\ mem[dir[s]] = s
                      \/ \E b \in Admin : /\ pc'[b] \in {"setup"} \cup Linking
                                          /\ name'[b] = s /\ node'[b] = dir[s]
    BY <1>2, <1>4 DEF DirectoryKept, Published
  <2>1. CASE dir[s] = n
    <3>1. s = name[a]
      BY <2>1, <1>1, <1>3 DEF Inv, DirectoryKept, Creating, Linking
    <3> QED BY <3>1, <1>3
  <2>2. CASE dir[s] # n
    BY <2>2, <1>1, <1>2, <1>6 DEF Inv, DirectoryKept, OnlyMoves, Linking
  <2> QED BY <2>1, <2>2
<1>11. UsersKept'
  BY <1>2 DEF Inv, UsersKept
<1> QED BY <1>5, <1>7, <1>8, <1>9, <1>10, <1>11 DEF Inv

(* A creation that fails takes the entry out of the directory. *)
LEMMA SetUpFailsKeepsInv ==
    ASSUME Inv, NEW a \in Admin, SetUpFails(a)
    PROVE  Inv'
<1> USE AdminAssumption
<1>1. PICK n \in Node : n = node[a]
  BY DEF SetUpFails, Goto, Inv, Creators, Creating
<1>2. /\ pc[a] = "setup" /\ pc' = [pc EXCEPT ![a] = "discard"]
      /\ dir' = [dir EXCEPT ![name[a]] = NoNode]
      /\ UNCHANGED <<name, node, mem, entries, inside, num>>
  BY DEF SetUpFails, Goto, links
<1>3. Types'
  BY <1>2 DEF Inv, Types, Places, num
<1>4. /\ OnlyMoves(a) /\ pc'[a] = "discard" /\ Listed' = Listed
      /\ \A s \in Name \ {name[a]} : dir'[s] = dir[s]
      /\ dir'[name[a]] = NoNode /\ name[a] \in Name
  BY <1>2 DEF OnlyMoves, Inv, Types, Listed
<1>5. /\ n \notin Listed /\ dir[name[a]] = n /\ mem[n] = "raw"
      /\ \A b \in Admin : pc[b] \in Creating /\ node[b] = n => a = b
  BY <1>1, <1>2 DEF Inv, Creators, Creating, Linking
<1>6. \A s \in Name : dir'[s] # n
  BY <1>1, <1>4, <1>5 DEF Inv, DirectoryKept, Published, Creating, Linking
<1>7. Creators'
  BY <1>1, <1>2, <1>4, <1>5, <1>6 DEF Inv, Creators, Creating, OnlyMoves, Linking
<1>8. Deletions'
  <2>1. NoNode \notin Listed
    BY DEF Inv, Types, Listed, Elements
  <2> QED BY <2>1, <1>2, <1>4 DEF Inv, Deletions, OnlyMoves, Deleting, Vacated
<1>9. ListKept'
  BY <1>2, <1>4, <1>5 DEF Inv, ListKept, OnlyMoves
<1>10. DirectoryKept'
  BY <1>2, <1>4 DEF Inv, DirectoryKept, Published, OnlyMoves
<1>11. UsersKept'
  BY <1>2 DEF Inv, UsersKept
<1> QED BY <1>3, <1>7, <1>8, <1>9, <1>10, <1>11 DEF Inv

(* Its creator frees the entry, which nobody can reach any more. *)
LEMMA DiscardKeepsInv ==
    ASSUME Inv, NEW a \in Admin, Discard(a)
    PROVE  Inv'
<1> USE AdminAssumption
<1>1. PICK n \in Node : n = node[a]
  BY DEF Discard, Goto, Inv, Creators, Creating
<1>2. /\ pc[a] = "discard" /\ pc' = [pc EXCEPT ![a] = "undo"] /\ Vacated(n)
      /\ mem' = [mem EXCEPT ![n] = "free"]
      /\ UNCHANGED <<name, node, dir, entries, inside, num>>
  BY <1>1 DEF Discard, Goto, links
<1>3. Types'
  BY <1>2 DEF Inv, Types, Places, num
<1>4. /\ OnlyMoves(a) /\ pc'[a] = "undo" /\ Listed' = Listed
      /\ \A m \in Node \ {n} : mem'[m] = mem[m]
  BY <1>2 DEF OnlyMoves, Inv, Types, Listed
<1>5. /\ n \notin Listed /\ \A s \in Name : dir[s] # n
      /\ \A b \in Admin : pc[b] \in Creating /\ node[b] = n => a = b
  BY <1>1, <1>2 DEF Inv, Creators, Creating
<1>6. \A m \in Listed : m \in Node /\ mem'[m] = mem[m]
  BY <1>4, <1>5 DEF Inv, Types, Listed, Elements
<1>7. Creators'
  BY <1>1, <1>2, <1>4, <1>5 DEF Inv, Creators, Creating, OnlyMoves
<1>8. Deletions'
  BY <1>2, <1>4 DEF Inv, Deletions, OnlyMoves, Deleting, Vacated
<1>9. ListKept'
  BY <1>2, <1>4, <1>6 DEF Inv, ListKept, OnlyMoves
<1>10. DirectoryKept'
  BY <1>2, <1>4, <1>6 DEF Inv, DirectoryKept, Published, OnlyMoves, Linking
<1>11. UsersKept'
  BY <1>2, <1>4 DEF Inv, UsersKept, Types, Vacated
<1> QED BY <1>3, <1>7, <1>8, <1>9, <1>10, <1>11 DEF Inv

(* A deletion starts on an entry of the list, and nobody else deletes. *)
LEMMA BeginDeleteKeepsInv ==
    ASSUME Inv, LinksInv, OneDeleter, NEW a \in Admin, BeginDelete(a)
    PROVE  Inv'
<1> USE AdminAssumption
<1>1. a \in Deleters /\ pc[a] = "idle" /\ UNCHANGED <<name, heap, entries, inside>>
      /\ Listing = entries
  BY ListingIs DEF BeginDelete, Goto, links
<1>2. CASE \E s \in Name : Entries(s) = {} /\ Goto(a, "idle", "undo")
                           /\ drift' = drift - 1 /\ UNCHANGED node
  <2>1. OnlyMoves(a) /\ pc'[a] = "undo"
    BY <1>1, <1>2 DEF OnlyMoves, Inv, Types, Goto
  <2>2. Types'
    BY <1>1, <1>2 DEF Inv, Types, Places, Goto, heap, BeginDelete
  <2>3. {pc[a], pc'[a]} \cap (Creating \cup Deleting) = {}
    BY <1>1, <2>1 DEF Creating, Deleting
  <2> QED BY <1>1, <2>1, <2>2, <2>3, StepAway
<1>3. CASE \E s \in Name : Entries(s) # {} /\ Goto(a, "idle", "remove")
                           /\ node' = [node EXCEPT ![a] = Listing[
                                 CHOOSE i \in Entries(s) :
                                    \A j \in Entries(s) : i <= j]]
                           /\ UNCHANGED drift
  <2>1. PICK n \in Listed : node' = [node EXCEPT ![a] = n]
    <3>1. PICK s \in Name : Entries(s) # {}
                  /\ node' = [node EXCEPT ![a] = Listing[
                        CHOOSE i \in Entries(s) : \A j \in Entries(s) : i <= j]]
      BY <1>3
    <3>2. Entries(s) = {k \in 1..Len(entries) : mem[entries[k]] = s}
      BY <1>1 DEF Entries, Inv, Types
    <3>3. PICK k \in Entries(s) : \A j \in Entries(s) : k <= j
      BY <3>1, <3>2, LeastNatural
    <3> DEFINE i == CHOOSE x \in Entries(s) : \A j \in Entries(s) : x <= j
    <3>4. i \in Entries(s)
      BY <3>3
    <3>5. Listing[i] \in Listed
      BY <1>1, <3>2, <3>4 DEF Listed, Elements
    <3> QED BY <3>1, <3>5
  <2>2. /\ OnlyMoves(a) /\ pc'[a] = "remove" /\ node'[a] = n /\ n \in Node
        /\ Listed' = Listed
    BY <1>1, <1>3, <2>1 DEF OnlyMoves, Inv, Types, Goto, Listed, Elements, heap
  <2>3. Types'
    BY <1>1, <1>3, <2>1, <2>2 DEF Inv, Types, Places, Goto, heap, BeginDelete
  <2>4. Creators'
    BY <1>1, <2>2 DEF Inv, Creators, Creating, OnlyMoves, heap
  <2>5. Deletions'
    BY <1>1, <2>2 DEF Inv, Deletions, Deleting, Vacated, OnlyMoves, heap
  <2>6. ListKept'
    BY <1>1, <2>2 DEF Inv, ListKept, OnlyMoves, heap
  <2>7. DirectoryKept'
    BY <1>1, <2>2 DEF Inv, DirectoryKept, Published, OnlyMoves, heap, Linking
  <2>8. UsersKept'
    BY <1>1 DEF Inv, UsersKept, heap
  <2> QED BY <2>3, <2>4, <2>5, <2>6, <2>7, <2>8 DEF Inv
<1> QED BY <1>2, <1>3 DEF BeginDelete

(* remove_proc_entry takes the entry, and it alone, out of the directory. *)
LEMMA UnpublishKeepsInv ==
    ASSUME Inv, OneDeleter, NEW a \in Admin, Unpublish(a)
    PROVE  Inv'
<1> USE AdminAssumption
<1>0. NoNode \notin Listed /\ Listed \subseteq Node
  BY DEF Inv, Types, Listed, Elements
<1>1. PICK n \in Listed : n = node[a]
  BY DEF Unpublish, Goto, Inv, Deletions, Deleting, Vacated
<1>2. PICK s \in Name : s = mem[n]
  BY DEF Inv, ListKept
<1>3. /\ pc[a] = "remove" /\ pc' = [pc EXCEPT ![a] = "rundown"]
      /\ dir' = [dir EXCEPT ![s] = NoNode]
      /\ UNCHANGED <<name, node, mem, entries, inside, num>>
  BY <1>1, <1>2 DEF Unpublish, Goto, links
<1>4. Types'
  BY <1>3 DEF Inv, Types, Places, num
<1>5. /\ OnlyMoves(a) /\ pc'[a] = "rundown" /\ Listed' = Listed
      /\ \A t \in Name \ {s} : dir'[t] = dir[t]
      /\ dir'[s] = NoNode
  BY <1>3 DEF OnlyMoves, Inv, Types, Listed
<1>6. dir[s] = n
  <2>1. \A b \in Admin : pc[b] \notin {"rundown", "unlink"}
    BY <1>3 DEF OneDeleter, Inv, Deletions, Deleting
  <2> QED BY <2>1, <1>2 DEF Inv, ListKept
<1>7. \A t \in Name : dir'[t] # n
  <2> SUFFICES ASSUME NEW t \in Name, t # s, dir[t] = n
               PROVE  FALSE
    BY <1>0, <1>5
  <2>1. t \in Published
    BY <1>0 DEF Published
  <2> QED BY <2>1, <1>2 DEF Inv, DirectoryKept, Creators, Creating, Linking
<1>8. Creators'
  <2>1. \A b \in Admin : pc[b] \in Creating => node[b] # n
    BY DEF Inv, Creators
  <2>2. \A b \in Admin : pc'[b] \in Creating =>
           pc'[b] = pc[b] /\ name'[b] = name[b] /\ node'[b] = node[b]
    BY <1>5 DEF OnlyMoves, Creating
  <2>3. ASSUME NEW b \in Admin, pc[b] \in Creating, pc[b] # "discard"
        PROVE  dir'[name[b]] = node[b]
    BY <2>1, <2>3, <1>5, <1>6 DEF Inv, Creators, Types
  <2>4. ASSUME NEW b \in Admin, pc[b] = "discard", NEW t \in Name
        PROVE  dir'[t] # node[b]
    BY <2>4, <1>5 DEF Inv, Creators, Creating
  <2> QED BY <2>2, <2>3, <2>4, <1>3, <1>5 DEF Inv, Creators
<1>9. Deletions'
  BY <1>0, <1>1, <1>3, <1>5, <1>7 DEF Inv, Deletions, OnlyMoves, Deleting, Vacated
<1>10. ListKept'
  BY <1>1, <1>2, <1>3, <1>5, <1>6 DEF Inv, ListKept, OnlyMoves
<1>11. DirectoryKept'
  BY <1>3, <1>5 DEF Inv, DirectoryKept, Published, OnlyMoves, Linking
<1>12. UsersKept'
  BY <1>3 DEF Inv, UsersKept
<1> QED BY <1>4, <1>8, <1>9, <1>10, <1>11, <1>12 DEF Inv

(* The entry is freed once nobody is in it and nothing leads to it. *)
LEMMA FreeEntryKeepsInv ==
    ASSUME Inv, OneDeleter, NEW a \in Admin, FreeEntry(a)
    PROVE  Inv'
<1> USE AdminAssumption
<1>1. PICK n \in Listed : n = node[a]
  BY DEF FreeEntry, Goto, Inv, Deletions, Deleting
<1>2. /\ pc[a] = "unlink" /\ pc' = [pc EXCEPT ![a] = "undo"] /\ Vacated(n)
      /\ mem' = [mem EXCEPT ![n] = "free"] /\ entries' = Without(entries, n)
      /\ UNCHANGED <<name, node, dir, inside, num>>
  BY <1>1 DEF FreeEntry, Goto, Inv, Deletions, Deleting
<1>3. Listed \subseteq Node
  BY DEF Inv, Types, Listed, Elements
<1>4. entries' \in Seq(Node) /\ Distinct(entries') /\ Listed' = Listed \ {n}
  BY <1>2, UnlinkEffect DEF Inv, Types, ListKept, Listed
<1>5. Types'
  BY <1>2, <1>3, <1>4 DEF Inv, Types, Places, num
<1>6. /\ OnlyMoves(a) /\ pc'[a] = "undo"
      /\ \A m \in Node \ {n} : mem'[m] = mem[m]
  BY <1>2 DEF OnlyMoves, Inv, Types
<1>7. /\ \A s \in Name : dir[s] # n
      /\ \A b \in Admin : pc[b] \in Deleting => a = b
      /\ \A b \in Admin : pc[b] \in Creating => node[b] \in Node \ {n}
  BY <1>1, <1>2 DEF Inv, Deletions, OneDeleter, Creators, Creating, Linking,
                    Deleting, Vacated
<1>8. Creators'
  BY <1>2, <1>4, <1>6, <1>7 DEF Inv, Creators, Creating, OnlyMoves
<1>9. Deletions'
  BY <1>6, <1>7 DEF Deletions, OnlyMoves, Deleting, Vacated
<1>10. ListKept'
  <2> SUFFICES ASSUME NEW m \in Listed \ {n}
               PROVE  mem'[m] \in Name /\ dir[mem'[m]] = m
    BY <1>2, <1>4 DEF ListKept
  <2>1. mem'[m] = mem[m]
    BY <1>3, <1>6
  <2> QED BY <2>1, <1>1, <1>7 DEF Inv, ListKept, Deleting
<1>11. DirectoryKept'
  <2> SUFFICES ASSUME NEW s \in Published
               PROVE  \/ dir[s] \in Listed \ {n} /\ mem'[dir[s]] = s
                      \/ \E b \in Admin : /\ pc'[b] \in {"setup"} \cup Linking
                                          /\ name'[b] = s /\ node'[b] = dir[s]
    BY <1>2, <1>4 DEF DirectoryKept, Published
  <2>1. dir[s] # n
    BY <1>7 DEF Published
  <2> QED BY <2>1, <1>2, <1>3, <1>6 DEF Inv, DirectoryKept, OnlyMoves, Linking
<1>12. UsersKept'
  BY <1>2, <1>6 DEF Inv, UsersKept, Types, Vacated
<1> QED BY <1>5, <1>8, <1>9, <1>10, <1>11, <1>12 DEF Inv
-----------------------------------------------------------------------------
(* The changes of the links                                                *)

(* A step that leaves the links alone, and those who change them, keeps them. *)
LEMMA LinksSame ==
    ASSUME LinksInv, UNCHANGED links, Changing' = Changing,
           \A b \in Changing : pc'[b] = pc[b] /\ node'[b] = node[b]
    PROVE  LinksInv'
<1>1. LinkTypes' /\ overlapped' = overlapped
  BY DEF LinksInv, LinkTypes, links
<1>2. ASSUME Orderly
      PROVE  Orderly'
  <2>1. Follows(next, proc_list, entries)'
    BY <1>2 DEF Orderly, links
  <2>2. CASE Changing = {} /\ Backward({})
    BY <2>1, <2>2 DEF Orderly, links, Backward, Pos
  <2>3. ASSUME NEW a \in Admin, Changing = {a},
               Adding(a) \/ \E i \in 1..Len(entries) : Removing(a, i)
        PROVE  Changing' = {a} /\
               (Adding(a)' \/ \E i \in 1..Len(entries') : Removing(a, i)')
    <3>1. pc'[a] = pc[a] /\ node'[a] = node[a]
      BY <2>3
    <3> QED BY <2>3, <3>1 DEF links, Adding, Removing, Backward, Pos
  <2> QED BY <1>2, <2>1, <2>2, <2>3 DEF Orderly
<1> QED BY <1>1, <1>2 DEF LinksInv

(* list_add begins: if nobody else changes the list, only the link back of the
   first entry is ahead. *)
LEMMA LinkFirstKeepsLinks ==
    ASSUME Inv, LinksInv, NEW a \in Admin, LinkFirst(a)
    PROVE  LinksInv'
<1>1. /\ pc[a] = "link" /\ pc' = [pc EXCEPT ![a] = "fields"]
      /\ overlapped' = (overlapped \/ Changing # {})
      /\ before' = [before EXCEPT ![a] = proc_list]
      /\ after' = [after EXCEPT ![a] = next[proc_list]]
      /\ prev' = [prev EXCEPT ![next[proc_list]] = node[a]]
      /\ UNCHANGED <<node, next, entries>>
  BY DEF LinkFirst, Goto, BeginChange
<1>2. node[a] \in Node /\ pc \in [Admin -> Places]
  BY <1>1 DEF Inv, Creators, Creating, Types
<1>3. LinkTypes'
  BY <1>1, <1>2 DEF LinksInv, LinkTypes, Cell
<1>4. ASSUME ~overlapped, Changing = {}
      PROVE  Orderly'
  <2>0. /\ entries \in Seq(Node) /\ Distinct(entries)
        /\ Follows(next, proc_list, entries) /\ Backward({}) /\ LinkTypes
    BY <1>4 DEF Inv, Types, ListKept, LinksInv, Orderly
  <2>1. Pos(0) = proc_list /\ next[proc_list] = Pos(1) /\ Pos(1) \in Cell
        /\ Len(entries) \in Nat
    BY <2>0, PositionsApart DEF Follows, Pos
  <2>2. Changing' = {a}
    BY <1>1, <1>2, <1>4 DEF Changing
  <2>3. \A k \in Int : Pos(k)' = Pos(k)
    BY <1>1 DEF Pos
  <2>4. prev'[Pos(1)] = node[a]
    BY <1>1, <2>0, <2>1 DEF LinkTypes
  <2>5. ASSUME NEW k \in 0..Len(entries), k # 0
        PROVE  prev'[Pos(k + 1)] = Pos(k)
    <3>1. k + 1 \in 1..(Len(entries) + 1) /\ 1 \in 1..(Len(entries) + 1) /\ k + 1 # 1
      BY <2>1, <2>5
    <3>2. Pos(k + 1) # Pos(1)
      BY <2>0, <3>1, PositionsApart
    <3>3. prev[Pos(k + 1)] = Pos(k)
      BY <2>0 DEF Backward
    <3> QED BY <1>1, <2>1, <3>2, <3>3, <2>0 DEF LinkTypes
  <2>6. Backward({0})'
    BY <1>1, <2>3, <2>5 DEF Backward
  <2>7. pc'[a] = "fields" /\ before'[a] = proc_list /\ after'[a] = Pos(1)
    BY <1>1, <1>2, <2>0, <2>1 DEF LinkTypes
  <2>8. Adding(a)'
    BY <1>1, <2>3, <2>4, <2>6, <2>7 DEF Adding
  <2>9. Follows(next, proc_list, entries)'
    BY <1>1, <2>0
  <2> QED BY <2>2, <2>8, <2>9 DEF Orderly
<1> QED BY <1>1, <1>3, <1>4 DEF LinksInv, LinkTypes

(* The links of the new entry are nobody else's business. *)
LEMMA LinkFieldsKeepsLinks ==
    ASSUME Inv, LinksInv, NEW a \in Admin, LinkFields(a)
    PROVE  LinksInv'
<1>1. /\ pc[a] = "fields" /\ pc' = [pc EXCEPT ![a] = "head"]
      /\ next' = [next EXCEPT ![node[a]] = after[a]]
      /\ prev' = [prev EXCEPT ![node[a]] = before[a]]
      /\ UNCHANGED <<node, before, after, entries, overlapped>>
  BY DEF LinkFields, Goto
<1>2. node[a] \in Node \ Listed /\ pc \in [Admin -> Places]
  BY <1>1 DEF Inv, Creators, Creating, Types
<1>3. LinkTypes'
  BY <1>1, <1>2 DEF LinksInv, LinkTypes, Cell
<1>4. ASSUME Orderly
      PROVE  Orderly'
  <2>0. /\ entries \in Seq(Node) /\ Distinct(entries)
        /\ Follows(next, proc_list, entries) /\ LinkTypes
    BY <1>4 DEF Inv, Types, ListKept, LinksInv, Orderly
  <2>1. Changing = {a} /\ Adding(a)
    BY <1>1, <1>4 DEF Orderly, Changing, Adding, Removing
  <2>2. Changing' = {a}
    BY <1>1, <1>2, <2>1 DEF Changing
  <2>3. \A k \in Int : Pos(k)' = Pos(k) /\ Pos(k) \in Cell \ {node[a]}
    BY <1>1, <1>2, <2>0, PositionsApart DEF Pos, Cell
  <2>4. \A k \in Int : next'[Pos(k)] = next[Pos(k)] /\ prev'[Pos(k)] = prev[Pos(k)]
    BY <1>1, <2>0, <2>3 DEF LinkTypes
  <2>5. Len(entries) \in Nat /\ node[a] \in Cell
    BY <1>2, <2>0, PositionsApart DEF Cell
  <2>6. Backward({0})'
    BY <1>1, <2>1, <2>3, <2>4, <2>5 DEF Backward, Adding
  <2>7. next'[node[a]] = Pos(1) /\ prev'[node[a]] = proc_list
    BY <1>1, <2>0, <2>1, <2>5 DEF LinkTypes, Adding
  <2>8. prev'[Pos(1)] = node[a] /\ pc'[a] = "head"
    BY <1>1, <1>2, <2>1, <2>4 DEF Adding
  <2>9. Adding(a)'
    BY <1>1, <2>1, <2>3, <2>6, <2>7, <2>8 DEF Adding
  <2>10. Follows(next, proc_list, entries)'
    BY <1>1, <2>0, <2>3, <2>4, <2>5 DEF Follows, Pos
  <2> QED BY <2>2, <2>9, <2>10 DEF Orderly
<1> QED BY <1>1, <1>3, <1>4 DEF LinksInv

(* With its last link, list_add has put the entry first. *)
LEMMA LinkHeadKeepsLinks ==
    ASSUME Inv, LinksInv, NEW a \in Admin, LinkHead(a)
    PROVE  LinksInv'
<1>1. PICK n \in Node \ Listed : n = node[a]
  BY DEF LinkHead, Return, Goto, Inv, Creators, Creating
<1>2. /\ pc[a] = "head" /\ pc' = [pc EXCEPT ![a] = "idle"]
      /\ next' = [next EXCEPT ![before[a]] = n]
      /\ before' = [before EXCEPT ![a] = NoNode]
      /\ after' = [after EXCEPT ![a] = NoNode]
      /\ entries' = <<n>> \o entries
      /\ UNCHANGED <<prev, overlapped>>
  BY <1>1 DEF LinkHead, Return, Goto
<1>3. LinkTypes'
  BY <1>1, <1>2 DEF LinksInv, LinkTypes, Cell
<1>4. ASSUME Orderly
      PROVE  Orderly'
  <2>0. /\ entries \in Seq(Node) /\ Distinct(entries)
        /\ Follows(next, proc_list, entries) /\ LinkTypes
        /\ pc \in [Admin -> Places]
    BY <1>4 DEF Inv, Types, ListKept, LinksInv, Orderly
  <2>1. Changing = {a} /\ Adding(a)
    BY <1>2, <1>4 DEF Orderly, Changing, Adding, Removing
  <2>2. Changing' = {}
    BY <1>2, <2>0, <2>1 DEF Changing
  <2>3. /\ Len(entries) \in Nat /\ Len(entries') = Len(entries) + 1
        /\ entries'[1] = n /\ \A k \in 1..Len(entries) : entries'[k + 1] = entries[k]
    <3>1. Len(<<n>>) = 1 /\ <<n>>[1] = n /\ <<n>> \in Seq(Node)
      OBVIOUS
    <3> QED BY <1>2, <2>0, <3>1, ConcatProperties
  <2>4. /\ Pos(0)' = proc_list /\ Pos(1)' = n
        /\ \A k \in 1..(Len(entries) + 1) : Pos(k + 1)' = Pos(k)
    BY <2>3 DEF Pos, Around
  <2>5. \A k \in 1..Len(entries) : next'[Pos(k)] = Pos(k + 1)
    <3>1. \A k \in 1..Len(entries) : next[Pos(k)] = Pos(k + 1) /\ Pos(k) \in Node
      BY <2>0, <2>3, PositionsApart DEF Follows, Pos
    <3> QED BY <1>2, <2>0, <2>1, <3>1, AdminAssumption DEF LinkTypes, Adding, Cell
  <2>6. next'[proc_list] = n /\ next'[n] = Pos(1)
    BY <1>1, <1>2, <2>0, <2>1, AdminAssumption DEF LinkTypes, Adding, Cell
  <2>7. ASSUME NEW k \in 0..(Len(entries) + 1)
        PROVE  next'[Pos(k)'] = Pos(k + 1)'
    <3>1. CASE k = 0
      BY <3>1, <2>4, <2>6
    <3>2. CASE k = 1
      BY <3>2, <2>3, <2>4, <2>6
    <3>3. CASE k \in 2..(Len(entries) + 1)
      <4>1. k - 1 \in 1..Len(entries) /\ (k - 1) + 1 = k /\ k \in 1..(Len(entries) + 1)
        BY <3>3, <2>3
      <4>2. Pos(k)' = Pos(k - 1) /\ Pos(k + 1)' = Pos(k)
        BY <4>1, <2>3, <2>4
      <4> QED BY <4>1, <4>2, <2>5
    <3> QED BY <3>1, <3>2, <3>3, <2>3
  <2>8. Follows(next, proc_list, entries)'
    BY <2>3, <2>7 DEF Follows, Pos
  <2>9. ASSUME NEW k \in 0..(Len(entries) + 1)
        PROVE  prev'[Pos(k + 1)'] = Pos(k)'
    <3>1. CASE k = 0
      BY <3>1, <1>1, <1>2, <2>1, <2>4 DEF Adding
    <3>2. CASE k = 1
      BY <3>2, <1>1, <1>2, <2>1, <2>3, <2>4 DEF Adding
    <3>3. CASE k \in 2..(Len(entries) + 1)
      <4>1. /\ k - 1 \in 1..Len(entries) /\ (k - 1) + 1 = k
            /\ k \in 1..(Len(entries) + 1) /\ k - 1 \in (0..Len(entries)) \ {0}
        BY <3>3, <2>3
      <4>2. Pos(k)' = Pos(k - 1) /\ Pos(k + 1)' = Pos(k)
        BY <4>1, <2>3, <2>4
      <4>3. prev[Pos((k - 1) + 1)] = Pos(k - 1)
        BY <4>1, <2>1 DEF Adding, Backward
      <4> QED BY <1>2, <4>1, <4>2, <4>3
    <3> QED BY <3>1, <3>2, <3>3, <2>3
  <2>10. Backward({})'
    BY <2>3, <2>9 DEF Backward
  <2> QED BY <2>2, <2>8, <2>10 DEF Orderly
<1> QED BY <1>2, <1>3, <1>4 DEF LinksInv

(* list_del begins: if nobody else changes the list, only the link back of the
   entry behind is ahead. *)
LEMMA UnlinkBackKeepsLinks ==
    ASSUME Inv, LinksInv, NEW a \in Admin, UnlinkBack(a)
    PROVE  LinksInv'
<1>1. /\ pc[a] = "rundown" /\ pc' = [pc EXCEPT ![a] = "unlink"]
      /\ overlapped' = (overlapped \/ Changing # {})
      /\ before' = [before EXCEPT ![a] = prev[node[a]]]
      /\ after' = [after EXCEPT ![a] = next[node[a]]]
      /\ prev' = [prev EXCEPT ![next[node[a]]] = prev[node[a]]]
      /\ UNCHANGED <<node, next, entries>>
  BY DEF UnlinkBack, Goto, BeginChange
<1>2. node[a] \in Listed /\ node[a] \in Cell /\ pc \in [Admin -> Places]
  BY <1>1 DEF Inv, Deletions, Deleting, Types, Listed, Elements, Cell
<1>3. LinkTypes'
  BY <1>1, <1>2 DEF LinksInv, LinkTypes
<1>4. ASSUME ~overlapped, Changing = {}
      PROVE  Orderly'
  <2>0. /\ entries \in Seq(Node) /\ Distinct(entries)
        /\ Follows(next, proc_list, entries) /\ Backward({}) /\ LinkTypes
    BY <1>4 DEF Inv, Types, ListKept, LinksInv, Orderly
  <2>1. PICK i \in 1..Len(entries) : node[a] = Pos(i)
    BY <1>2, <2>0, PositionsApart DEF Listed, Elements
  <2>2. Len(entries) \in Nat /\ i - 1 \in 0..Len(entries) /\ i \in 0..Len(entries)
        /\ (i - 1) + 1 = i /\ i + 1 \in 1..(Len(entries) + 1) /\ i + 1 \in Int
    BY <2>0
  <2>3. /\ next[Pos(i)] = Pos(i + 1) /\ prev[Pos(i)] = Pos(i - 1)
        /\ Pos(i + 1) \in Cell
    <3>1. prev[Pos((i - 1) + 1)] = Pos(i - 1)
      BY <2>0, <2>2 DEF Backward
    <3> QED BY <2>0, <2>2, <3>1, PositionsApart DEF Follows, Pos
  <2>4. Changing' = {a}
    BY <1>1, <1>2, <1>4 DEF Changing
  <2>5. \A k \in Int : Pos(k)' = Pos(k)
    BY <1>1 DEF Pos
  <2>6. /\ pc'[a] = "unlink" /\ before'[a] = Pos(i - 1) /\ after'[a] = Pos(i + 1)
        /\ prev'[Pos(i + 1)] = Pos(i - 1)
    BY <1>1, <1>2, <2>0, <2>1, <2>3 DEF LinkTypes
  <2>7. ASSUME NEW k \in 0..Len(entries), k # i
        PROVE  prev'[Pos(k + 1)] = Pos(k)
    <3>1. k + 1 \in 1..(Len(entries) + 1) /\ k + 1 # i + 1
      BY <2>2, <2>7
    <3>2. Pos(k + 1) # Pos(i + 1)
      BY <2>0, <2>2, <3>1, PositionsApart
    <3>3. prev[Pos(k + 1)] = Pos(k)
      BY <2>0 DEF Backward
    <3> QED BY <1>1, <2>0, <2>1, <2>3, <3>2, <3>3 DEF LinkTypes
  <2>8. Backward({i})'
    BY <1>1, <2>5, <2>7 DEF Backward
  <2>9. Removing(a, i)'
    BY <1>1, <2>1, <2>2, <2>5, <2>6, <2>8 DEF Removing
  <2>10. Follows(next, proc_list, entries)'
    BY <1>1, <2>0
  <2> QED BY <1>1, <2>4, <2>9, <2>10 DEF Orderly
<1> QED BY <1>1, <1>3, <1>4 DEF LinksInv, LinkTypes

(* With its last link, list_del has taken the entry out. *)
LEMMA FreeEntryKeepsLinks ==
    ASSUME Inv, LinksInv, NEW a \in Admin, FreeEntry(a)
    PROVE  LinksInv'
<1>1. PICK n \in Listed : n = node[a]
  BY DEF FreeEntry, Goto, Inv, Deletions, Deleting
<1>2. /\ pc[a] = "unlink" /\ pc' = [pc EXCEPT ![a] = "undo"]
      /\ next' = [next EXCEPT ![before[a]] = after[a], ![n] = NoNode]
      /\ prev' = [prev EXCEPT ![n] = NoNode]
      /\ before' = [before EXCEPT ![a] = NoNode]
      /\ after' = [after EXCEPT ![a] = NoNode]
      /\ entries' = Without(entries, n)
      /\ UNCHANGED overlapped
  BY <1>1 DEF FreeEntry, Goto
<1>3. LinkTypes'
  BY <1>2 DEF LinksInv, LinkTypes, Cell
<1>4. ASSUME Orderly
      PROVE  Orderly'
  <2>0. /\ entries \in Seq(Node) /\ Distinct(entries)
        /\ Follows(next, proc_list, entries) /\ LinkTypes
        /\ pc \in [Admin -> Places]
    BY <1>4 DEF Inv, Types, ListKept, LinksInv, Orderly
  <2>1. Changing = {a} /\ \E i \in 1..Len(entries) : Removing(a, i)
    BY <1>2, <1>4 DEF Orderly, Changing, Adding
  <2>2. PICK i \in 1..Len(entries) : Removing(a, i)
    BY <2>1
  <2>3. Changing' = {}
    BY <1>2, <2>0, <2>1 DEF Changing
  <2> DEFINE L == Len(entries)
  <2>4. L \in Nat /\ n = Pos(i) /\ n = entries[i] /\ n \in Node
    BY <1>1, <2>0, <2>2, PositionsApart DEF Removing
  <2>5. Skips(entries', entries, i)
    BY <1>2, <2>0, <2>4, WithoutSkips
  <2>6. /\ Len(entries') = L - 1
        /\ \A k \in 0..L : Pos(k)' = IF k < i THEN Pos(k) ELSE Pos(k + 1)
    <3>1. \A k \in 1..(L - 1) :
             entries'[k] = IF k < i THEN entries[k] ELSE entries[k + 1]
      BY <2>4, <2>5 DEF Skips
    <3>2. Len(entries') = L - 1
      BY <2>5 DEF Skips
    <3> QED BY <2>4, <3>1, <3>2 DEF Pos, Around
  <2>7. \A k \in 0..(L + 1) : k # i => Pos(k) \in Cell /\ Pos(k) # n
    BY <2>0, <2>4, PositionsApart, AdminAssumption
  <2>8. \A k \in (0..L) \ {i, i - 1} :
           next'[Pos(k)] = Pos(k + 1)
    <3> SUFFICES ASSUME NEW k \in (0..L) \ {i, i - 1}
                 PROVE  next'[Pos(k)] = Pos(k + 1)
      OBVIOUS
    <3>1. Pos(k) # Pos(i - 1) /\ Pos(k) # n /\ Pos(k) \in Cell
      <4>1. k \in 0..L /\ i - 1 \in 0..L /\ k # i - 1 /\ k \in 0..(L + 1)
        BY <2>4
      <4> QED BY <4>1, <2>0, <2>7, PositionsApart
    <3>2. next[Pos(k)] = Pos(k + 1)
      BY <2>0 DEF Follows, Pos
    <3> QED BY <1>2, <2>0, <2>2, <3>1, <3>2 DEF LinkTypes, Removing
  <2>9. next'[Pos(i - 1)] = Pos(i + 1)
    <3>1. Pos(i - 1) \in Cell \ {n}
      <4>1. i - 1 \in 0..(L + 1) /\ i - 1 # i
        BY <2>4
      <4> QED BY <4>1, <2>7
    <3> QED BY <1>2, <2>0, <2>2, <3>1 DEF LinkTypes, Removing
  <2>10. ASSUME NEW k \in 0..(L - 1)
         PROVE  next'[Pos(k)'] = Pos(k + 1)'
    <3>0. k \in 0..L /\ k + 1 \in 0..L /\ k \in Int
      BY <2>4
    <3>1. CASE k < i - 1
      BY <3>0, <3>1, <2>4, <2>6, <2>8
    <3>2. CASE k = i - 1
      <4>1. Pos(k)' = Pos(i - 1) /\ Pos(k + 1)' = Pos(i + 1)
        BY <3>0, <3>2, <2>4, <2>6
      <4> QED BY <4>1, <2>9
    <3>3. CASE k >= i
      <4>1. Pos(k)' = Pos(k + 1) /\ Pos(k + 1)' = Pos((k + 1) + 1)
        BY <3>0, <3>3, <2>4, <2>6
      <4>2. k + 1 \in (0..L) \ {i, i - 1}
        BY <3>0, <3>3, <2>4
      <4> QED BY <4>1, <4>2, <2>8
    <3> QED BY <3>0, <3>1, <3>2, <3>3, <2>4
  <2>11. Follows(next, proc_list, entries)'
    BY <2>6, <2>10 DEF Follows, Pos
  <2>12. \A k \in (0..L) \ {i, i - 1} : prev'[Pos(k + 1)] = Pos(k)
    <3> SUFFICES ASSUME NEW k \in (0..L) \ {i, i - 1}
                 PROVE  prev'[Pos(k + 1)] = Pos(k)
      OBVIOUS
    <3>1. Pos(k + 1) \in Cell \ {n}
      <4>1. k + 1 \in 0..(L + 1) /\ k + 1 # i
        BY <2>4
      <4> QED BY <4>1, <2>7
    <3>2. prev[Pos(k + 1)] = Pos(k)
      BY <2>2 DEF Removing, Backward
    <3> QED BY <1>2, <2>0, <3>1, <3>2 DEF LinkTypes
  <2>13. prev'[Pos(i + 1)] = Pos(i - 1)
    <3>1. Pos(i + 1) \in Cell \ {n}
      <4>1. i + 1 \in 0..(L + 1) /\ i + 1 # i
        BY <2>4
      <4> QED BY <4>1, <2>7
    <3> QED BY <1>2, <2>0, <2>2, <3>1 DEF LinkTypes, Removing
  <2>14. ASSUME NEW k \in 0..(L - 1)
         PROVE  prev'[Pos(k + 1)'] = Pos(k)'
    <3>0. k \in 0..L /\ k + 1 \in 0..L /\ k \in Int
      BY <2>4
    <3>1. CASE k < i - 1
      BY <3>0, <3>1, <2>4, <2>6, <2>12
    <3>2. CASE k = i - 1
      <4>1. Pos(k)' = Pos(i - 1) /\ Pos(k + 1)' = Pos(i + 1)
        BY <3>0, <3>2, <2>4, <2>6
      <4> QED BY <4>1, <2>13
    <3>3. CASE k >= i
      <4>1. Pos(k)' = Pos(k + 1) /\ Pos(k + 1)' = Pos((k + 1) + 1)
        BY <3>0, <3>3, <2>4, <2>6
      <4>2. k + 1 \in (0..L) \ {i, i - 1}
        BY <3>0, <3>3, <2>4
      <4> QED BY <4>1, <4>2, <2>12
    <3> QED BY <3>0, <3>1, <3>2, <3>3, <2>4
  <2>15. Backward({})'
    BY <2>6, <2>14 DEF Backward
  <2> QED BY <2>3, <2>11, <2>15 DEF Orderly
<1> QED BY <1>2, <1>3, <1>4 DEF LinksInv

(* Every step of an administrator keeps the links. *)
LEMMA AdminKeepsLinks ==
    ASSUME Inv, LinksInv, NEW a \in Admin, AdminStep(a)
    PROVE  LinksInv'
<1>1. CASE \/ LinkFirst(a) \/ LinkFields(a) \/ LinkHead(a)
           \/ UnlinkBack(a) \/ FreeEntry(a)
  BY <1>1, LinkFirstKeepsLinks, LinkFieldsKeepsLinks, LinkHeadKeepsLinks,
     UnlinkBackKeepsLinks, FreeEntryKeepsLinks
<1>2. CASE \/ BeginNew(a) \/ CheckLimit(a) \/ CreateFails(a) \/ Publish(a)
           \/ SetUp(a) \/ SetUpFails(a) \/ Discard(a) \/ BeginDelete(a)
           \/ Unpublish(a) \/ AskUncount(a) \/ Uncount(a) \/ InterruptNum(a)
  <2>1. UNCHANGED links
    BY <1>2 DEF BeginNew, CheckLimit, CreateFails, Publish, SetUp, SetUpFails,
                Discard, BeginDelete, Unpublish, AskUncount, Uncount, InterruptNum
  <2>2. OnlyMoves(a) /\ {pc[a], pc'[a]} \cap {"fields", "head", "unlink"} = {}
    BY <1>2 DEF BeginNew, CheckLimit, CreateFails, Publish, SetUp, SetUpFails,
                Discard, BeginDelete, Unpublish, AskUncount, Uncount,
                InterruptNum, AskNum, Goto, Return, OnlyMoves, Inv, Types
  <2>3. Changing' = Changing
    BY <2>2 DEF Changing, OnlyMoves
  <2>4. \A b \in Changing : pc'[b] = pc[b] /\ node'[b] = node[b]
    BY <2>2 DEF Changing, OnlyMoves
  <2> QED BY <2>1, <2>3, <2>4, LinksSame
<1> QED BY <1>1, <1>2 DEF AdminStep
-----------------------------------------------------------------------------
(* The number of entries                                                   *)

(* A step of a moves a, and only a, in or out of the sets of places. *)
LEMMA Moves ==
    ASSUME Types, NEW a \in Admin, NEW from, NEW to, Goto(a, from, to), NEW L
    PROVE  /\ to \in L => At(L)' = At(L) \cup {a}
           /\ to \notin L => At(L)' = At(L) \ {a}
           /\ a \in At(L) <=> from \in L
<1>1. pc[a] = from /\ \A b \in Admin : pc'[b] = IF b = a THEN to ELSE pc[b]
  BY DEF Types, Goto
<1> QED BY <1>1 DEF At

(* The administrators are finitely many. *)
LEMMA AtFinite ==
    ASSUME NEW L
    PROVE  IsFiniteSet(At(L)) /\ Cardinality(At(L)) \in Nat
<1>1. At(L) \subseteq Admin
  BY DEF At
<1> QED BY <1>1, AdminAssumption, FS_Subset, FS_CardinalityType

(* What a step of a changes in the number of those at the places of L. *)
LEMMA NumberMoves ==
    ASSUME Types, NEW a \in Admin, NEW from, NEW to, Goto(a, from, to), NEW L
    PROVE  Cardinality(At(L)') = Cardinality(At(L))
              + (IF to \in L THEN 1 ELSE 0) - (IF from \in L THEN 1 ELSE 0)
<1>1. IsFiniteSet(At(L)) /\ Cardinality(At(L)) \in Nat
  BY AtFinite
<1>2. CASE to \in L
  <2>1. At(L)' = At(L) \cup {a} /\ (a \in At(L) <=> from \in L)
    BY <1>2, Moves
  <2>2. Cardinality(At(L) \cup {a})
           = IF a \in At(L) THEN Cardinality(At(L)) ELSE Cardinality(At(L)) + 1
    BY <1>1, FS_AddElement
  <2> QED BY <1>1, <1>2, <2>1, <2>2
<1>3. CASE to \notin L
  <2>1. At(L)' = At(L) \ {a} /\ (a \in At(L) <=> from \in L)
    BY <1>3, Moves
  <2>2. Cardinality(At(L) \ {a})
           = IF a \in At(L) THEN Cardinality(At(L)) - 1 ELSE Cardinality(At(L))
    BY <1>1, FS_RemoveElement
  <2> QED BY <1>1, <1>3, <2>1, <2>2
<1> QED BY <1>2, <1>3

(* The number of entries and debts is a number. *)
LEMMA CountType ==
    ASSUME Types
    PROVE  /\ Count \in Int /\ Len(entries) \in Nat
           /\ Cardinality(At(Owing)) \in Nat
BY AtFinite DEF Types, Count

(* The steps that leave the number and the debts alone. *)
LEMMA SameCount ==
    ASSUME NumberInv, Count' = Count, num_of_process' = num_of_process
    PROVE  NumberInv'
BY DEF NumberInv

(* Every step of an administrator keeps the number: it repays a debt when it
   puts an entry in the list, makes one when it takes an entry out, and the
   number moves with the debts in every other case. *)
LEMMA AdminKeepsNumber ==
    ASSUME Inv, NumberInv, NEW a \in Admin, AdminStep(a)
    PROVE  NumberInv'
<1> USE AdminAssumption DEF Owing, Creating
<1>0. /\ Count \in Int /\ Len(entries) \in Nat /\ drift \in Int
      /\ Cardinality(At(Owing)) \in Nat /\ Types
  BY CountType DEF Inv, Types
<1> DEFINE C == Cardinality(At(Owing))
<1>A. Count' = Len(entries') + 1 + drift' + Cardinality(At(Owing)')
  BY DEF Count
<1>1. CASE BeginNew(a)
  <2>1. Goto(a, "idle", "limit") /\ UNCHANGED <<entries, drift, num_of_process>>
    BY <1>1 DEF BeginNew, links, AskNum, heap
  <2>2. Cardinality(At(Owing)') = C + 0 - 0
    BY <2>1, <1>0, NumberMoves
  <2> QED BY <2>1, <2>2, <1>0, <1>A, SameCount DEF Count
<1>2. CASE CheckLimit(a)
  <2>1. UNCHANGED <<entries, drift>>
    BY <1>2 DEF CheckLimit, links, heap
  <2>2. CASE Goto(a, "limit", "idle") /\ UNCHANGED num_of_process
    <3>1. Cardinality(At(Owing)') = C + 0 - 0
      BY <2>2, <1>0, NumberMoves
    <3> QED BY <2>1, <2>2, <3>1, <1>0, <1>A, SameCount DEF Count
  <2>3. CASE /\ num_of_process <= max_entries /\ Goto(a, "limit", "create")
             /\ num_of_process' = (num_of_process + 1) % UintMod
    <3>1. Cardinality(At(Owing)') = C + 1 - 0
      BY <2>3, <1>0, NumberMoves
    <3>2. Count' = Count + 1
      BY <2>1, <3>1, <1>0, <1>A DEF Count
    <3>3. num_of_process = Count % UintMod /\ Count <= max_entries + 1
      BY DEF NumberInv
    <3>4. num_of_process' = Count' % UintMod
      <4>1. UintMod \in Nat \ {0}
        OBVIOUS
      <4>2. ((Count % UintMod) + 1) % UintMod = (Count + 1) % UintMod
        BY <4>1, <1>0, CounterWraps
      <4> HIDE AdminAssumption
      <4> QED BY <2>3, <3>2, <3>3, <4>2
    <3>5. Count <= max_entries
      <4>1. CASE Count < 0
        BY <4>1, <1>0
      <4>2. CASE Count >= 0
        <5>1. Count \in 0..(UintMod - 1) /\ Count = UintMod * 0 + Count
          BY <4>2, <3>3, <1>0
        <5>2. Count % UintMod = Count
          BY <5>1, <1>0, RemainderIs
        <5> QED BY <5>2, <2>3, <3>3
      <4> QED BY <4>1, <4>2, <1>0
    <3> QED BY <3>2, <3>4, <3>5, <1>0 DEF NumberInv
  <2> QED BY <1>2, <2>2, <2>3 DEF CheckLimit, Return
<1>3. CASE CreateFails(a)
  <2>1. Goto(a, "create", "undo") /\ UNCHANGED <<entries, drift, num_of_process>>
    BY <1>3 DEF CreateFails, links, heap, num
  <2>2. Cardinality(At(Owing)') = C + 1 - 1
    BY <2>1, <1>0, NumberMoves
  <2> QED BY <2>1, <2>2, <1>0, <1>A, SameCount DEF Count
<1>4. CASE Publish(a)
  <2>1. Goto(a, "create", "setup") /\ UNCHANGED <<entries, drift, num_of_process>>
    BY <1>4 DEF Publish, links, num
  <2>2. Cardinality(At(Owing)') = C + 1 - 1
    BY <2>1, <1>0, NumberMoves
  <2> QED BY <2>1, <2>2, <1>0, <1>A, SameCount DEF Count
<1>5. CASE SetUp(a)
  <2>1. Goto(a, "setup", "link") /\ UNCHANGED <<entries, drift, num_of_process>>
    BY <1>5 DEF SetUp, links, num
  <2>2. Cardinality(At(Owing)') = C + 1 - 1
    BY <2>1, <1>0, NumberMoves
  <2> QED BY <2>1, <2>2, <1>0, <1>A, SameCount DEF Count
<1>6. CASE LinkHead(a)
  <2>1. /\ Goto(a, "head", "idle") /\ UNCHANGED <<drift, num_of_process>>
        /\ entries' = <<node[a]>> \o entries
    BY <1>6 DEF LinkHead, Return, num
  <2>2. Cardinality(At(Owing)') = C + 0 - 1
    BY <2>1, <1>0, NumberMoves
  <2>3. node[a] \in Node \ Elements(entries)
    BY <2>1 DEF Inv, Creators, Creating, Goto, Listed
  <2>4. Len(entries') = Len(entries) + 1
    BY <2>1, <2>3, PutFirst DEF Inv, Types, ListKept
  <2> QED BY <2>1, <2>2, <2>4, <1>0, <1>A, SameCount DEF Count
<1>15. CASE LinkFirst(a) \/ LinkFields(a)
  <2>1. /\ Goto(a, "link", "fields") \/ Goto(a, "fields", "head")
        /\ UNCHANGED <<entries, drift, num_of_process>>
    BY <1>15 DEF LinkFirst, LinkFields, num
  <2>2. Cardinality(At(Owing)') = C + 1 - 1
    BY <2>1, <1>0, NumberMoves
  <2> QED BY <2>1, <2>2, <1>0, <1>A, SameCount DEF Count
<1>16. CASE UnlinkBack(a)
  <2>1. /\ Goto(a, "rundown", "unlink")
        /\ UNCHANGED <<entries, drift, num_of_process>>
    BY <1>16 DEF UnlinkBack, num
  <2>2. Cardinality(At(Owing)') = C + 0 - 0
    BY <2>1, <1>0, NumberMoves
  <2> QED BY <2>1, <2>2, <1>0, <1>A, SameCount DEF Count
<1>7. CASE SetUpFails(a)
  <2>1. Goto(a, "setup", "discard") /\ UNCHANGED <<entries, drift, num_of_process>>
    BY <1>7 DEF SetUpFails, links, num
  <2>2. Cardinality(At(Owing)') = C + 1 - 1
    BY <2>1, <1>0, NumberMoves
  <2> QED BY <2>1, <2>2, <1>0, <1>A, SameCount DEF Count
<1>8. CASE Discard(a)
  <2>1. Goto(a, "discard", "undo") /\ UNCHANGED <<entries, drift, num_of_process>>
    BY <1>8 DEF Discard, links, num
  <2>2. Cardinality(At(Owing)') = C + 1 - 1
    BY <2>1, <1>0, NumberMoves
  <2> QED BY <2>1, <2>2, <1>0, <1>A, SameCount DEF Count
<1>9. CASE BeginDelete(a)
  <2>1. UNCHANGED <<entries, num_of_process>>
    BY <1>9 DEF BeginDelete, links, heap
  <2>2. CASE Goto(a, "idle", "remove") /\ UNCHANGED drift
    <3>1. Cardinality(At(Owing)') = C + 0 - 0
      BY <2>2, <1>0, NumberMoves
    <3> QED BY <2>1, <2>2, <3>1, <1>0, <1>A, SameCount DEF Count
  <2>3. CASE Goto(a, "idle", "undo") /\ drift' = drift - 1
    <3>1. Cardinality(At(Owing)') = C + 1 - 0
      BY <2>3, <1>0, NumberMoves
    <3> QED BY <2>1, <2>3, <3>1, <1>0, <1>A, SameCount DEF Count
  <2> QED BY <1>9, <2>2, <2>3 DEF BeginDelete
<1>10. CASE Unpublish(a)
  <2>1. Goto(a, "remove", "rundown") /\ UNCHANGED <<entries, drift, num_of_process>>
    BY <1>10 DEF Unpublish, links, num
  <2>2. Cardinality(At(Owing)') = C + 0 - 0
    BY <2>1, <1>0, NumberMoves
  <2> QED BY <2>1, <2>2, <1>0, <1>A, SameCount DEF Count
<1>11. CASE FreeEntry(a)
  <2>1. /\ Goto(a, "unlink", "undo") /\ UNCHANGED <<drift, num_of_process>>
        /\ entries' = Without(entries, node[a])
    BY <1>11 DEF FreeEntry, num
  <2>2. Cardinality(At(Owing)') = C + 1 - 0
    BY <2>1, <1>0, NumberMoves
  <2>3. node[a] \in Listed
    BY <2>1 DEF Inv, Deletions, Deleting, Goto
  <2>4. Len(entries') = Len(entries) - 1
    BY <2>1, <2>3, UnlinkEffect DEF Inv, Types, ListKept
  <2> QED BY <2>1, <2>2, <2>4, <1>0, <1>A, SameCount DEF Count
<1>12. CASE AskUncount(a)
  <2>1. Goto(a, "undo", "uncount") /\ UNCHANGED <<entries, drift, num_of_process>>
    BY <1>12 DEF AskUncount, links, AskNum, heap
  <2>2. Cardinality(At(Owing)') = C + 1 - 1
    BY <2>1, <1>0, NumberMoves
  <2> QED BY <2>1, <2>2, <1>0, <1>A, SameCount DEF Count
<1>13. CASE Uncount(a)
  <2>1. /\ Goto(a, "uncount", "idle") /\ UNCHANGED <<entries, drift>>
        /\ num_of_process' = (num_of_process + UintMod - 1) % UintMod
    BY <1>13 DEF Uncount, links, Return, heap
  <2>2. Cardinality(At(Owing)') = C + 0 - 1
    BY <2>1, <1>0, NumberMoves
  <2>3. Count' = Count - 1
    BY <2>1, <2>2, <1>0, <1>A DEF Count
  <2>4. num_of_process' = Count' % UintMod
    <3>1. UintMod \in Nat \ {0}
      OBVIOUS
    <3>2. ((Count % UintMod) + UintMod - 1) % UintMod = (Count - 1) % UintMod
      BY <3>1, <1>0, CounterWraps
    <3>3. num_of_process = Count % UintMod
      BY DEF NumberInv
    <3> HIDE AdminAssumption
    <3> QED BY <2>1, <2>3, <3>2, <3>3
  <2> QED BY <2>3, <2>4, <1>0 DEF NumberInv
<1>14. CASE InterruptNum(a)
  <2>1. UNCHANGED <<entries, num_of_process>>
    BY <1>14 DEF InterruptNum, links, heap
  <2>2. CASE Goto(a, "limit", "idle") /\ UNCHANGED drift
    <3>1. Cardinality(At(Owing)') = C + 0 - 0
      BY <2>2, <1>0, NumberMoves
    <3> QED BY <2>1, <2>2, <3>1, <1>0, <1>A, SameCount DEF Count
  <2>3. CASE Goto(a, "uncount", "idle") /\ drift' = drift + 1
    <3>1. Cardinality(At(Owing)') = C + 0 - 1
      BY <2>3, <1>0, NumberMoves
    <3> QED BY <2>1, <2>3, <3>1, <1>0, <1>A, SameCount DEF Count
  <2> QED BY <1>14, <2>2, <2>3 DEF InterruptNum, Return
<1> QED BY <1>1, <1>2, <1>3, <1>4, <1>5, <1>6, <1>7, <1>8, <1>9, <1>10, <1>11,
           <1>12, <1>13, <1>14, <1>15, <1>16 DEF AdminStep

(* The books of mtx_num_process balance. *)
LEMMA AdminKeepsBalance ==
    ASSUME Types, NumBalance, NEW a \in Admin, AdminStep(a)
    PROVE  NumBalance'
<1> DEFINE L == {"limit", "uncount"}
<1>1. NumBalance <=> Ledger(mtx_num_process, Admin, At(L), At(L), 1)
  BY DEF NumBalance
<1>2. NumBalance' <=> Ledger(mtx_num_process', Admin, At(L)', At(L)', 1)
  BY DEF NumBalance
<1>3. IsFiniteSet(Admin)
  BY AdminAssumption
<1>4. CASE \E from, to : /\ Goto(a, from, to) /\ from \notin L /\ to \in L
                         /\ mtx_num_process' = Down(mtx_num_process, a)
  <2>1. At(L)' = At(L) \cup {a} /\ a \notin At(L)
    BY <1>4, Moves
  <2> HIDE DEF L
  <2> QED BY <1>1, <1>2, <1>3, <1>4, <2>1, LedgerDown
<1>5. CASE \E from, to : /\ Goto(a, from, to) /\ from \in L /\ to \notin L
                         /\ Granted(mtx_num_process, a)
                         /\ mtx_num_process' = Up(mtx_num_process)
  <2>1. At(L)' = At(L) \ {a} /\ a \in At(L)
    BY <1>5, Moves
  <2> HIDE DEF L
  <2>2. Ledger(mtx_num_process, Admin, At(L) \ {a}, At(L), 1)
    BY <1>1, <1>5, LedgerPass
  <2>3. Ledger(Up(mtx_num_process), Admin, At(L) \ {a}, At(L) \ {a}, 1)
    BY <1>3, <2>1, <2>2, LedgerUp
  <2> QED BY <1>2, <1>5, <2>1, <2>3
<1>6. CASE \E from, to : /\ Goto(a, from, to) /\ from \in L /\ to \notin L
                         /\ ~Granted(mtx_num_process, a)
                         /\ mtx_num_process' = Cancel(mtx_num_process, a)
  <2>1. At(L)' = At(L) \ {a}
    BY <1>6, Moves
  <2> HIDE DEF L
  <2> QED BY <1>1, <1>2, <1>6, <2>1, LedgerCancel
<1>7. CASE \E from, to : /\ Goto(a, from, to) /\ from \notin L /\ to \notin L
                         /\ mtx_num_process' = mtx_num_process
  <2>1. At(L)' = At(L)
    BY <1>7, Moves
  <2> QED BY <1>1, <1>2, <1>7, <2>1
<1>8. \/ BeginNew(a) \/ AskUncount(a)
      \/ CheckLimit(a) \/ Uncount(a) \/ InterruptNum(a)
      \/ CreateFails(a) \/ Publish(a) \/ SetUp(a) \/ SetUpFails(a) \/ Discard(a)
      \/ LinkFirst(a) \/ LinkFields(a) \/ LinkHead(a)
      \/ BeginDelete(a) \/ Unpublish(a) \/ UnlinkBack(a) \/ FreeEntry(a)
  BY DEF AdminStep
<1>9. CASE BeginNew(a) \/ AskUncount(a)
  BY <1>4, <1>9 DEF BeginNew, AskUncount, AskNum
<1>10. CASE CheckLimit(a)
  BY <1>5, <1>10 DEF CheckLimit, Return
<1>11. CASE Uncount(a)
  BY <1>5, <1>11 DEF Uncount, Return
<1>12. CASE InterruptNum(a)
  BY <1>6, <1>12 DEF InterruptNum, Return
<1>13. CASE \/ CreateFails(a) \/ Publish(a) \/ SetUp(a) \/ SetUpFails(a)
            \/ Discard(a) \/ LinkFirst(a) \/ LinkFields(a) \/ LinkHead(a)
  BY <1>7, <1>13 DEF CreateFails, Publish, SetUp, SetUpFails, Discard, LinkFirst,
                     LinkFields, LinkHead, Return, num
<1>14. CASE BeginDelete(a) \/ Unpublish(a) \/ UnlinkBack(a) \/ FreeEntry(a)
  BY <1>7, <1>14 DEF BeginDelete, Unpublish, UnlinkBack, FreeEntry, num
<1> QED BY <1>8, <1>9, <1>10, <1>11, <1>12, <1>13, <1>14
-----------------------------------------------------------------------------
(* The invariant holds                                                     *)

(* The module starts with one entry, which the number counts. *)
LEMMA InitInv ==
    ASSUME Init
    PROVE  AllInv
<1> USE AdminAssumption
<1>1. PICK n \in Node :
          /\ mem = [m \in Node |-> IF m = n THEN TestName ELSE "free"]
          /\ dir = [s \in Name |-> IF s = TestName THEN n ELSE NoNode]
          /\ next = [m \in Node \cup {proc_list} |->
                IF m = n THEN proc_list ELSE IF m = proc_list THEN n ELSE NoNode]
          /\ prev = next
          /\ entries = <<n>>
  BY DEF Init
<1>2. /\ pc = [a \in Admin |-> "idle"] /\ name = [a \in Admin |-> TestName]
      /\ node = [a \in Admin |-> NoNode] /\ inside = [u \in User |-> NoNode]
      /\ num_of_process = 2 /\ drift = 0 /\ overlapped = FALSE
      /\ before = [a \in Admin |-> NoNode] /\ after = [a \in Admin |-> NoNode]
      /\ mtx_num_process = NewSemaphore(1)
  BY DEF Init
<1>3. Types
  BY <1>1, <1>2 DEF Types, Places
<1>4. Listed = {n} /\ Distinct(entries) /\ Len(entries) = 1
  BY <1>1 DEF Listed, Elements, Distinct
<1>5. Creators /\ Deletions /\ UsersKept
  BY <1>2 DEF Creators, Creating, Deletions, Deleting, UsersKept
<1>6. ListKept
  BY <1>1, <1>4 DEF ListKept
<1>7. DirectoryKept
  BY <1>1, <1>4 DEF DirectoryKept, Published
<1>8. NumberInv
  <2>1. At(Owing) = {}
    BY <1>2 DEF At, Owing, Creating
  <2>2. Count = 2
    BY <2>1, <1>2, <1>4, FS_EmptySet DEF Count
  <2>3. UintMod \in Nat \ {0} /\ 2 \in 0..(UintMod - 1) /\ 2 = UintMod * 0 + 2
    OBVIOUS
  <2>4. 2 % UintMod = 2
    BY <2>3, RemainderIs
  <2> QED BY <2>2, <2>4, <1>2 DEF NumberInv
<1>9. NumBalance
  <2>1. At({"limit", "uncount"}) = {}
    BY <1>2 DEF At
  <2>2. /\ IsSemaphore(mtx_num_process, Admin) /\ mtx_num_process.count = 1
        /\ Waiting(mtx_num_process) = {}
    BY <1>2, NewSemaphoreIsOne
  <2>3. Units(mtx_num_process, {}) = 1
    BY <2>2, FS_EmptySet DEF Units
  <2> QED BY <2>1, <2>2, <2>3 DEF NumBalance, Ledger
<1>10. LinksInv
  <2>1. LinkTypes
    BY <1>1, <1>2 DEF LinkTypes, Cell
  <2>2. Pos(0) = proc_list /\ Pos(1) = n /\ Pos(2) = proc_list
    BY <1>1 DEF Pos, Around
  <2>3. 0..Len(entries) = {0, 1} /\ 0 + 1 = 1 /\ 1 + 1 = 2
    BY <1>4
  <2>4. next[proc_list] = n /\ next[n] = proc_list
    BY <1>1
  <2>5. Follows(next, proc_list, entries) /\ Backward({})
    BY <1>1, <2>2, <2>3, <2>4 DEF Follows, Backward, Pos
  <2>6. Changing = {}
    BY <1>2 DEF Changing
  <2> QED BY <2>1, <2>5, <2>6 DEF LinksInv, Orderly
<1> QED BY <1>3, <1>5, <1>6, <1>7, <1>8, <1>9, <1>10 DEF Inv, AllInv

(* A user enters an entry of the directory only, and leaves it. *)
LEMMA UserKeepsInv ==
    ASSUME AllInv, NEW u \in User,
           EnterEntry(u) \/ LeaveEntry(u)
    PROVE  AllInv'
<1> USE AdminAssumption DEF AllInv
<1>1. UNCHANGED <<pc, name, node, mem, dir, entries,
                  num_of_process, mtx_num_process, drift>> /\ UNCHANGED links
  BY DEF EnterEntry, LeaveEntry, heap, num, links
<1>2. PICK m \in Node \cup {NoNode} :
          /\ inside' = [inside EXCEPT ![u] = m]
          /\ m # NoNode => \E s \in Name : dir[s] = m
  BY DEF EnterEntry, LeaveEntry, Inv, Types
<1>3. Types'
  BY <1>1, <1>2 DEF Inv, Types
<1>4. Creators' /\ ListKept' /\ DirectoryKept'
  BY <1>1 DEF Inv, Creators, ListKept, DirectoryKept, Published, Listed
<1>8. Deletions'
  <2> SUFFICES ASSUME NEW b \in Admin, pc[b] = "unlink"
               PROVE  \A v \in User : inside'[v] # node[b]
    BY <1>1 DEF Inv, Deletions, Vacated, Listed
  <2>1. node[b] \in Node /\ \A s \in Name : dir[s] # node[b]
    BY DEF Inv, Deletions, Deleting, Listed, Elements, Types
  <2>2. \A v \in User : inside[v] # node[b]
    BY DEF Inv, Deletions, Deleting, Vacated
  <2> QED BY <1>2, <2>1, <2>2 DEF Inv, Types
<1>9. LinksInv'
  BY <1>1, LinksSame DEF Changing
<1>5. m # NoNode => mem[m] # "free"
  BY <1>2 DEF Inv, DirectoryKept, Published, Creators, Creating, Linking
<1>6. UsersKept'
  BY <1>1, <1>2, <1>5 DEF Inv, Types, UsersKept
<1>7. NumberInv' /\ NumBalance'
  BY <1>1 DEF NumberInv, NumBalance, Count, At
<1> QED BY <1>3, <1>4, <1>6, <1>7, <1>8, <1>9 DEF Inv

(* Every step keeps the invariant, if one process at most deletes. *)
LEMMA NextInv ==
    ASSUME OneDeleter, AllInv, [Next]_vars
    PROVE  AllInv'
<1> USE DEF AllInv
<1>1. ASSUME NEW a \in Admin, AdminStep(a)
      PROVE  Inv'
  BY <1>1, CountingKeepsInv, PublishKeepsInv, SetUpKeepsInv, LinkingKeepsInv,
     LinkHeadKeepsInv, SetUpFailsKeepsInv, DiscardKeepsInv, BeginDeleteKeepsInv,
     UnpublishKeepsInv, FreeEntryKeepsInv DEF AdminStep
<1>2. ASSUME NEW a \in Admin, AdminStep(a)
      PROVE  LinksInv' /\ NumberInv' /\ NumBalance'
  BY <1>2, AdminKeepsLinks, AdminKeepsNumber, AdminKeepsBalance DEF Inv
<1>3. CASE UNCHANGED vars
  <2>1. LinksInv'
    BY <1>3, LinksSame DEF vars, Changing
  <2>2. Inv'
    BY <1>3 DEF vars, heap, links, num, Inv, Types, Creators, Deletions, Vacated,
                ListKept, Listed, DirectoryKept, Published, UsersKept
  <2> QED BY <1>3, <2>1, <2>2 DEF vars, links, num, NumberInv, NumBalance, Count, At
<1> QED BY <1>1, <1>2, <1>3, UserKeepsInv DEF Next

(* The invariant holds in every state, if one process at most deletes. *)
THEOREM InvHolds == OneDeleter /\ Spec => []AllInv
<1> SUFFICES ASSUME OneDeleter
             PROVE  Spec => []AllInv
  OBVIOUS
<1>1. Init => AllInv
  BY InitInv
<1>2. AllInv /\ [Next]_vars => AllInv'
  BY NextInv
<1> QED BY <1>1, <1>2, PTL DEF Spec
-----------------------------------------------------------------------------
(* What follows                                                            *)

(* Two names never lead to the same entry. *)
LEMMA DirectoryInjective ==
    ASSUME Inv, NEW s \in Published, NEW t \in Published, dir[s] = dir[t]
    PROVE  s = t
BY DEF Inv, DirectoryKept, Creators, Creating, Linking

(* The names of the directory are finitely many. *)
LEMMA PublishedFinite ==
    IsFiniteSet(Published) /\ Cardinality(Published) \in Nat
<1>1. Published \subseteq Name
  BY DEF Published
<1> QED BY <1>1, AdminAssumption, FS_Subset, FS_CardinalityType

(* With nobody at work, directory and list should hold the same entries. *)
LEMMA InvEntries ==
    ASSUME Inv, Quiet
    PROVE  /\ Cardinality(Published) = Len(entries)
           /\ \A n \in Listed : dir[mem[n]] = n
<1>1. \A n \in Listed : mem[n] \in Name /\ dir[mem[n]] = n /\ n \in Node
  BY DEF Quiet, Inv, ListKept, Types, Listed, Elements
<1>2. \A s \in Published : dir[s] \in Listed
  BY DEF Quiet, Inv, DirectoryKept, Linking
<1> DEFINE f == [s \in Published |-> dir[s]]
<1>3. f \in [Published -> Listed]
  BY <1>2
<1>4. f \in Surjection(Published, Listed)
  <2>1. ASSUME NEW n \in Listed
        PROVE  \E s \in Published : f[s] = n
    <3>1. mem[n] \in Published /\ f[mem[n]] = n
      BY <1>1, AdminAssumption DEF Published
    <3> QED BY <3>1
  <2> QED BY <1>3, <2>1 DEF Surjection
<1>5. f \in Injection(Published, Listed)
  BY <1>3, DirectoryInjective DEF Injection, IsInjective
<1>6. Cardinality(Listed) = Cardinality(Published)
  BY <1>4, <1>5, PublishedFinite, FS_Surjection
<1>7. Cardinality(Listed) = Len(entries)
  BY LengthIsNumber DEF Inv, Types, ListKept, Listed
<1> QED BY <1>1, <1>6, <1>7

(* And they do, if no two changes have overlapped: then all links are right. *)
LEMMA InvDirectory ==
    ASSUME Inv, LinksInv
    PROVE  DirectoryMatchesList
<1> SUFFICES ASSUME Quiet, ~overlapped
             PROVE  LET ring == <<proc_list>> \o Listing \o <<proc_list>>
                    IN  /\ Cardinality(Published) = Len(Listing)
                        /\ \A i \in DOMAIN Listing : dir[mem[Listing[i]]] = Listing[i]
                        /\ \A i \in 1..(Len(Listing) + 1) : prev[ring[i + 1]] = ring[i]
  BY DEF DirectoryMatchesList
<1>1. Listing = entries /\ entries \in Seq(Node)
  BY ListingIs DEF Inv, Types
<1>2. /\ Cardinality(Published) = Len(entries)
      /\ \A i \in DOMAIN entries : dir[mem[entries[i]]] = entries[i]
  BY <1>1, InvEntries DEF Listed, Elements
<1>3. Backward({})
  BY DEF LinksInv, Orderly, Changing, Quiet
<1> DEFINE ring == <<proc_list>> \o entries \o <<proc_list>>
<1>4. \A k \in 0..(Len(entries) + 1) : ring[k + 1] = Pos(k)
  <2>1. \A k \in 0..(Len(entries) + 1) : Pos(k) = Around(entries, proc_list, k)
    BY DEF Pos
  <2>2. Len(entries) \in Nat
    BY <1>1
  <2> QED BY <1>1, <2>1, <2>2, RingAround
<1>5. \A i \in 1..(Len(entries) + 1) : prev[ring[i + 1]] = ring[i]
  <2> SUFFICES ASSUME NEW i \in 1..(Len(entries) + 1)
               PROVE  prev[ring[i + 1]] = ring[i]
    OBVIOUS
  <2>1. /\ i - 1 \in 0..Len(entries) /\ i - 1 \in 0..(Len(entries) + 1)
        /\ (i - 1) + 1 = i /\ i \in 0..(Len(entries) + 1)
    BY <1>1
  <2>2. ring[i + 1] = Pos(i) /\ ring[(i - 1) + 1] = Pos(i - 1)
    BY <2>1, <1>4
  <2>3. prev[Pos((i - 1) + 1)] = Pos(i - 1)
    BY <2>1, <1>3 DEF Backward
  <2> QED BY <2>1, <2>2, <2>3
<1> QED BY <1>1, <1>2, <1>5

(* With nobody at work there are no debts. *)
LEMMA InvNumber ==
    ASSUME Inv, NumberInv
    PROVE  NumberMatchesDirectory
<1> SUFFICES ASSUME Quiet
             PROVE  num_of_process
                      = (Cardinality(Published) + 1 + drift + UintMod) % UintMod
  BY DEF NumberMatchesDirectory
<1>1. At(Owing) = {}
  BY DEF Quiet, At, Owing, Creating
<1>2. Count = Cardinality(Published) + 1 + drift
  <2>1. Len(entries) = Cardinality(Published) /\ Len(entries) \in Nat /\ drift \in Int
    BY InvEntries DEF Inv, Types
  <2>2. Cardinality(At(Owing)) = 0
    BY <1>1, FS_EmptySet
  <2> QED BY <2>1, <2>2 DEF Count
<1>3. Count \in Int /\ UintMod \in Nat \ {0}
  BY CountType, AdminAssumption DEF Inv
<1>4. (Count + UintMod) % UintMod = Count % UintMod
  BY <1>3, WholeTurn
<1> QED BY <1>2, <1>4 DEF NumberInv

(* Each entry of the directory is one of the list, or one that a creator is
   about to put there. *)
LEMMA InvLimit ==
    ASSUME Inv, NumberInv
    PROVE  LimitDriftsOnly
<1> DEFINE T == At({"setup"} \cup Linking)
           h == [a \in T |-> node[a]]
           R == {node[a] : a \in T}
           f == [s \in Published |-> dir[s]]
<1>1. IsFiniteSet(T) /\ Cardinality(T) \in Nat
  BY AtFinite
<1>2. IsFiniteSet(R) /\ Cardinality(R) <= Cardinality(T)
  <2>1. h \in Surjection(T, R)
    BY DEF Surjection
  <2> HIDE DEF h, R, T
  <2> QED BY <1>1, <2>1, FS_Surjection
<1>3. IsFiniteSet(Listed) /\ Cardinality(Listed) = Len(entries)
  BY LengthIsNumber DEF Inv, Types, ListKept, Listed
<1>4. /\ IsFiniteSet(Listed \cup R)
      /\ Cardinality(Listed \cup R) <= Cardinality(Listed) + Cardinality(R)
  <2> HIDE DEF R
  <2>1. Cardinality(Listed \cup R)
           = Cardinality(Listed) + Cardinality(R) - Cardinality(Listed \cap R)
    BY <1>2, <1>3, FS_Union
  <2>2. /\ Cardinality(Listed \cap R) \in Nat /\ Cardinality(Listed) \in Nat
        /\ Cardinality(R) \in Nat
    BY <1>2, <1>3, FS_Intersection, FS_CardinalityType
  <2> QED BY <1>2, <1>3, <2>1, <2>2, FS_Union
<1>5. f \in [Published -> Listed \cup R]
  BY DEF Inv, DirectoryKept, At
<1>6. f \in Injection(Published, Listed \cup R)
  BY <1>5, DirectoryInjective DEF Injection, IsInjective
<1>7. Cardinality(Published) <= Cardinality(Listed \cup R)
  <2> HIDE DEF f, R
  <2> QED BY <1>4, <1>6, FS_Injection
<1>8. Cardinality(T) <= Cardinality(At(Owing))
  <2>1. T \subseteq At(Owing)
    BY DEF At, Owing, Creating, Linking
  <2> QED BY <2>1, AtFinite, FS_Subset
<1>9. /\ Cardinality(Published) \in Nat /\ Cardinality(Listed \cup R) \in Nat
      /\ Cardinality(R) \in Nat
  BY <1>2, <1>4, PublishedFinite, FS_CardinalityType
<1> HIDE DEF T, R
<1>10. Cardinality(Published) <= Len(entries) + Cardinality(At(Owing))
  BY <1>1, <1>2, <1>3, <1>4, <1>7, <1>8, <1>9, CountType DEF Inv
<1>11. Len(entries) + 1 + drift + Cardinality(At(Owing)) <= max_entries + 1
  BY DEF NumberInv, Count
<1> QED BY <1>9, <1>10, <1>11, CountType, AdminAssumption
        DEF LimitDriftsOnly, Inv, Types

(* What the list names is set up, so the types that the run checks hold. *)
LEMMA InvTypes ==
    ASSUME Inv, LinksInv, NumBalance
    PROVE  TypeOK
<1>1. entries \in Seq({n \in Node : mem[n] \in Name})
  <2> DEFINE M == {n \in Node : mem[n] \in Name}
  <2>1. \A i \in 1..Len(entries) : entries[i] \in M
    BY DEF Inv, Types, ListKept, Listed, Elements
  <2> HIDE DEF M
  <2>2. entries \in Seq(M)
    <3>1. entries = [i \in 1..Len(entries) |-> entries[i]]
          /\ Len(entries) \in Nat
      BY LenProperties DEF Inv, Types
    <3>2. entries \in [1..Len(entries) -> M]
      BY <2>1, <3>1
    <3> QED BY <3>1, <3>2, IsSequence
  <2> QED BY <2>2 DEF M
<1>2. IsSemaphore(mtx_num_process, Admin)
  BY DEF NumBalance, Ledger
<1> QED BY <1>1, <1>2 DEF Inv, Types, LinksInv, LinkTypes, Cell, TypeOK

(* Every variable keeps its type. *)
THEOREM TypeCorrect == OneDeleter /\ Spec => []TypeOK
<1>1. AllInv => TypeOK
  BY InvTypes DEF AllInv
<1> QED BY <1>1, InvHolds, PTL

(* However many administrators create entries while one deletes them, and
   whatever signals come, no user is ever inside an entry that has been freed,
   and no name leads to one (remove_proc_entry before vfree, 238 and 269). *)
THEOREM NobodyInFreedEntry == OneDeleter /\ Spec => []NoUseAfterFree
<1>1. AllInv => NoUseAfterFree
  BY AdminAssumption DEF AllInv, Inv, UsersKept, DirectoryKept, Published, Creators,
     Creating, Linking, NoUseAfterFree
<1> QED BY <1>1, InvHolds, PTL

(* As long as no two changes of the list overlap, between commands the links of
   the list go through the entries of the directory, each once and under its own
   name, in both directions: for any number of administrators of whom one
   deletes, whose searches and failures may fall anywhere in the changes of the
   others.  Nothing is claimed of the list once list_add (256) or list_del (273),
   which take no lock, have run into each other. *)
THEOREM SameEntries == OneDeleter /\ Spec => []DirectoryMatchesList
<1>1. AllInv => DirectoryMatchesList
  BY InvDirectory DEF AllInv
<1> QED BY <1>1, InvHolds, PTL

(* Between commands num_of_process is the number of entries of the directory
   plus one, but for the drift, wherever the unsigned int wraps: every other path
   of admin_write gives back what it counted.  This does not rest on the links:
   it holds as well after additions that have cut an entry out of the list, as
   far as the model follows them (no deletion begins then). *)
THEOREM NumberCounts == OneDeleter /\ Spec => []NumberMatchesDirectory
<1>1. AllInv => NumberMatchesDirectory
  BY InvNumber DEF AllInv
<1> QED BY <1>1, InvHolds, PTL

(* The maximum of entries is exceeded by deletes of entries that do not exist,
   by one entry each, and in no other way, at any moment. *)
THEOREM LimitKept == OneDeleter /\ Spec => []LimitDriftsOnly
<1>1. AllInv => LimitDriftsOnly
  BY InvLimit DEF AllInv
<1> QED BY <1>1, InvHolds, PTL
=============================================================================
