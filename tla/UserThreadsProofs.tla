-------------------------- MODULE UserThreadsProofs ---------------------------
(***************************************************************************)
(* Proofs about user.c on multipc.c, for any number of processes, threads  *)
(* and entries, and any size of the rings.                                 *)
(*                                                                         *)
(* The books of an entry are those of its two semaphores, as in            *)
(* MultipcEntry: the slots that are no items are units of huecos, and the  *)
(* items are units of elementos, free or in the hands of a thread inside.  *)
(* They balance until the entry is freed, whatever threads are killed.     *)
(***************************************************************************)
EXTENDS UserThreads, CommonLemmas

\* The threads of a role that are inside the entry e.
Inside(e, role) == {t \in role : file[t] = e /\ at[t] = "sem"}

Types ==
    /\ main \in [Process -> {"creating", "joining", "dying"}]
    /\ at \in [Thread -> {"unborn", "open", "call", "sem", "sleep", "dead"}]
    /\ file \in [Thread -> Entry \cup {NoEntry}]
    /\ dir \in Entry \cup {NoEntry}
    /\ life \in [Entry -> {"unused", "live", "removing", "freed"}]
    /\ items \in [Entry -> 0..max_size]
    /\ huecos \in [Entry -> [count : Nat, queue : Seq(Writers)]]
    /\ elementos \in [Entry -> [count : Nat, queue : Seq(Readers)]]
    /\ \A e \in Entry :
          IsSemaphore(huecos[e], Writers) /\ IsSemaphore(elementos[e], Readers)
    /\ refs \in Nat
    /\ module \in {"loaded", "going", "gone"}

\* Where threads and entries can be.
Places ==
    /\ \A t \in Thread : file[t] # NoEntry <=> at[t] \in {"call", "sem", "sleep"}
    /\ \A t \in Thread : at[t] = "sem" => life[file[t]] \in {"live", "removing"}
    /\ dir # NoEntry => life[dir] = "live"
    /\ module = "gone" => \A e \in Entry : life[e] \in {"unused", "freed"}

\* The books of one entry.
SlotBooks(e) ==
    Ledger(huecos[e], Writers, Inside(e, Writers), Inside(e, Writers),
           max_size - items[e])
ItemBooks(e) ==
    Ledger(elementos[e], Readers, Inside(e, Readers), Inside(e, Readers), items[e])

Books == \A e \in Entry : life[e] # "freed" => SlotBooks(e) /\ ItemBooks(e)

\* The open files that count, and the entries being removed.
Files == {t \in Thread : file[t] # NoEntry /\ life[file[t]] # "freed"}
Removing == {e \in Entry : life[e] = "removing"}

\* The inductive invariant.
Inv ==
    /\ Types
    /\ Places
    /\ Books
    /\ RefsExact
-----------------------------------------------------------------------------
(* Only t moves, of all threads. *)
OnlyMoves(t) ==
    \A u \in Thread \ {t} : at'[u] = at[u] /\ file'[u] = file[u]

(* Threads are finitely many, and each has one role. *)
LEMMA Roles ==
    /\ IsFiniteSet(Thread) /\ IsFiniteSet(Readers) /\ IsFiniteSet(Writers)
    /\ \A t \in Thread : t \in Readers <=> t \notin Writers
<1>1. Readers \subseteq Thread /\ Writers \subseteq Thread
  BY DEF Thread
<1> QED BY <1>1, FS_Subset, UserAssumption DEF Thread

(* The entry of a thread inside is one that is not freed. *)
LEMMA InsideAnEntry ==
    ASSUME Types, Places, NEW t \in Thread, at[t] \in {"call", "sem", "sleep"}
    PROVE  /\ file[t] \in Entry
           /\ at[t] = "sem" => life[file[t]] \in {"live", "removing"}
BY DEF Types, Places

(* The books of an entry that the step does not concern. *)
LEMMA BooksStay ==
    ASSUME Types, Books, NEW e \in Entry, life[e] # "freed",
           huecos'[e] = huecos[e], elementos'[e] = elementos[e], items'[e] = items[e],
           \A t \in Thread : (file'[t] = e /\ at'[t] = "sem")
                                <=> (file[t] = e /\ at[t] = "sem")
    PROVE  SlotBooks(e)' /\ ItemBooks(e)'
<1>1. Inside(e, Writers)' = Inside(e, Writers) /\ Inside(e, Readers)' = Inside(e, Readers)
  BY DEF Inside, Thread
<1> QED BY <1>1 DEF Books, SlotBooks, ItemBooks

\* A step of t changes the semaphores and the items of its own entry only.
OwnEntry(t) ==
    /\ OnlyMoves(t) /\ file' = file /\ life' = life
    /\ \A e \in Entry \ {file[t]} : /\ huecos'[e] = huecos[e]
                                    /\ elementos'[e] = elementos[e]
                                    /\ items'[e] = items[e]

(* It is enough to balance the books of that entry. *)
LEMMA BooksOfOne ==
    ASSUME Types, Books, NEW t \in Thread, OwnEntry(t),
           NEW f \in Entry, f = file[t], SlotBooks(f)' /\ ItemBooks(f)'
    PROVE  Books'
<1> SUFFICES ASSUME NEW e \in Entry, life[e] # "freed"
             PROVE  SlotBooks(e)' /\ ItemBooks(e)'
  BY DEF Books, OwnEntry
<1>1. CASE e = f
  BY <1>1
<1>2. CASE e # f
  <2>1. \A u \in Thread : (file'[u] = e /\ at'[u] = "sem")
                             <=> (file[u] = e /\ at[u] = "sem")
    BY <1>2 DEF OwnEntry, OnlyMoves
  <2>2. huecos'[e] = huecos[e] /\ elementos'[e] = elementos[e] /\ items'[e] = items[e]
    BY <1>2 DEF OwnEntry
  <2> QED BY <2>1, <2>2, BooksStay
<1> QED BY <1>1, <1>2
-----------------------------------------------------------------------------
(* The calls                                                               *)

(* A thread calls down on the first semaphore of read or write. *)
LEMMA CallBooks ==
    ASSUME Types, Places, Books, NEW t \in Thread, Call(t)
    PROVE  Books'
<1>0. PICK e \in Entry : e = file[t]
  BY InsideAnEntry DEF Call, Goto
<1>1. /\ e = file[t] /\ life[e] = "live" /\ OwnEntry(t)
      /\ at[t] = "call" /\ at'[t] = "sem" /\ items'[e] = items[e]
  BY <1>0 DEF Call, Goto, OwnEntry, OnlyMoves, Types
<1>2. SlotBooks(e) /\ ItemBooks(e)
  BY <1>1 DEF Books
<1>3. CASE /\ t \in Readers /\ elementos' = [elementos EXCEPT ![e] = Down(@, t)]
           /\ huecos' = huecos
  <2>1. /\ Inside(e, Readers)' = Inside(e, Readers) \cup {t} /\ t \notin Inside(e, Readers)
        /\ Inside(e, Writers)' = Inside(e, Writers)
    BY <1>1, <1>3, Roles DEF Inside, OwnEntry, OnlyMoves, Thread
  <2>2. elementos'[e] = Down(elementos[e], t)
    BY <1>1, <1>3 DEF Types
  <2>3. ItemBooks(e)'
    BY <1>1, <1>2, <1>3, <2>1, <2>2, Roles, LedgerDown DEF ItemBooks, OwnEntry
  <2>4. SlotBooks(e)'
    BY <1>1, <1>2, <1>3, <2>1 DEF SlotBooks, OwnEntry
  <2> QED BY <1>1, <2>3, <2>4, BooksOfOne
<1>4. CASE /\ t \in Writers /\ huecos' = [huecos EXCEPT ![e] = Down(@, t)]
           /\ elementos' = elementos
  <2>1. /\ Inside(e, Writers)' = Inside(e, Writers) \cup {t} /\ t \notin Inside(e, Writers)
        /\ Inside(e, Readers)' = Inside(e, Readers)
    BY <1>1, <1>4, Roles DEF Inside, OwnEntry, OnlyMoves, Thread
  <2>2. huecos'[e] = Down(huecos[e], t)
    BY <1>1, <1>4 DEF Types
  <2>3. SlotBooks(e)'
    BY <1>1, <1>2, <1>4, <2>1, <2>2, Roles, LedgerDown DEF SlotBooks, OwnEntry
  <2>4. ItemBooks(e)'
    BY <1>1, <1>2, <1>4, <2>1 DEF ItemBooks, OwnEntry
  <2> QED BY <1>1, <2>3, <2>4, BooksOfOne
<1> QED BY <1>1, <1>3, <1>4 DEF Call

(* A reader has an item: one item less, one slot more. *)
LEMMA ReadBooks ==
    ASSUME Types, Places, Books, NEW t \in Thread, Read(t)
    PROVE  Books' /\ items' \in [Entry -> 0..max_size]
<1>0. PICK e \in Entry : e = file[t]
  BY InsideAnEntry DEF Read, Goto
<1>1. /\ e = file[t] /\ life[e] # "freed" /\ OwnEntry(t) /\ t \in Readers
      /\ at[t] = "sem" /\ at'[t] = "sleep" /\ items'[e] = items[e] - 1
      /\ huecos'[e] = Up(huecos[e]) /\ elementos'[e] = elementos[e]
      /\ Granted(elementos[e], t)
  BY <1>0, InsideAnEntry DEF Read, Goto, OwnEntry, OnlyMoves, Types, Unit
<1>2. SlotBooks(e) /\ ItemBooks(e)
  BY <1>1 DEF Books
<1>3. /\ Inside(e, Readers)' = Inside(e, Readers) \ {t} /\ t \in Inside(e, Readers)
      /\ Inside(e, Writers)' = Inside(e, Writers)
  BY <1>1, Roles DEF Inside, OwnEntry, OnlyMoves, Thread
<1>4. items[e] > 0 /\ items[e] \in 0..max_size /\ max_size \in Nat
  <2>1. items[e] > 0
    BY <1>1, <1>2, <1>3, Roles, LedgerHolder DEF ItemBooks
  <2> QED BY <2>1, UserAssumption DEF Types
<1>5. ItemBooks(e)'
  <2>1. Ledger(elementos[e], Readers, Inside(e, Readers) \ {t}, Inside(e, Readers), items[e])
    BY <1>1, <1>2, LedgerPass DEF ItemBooks
  <2>2. Ledger(elementos[e], Readers, Inside(e, Readers) \ {t}, Inside(e, Readers) \ {t},
               items[e] - 1)
    BY <1>3, <2>1, Roles, LedgerLeave
  <2> QED BY <1>1, <1>3, <2>2 DEF ItemBooks
<1>6. SlotBooks(e)'
  <2>1. Ledger(Up(huecos[e]), Writers, Inside(e, Writers), Inside(e, Writers),
               max_size - items[e] + 1)
    BY <1>2, Roles, LedgerMore DEF SlotBooks
  <2>2. max_size - items[e] + 1 = max_size - items'[e]
    BY <1>1, <1>4
  <2> QED BY <1>1, <1>3, <2>1, <2>2 DEF SlotBooks
<1>7. items' \in [Entry -> 0..max_size]
  BY <1>1, <1>4 DEF Types, Read
<1> QED BY <1>1, <1>5, <1>6, <1>7, BooksOfOne

(* A writer has a slot: one item more. *)
LEMMA WriteBooks ==
    ASSUME Types, Places, Books, NEW t \in Thread, Write(t)
    PROVE  Books' /\ items' \in [Entry -> 0..max_size]
<1>0. PICK e \in Entry : e = file[t]
  BY InsideAnEntry DEF Write, Goto
<1>1. /\ e = file[t] /\ life[e] # "freed" /\ OwnEntry(t) /\ t \in Writers
      /\ at[t] = "sem" /\ at'[t] = "sleep" /\ items'[e] = items[e] + 1
      /\ elementos'[e] = Up(elementos[e]) /\ huecos'[e] = huecos[e]
      /\ Granted(huecos[e], t)
  BY <1>0, InsideAnEntry, Roles DEF Write, Goto, OwnEntry, OnlyMoves, Types, Unit
<1>2. SlotBooks(e) /\ ItemBooks(e)
  BY <1>1 DEF Books
<1>3. /\ Inside(e, Writers)' = Inside(e, Writers) \ {t} /\ t \in Inside(e, Writers)
      /\ Inside(e, Readers)' = Inside(e, Readers)
  BY <1>1, Roles DEF Inside, OwnEntry, OnlyMoves, Thread
<1>4. max_size - items[e] > 0 /\ items[e] \in 0..max_size /\ max_size \in Nat
  <2>1. max_size - items[e] > 0
    BY <1>1, <1>2, <1>3, Roles, LedgerHolder DEF SlotBooks
  <2> QED BY <2>1, UserAssumption DEF Types
<1>5. SlotBooks(e)'
  <2>1. Ledger(huecos[e], Writers, Inside(e, Writers) \ {t}, Inside(e, Writers),
               max_size - items[e])
    BY <1>1, <1>2, LedgerPass DEF SlotBooks
  <2>2. Ledger(huecos[e], Writers, Inside(e, Writers) \ {t}, Inside(e, Writers) \ {t},
               max_size - items[e] - 1)
    BY <1>3, <2>1, Roles, LedgerLeave
  <2>3. max_size - items[e] - 1 = max_size - items'[e]
    BY <1>1, <1>4
  <2> QED BY <1>1, <1>3, <2>2, <2>3 DEF SlotBooks
<1>6. ItemBooks(e)'
  <2>1. Ledger(Up(elementos[e]), Readers, Inside(e, Readers), Inside(e, Readers),
               items[e] + 1)
    BY <1>2, Roles, LedgerMore DEF ItemBooks
  <2> QED BY <1>1, <1>3, <2>1 DEF ItemBooks
<1>7. items' \in [Entry -> 0..max_size]
  BY <1>1, <1>4 DEF Types, Write
<1> QED BY <1>1, <1>5, <1>6, <1>7, BooksOfOne

(* A killed thread gives its unit back, or its place in the queue. *)
LEMMA UndoneLedger ==
    ASSUME NEW P, IsFiniteSet(P), NEW sem, NEW T, NEW n, Ledger(sem, P, T, T, n),
           NEW t \in T
    PROVE  Ledger(Undone(sem, t), P, T \ {t}, T \ {t}, n)
<1>1. CASE Granted(sem, t)
  <2>1. Ledger(sem, P, T \ {t}, T, n)
    BY <1>1, LedgerPass
  <2>2. Ledger(Up(sem), P, T \ {t}, T \ {t}, n)
    BY <2>1, LedgerUp
  <2> QED BY <1>1, <2>2 DEF Undone
<1>2. CASE ~Granted(sem, t)
  BY <1>2, LedgerCancel DEF Undone
<1> QED BY <1>1, <1>2

LEMMA InterruptedBooks ==
    ASSUME Types, Places, Books, NEW t \in Thread, Interrupted(t)
    PROVE  Books'
<1>0. PICK e \in Entry : e = file[t]
  BY InsideAnEntry DEF Interrupted, Goto
<1>1. /\ e = file[t] /\ life[e] # "freed" /\ OwnEntry(t)
      /\ at[t] = "sem" /\ at'[t] = "sleep" /\ items'[e] = items[e]
  BY <1>0, InsideAnEntry DEF Interrupted, Goto, OwnEntry, OnlyMoves, Types
<1>2. SlotBooks(e) /\ ItemBooks(e)
  BY <1>1 DEF Books
<1>3. CASE /\ t \in Readers /\ elementos' = [elementos EXCEPT ![e] = Undone(@, t)]
           /\ huecos' = huecos
  <2>1. /\ Inside(e, Readers)' = Inside(e, Readers) \ {t} /\ t \in Inside(e, Readers)
        /\ Inside(e, Writers)' = Inside(e, Writers)
    BY <1>1, <1>3, Roles DEF Inside, OwnEntry, OnlyMoves, Thread
  <2>2. elementos'[e] = Undone(elementos[e], t)
    BY <1>1, <1>3 DEF Types
  <2>3. ItemBooks(e)'
    BY <1>1, <1>2, <1>3, <2>1, <2>2, Roles, UndoneLedger DEF ItemBooks, OwnEntry
  <2>4. SlotBooks(e)'
    BY <1>1, <1>2, <1>3, <2>1 DEF SlotBooks, OwnEntry
  <2> QED BY <1>1, <2>3, <2>4, BooksOfOne
<1>4. CASE /\ t \in Writers /\ huecos' = [huecos EXCEPT ![e] = Undone(@, t)]
           /\ elementos' = elementos
  <2>1. /\ Inside(e, Writers)' = Inside(e, Writers) \ {t} /\ t \in Inside(e, Writers)
        /\ Inside(e, Readers)' = Inside(e, Readers)
    BY <1>1, <1>4, Roles DEF Inside, OwnEntry, OnlyMoves, Thread
  <2>2. huecos'[e] = Undone(huecos[e], t)
    BY <1>1, <1>4 DEF Types
  <2>3. SlotBooks(e)'
    BY <1>1, <1>2, <1>4, <2>1, <2>2, Roles, UndoneLedger DEF SlotBooks, OwnEntry
  <2>4. ItemBooks(e)'
    BY <1>1, <1>2, <1>4, <2>1 DEF ItemBooks, OwnEntry
  <2> QED BY <1>1, <2>3, <2>4, BooksOfOne
<1> QED BY <1>1, <1>3, <1>4 DEF Interrupted
-----------------------------------------------------------------------------
(* The other steps                                                         *)

Transfer(t) == Call(t) \/ Read(t) \/ Write(t) \/ Interrupted(t)

\* A step that is none of them.
OtherStep ==
    \/ \E p \in Process : MainStep(p) \/ InterruptProgram(p)
    \/ \E t \in Thread :
          Open(t) \/ OpenFails(t) \/ CallFails(t) \/ Close(t) \/ Die(t)
    \/ NewEntry \/ DeleteEntry \/ BeginUnload \/ RemovalStep

\* Nobody goes in or out, and the entries that are not freed keep their state.
NobodyMoves ==
    /\ \A t \in Thread : /\ at'[t] = "sem" <=> at[t] = "sem"
                         /\ at[t] = "sem" => file'[t] = file[t]
    /\ \A e \in Entry : life'[e] # "freed" =>
          /\ life[e] # "freed"
          /\ items'[e] = items[e]
    /\ huecos' = huecos /\ elementos' = elementos

(* Types and places, in all of these steps. *)
LEMMA OtherPlaces ==
    ASSUME Types, Places, OtherStep
    PROVE  Types' /\ Places' /\ NobodyMoves
<1> USE UserAssumption DEF Types, Places, NobodyMoves, entries
<1>1. ASSUME NEW p \in Process, MainStep(p) \/ InterruptProgram(p)
      PROVE  Types' /\ Places' /\ NobodyMoves
  <2>1. CASE CreateThread(p)
    <3>1. PICK t \in Thread : at[t] = "unborn" /\ at' = [at EXCEPT ![t] = "open"]
      BY <2>1 DEF CreateThread, Threads, Goto
    <3> QED BY <2>1, <3>1 DEF CreateThread
  <2>2. CASE AllCreated(p) \/ BadArgument(p) \/ InterruptProgram(p)
    <3>1. /\ UNCHANGED <<at, file, entries, refs, module>>
          /\ main' \in [Process -> {"creating", "joining", "dying"}]
      BY <2>2 DEF AllCreated, BadArgument, InterruptProgram, Kill
    <3> QED BY <3>1
  <2> QED BY <1>1, <2>1, <2>2 DEF MainStep
<1>2. ASSUME NEW t \in Thread, Open(t) \/ OpenFails(t) \/ CallFails(t) \/ Close(t)
      PROVE  Types' /\ Places' /\ NobodyMoves
  <2>1. CASE Open(t)
    BY <2>1 DEF Open, Goto, Get
  <2>2. CASE OpenFails(t)
    BY <2>2 DEF OpenFails, Kill
  <2>3. CASE CallFails(t)
    BY <2>3 DEF CallFails, Goto
  <2>4. CASE Close(t)
    <3>1. refs' \in Nat
      BY <2>4 DEF Close, Release, Put
    <3> QED BY <2>4, <3>1 DEF Close, Goto
  <2> QED BY <1>2, <2>1, <2>2, <2>3, <2>4
<1>3. ASSUME NEW t \in Thread, Die(t)
      PROVE  Types' /\ Places' /\ NobodyMoves
  <2>1. refs' \in Nat
    BY <1>3 DEF Die, Release, Put
  <2> QED BY <1>3, <2>1 DEF Die
<1>4. CASE NewEntry
  BY <1>4 DEF NewEntry
<1>5. CASE DeleteEntry
  BY <1>5 DEF DeleteEntry, Unpublish, Get
<1>6. CASE BeginUnload
  BY <1>6 DEF BeginUnload
<1>7. CASE UnloadEntry
  BY <1>7 DEF UnloadEntry, Unpublish
<1>8. CASE EndUnload
  BY <1>8 DEF EndUnload
<1>9. ASSUME NEW e \in Entry, FreeEntry(e)
      PROVE  Types' /\ Places' /\ NobodyMoves
  <2>1. Cardinality(Opened(e)) \in Nat
    BY Roles, FS_Subset, FS_CardinalityType DEF Opened
  <2>2. refs' \in Nat
    BY <1>9, <2>1 DEF FreeEntry, Put
  <2>3. /\ life[e] = "removing" /\ life' = [life EXCEPT ![e] = "freed"]
        /\ \A t \in Thread : file[t] = e => at[t] # "sem"
        /\ items' = [items EXCEPT ![e] = 0]
        /\ UNCHANGED <<main, at, file, dir, huecos, elementos, module>>
    BY <1>9 DEF FreeEntry, Vacated, Opened
  <2>4. Types'
    BY <2>2, <2>3
  <2>5. Places'
    BY <2>3
  <2>6. NobodyMoves
    BY <2>3
  <2> QED BY <2>4, <2>5, <2>6
<1> QED BY <1>1, <1>2, <1>3, <1>4, <1>5, <1>6, <1>7, <1>8, <1>9
        DEF OtherStep, RemovalStep

LEMMA OtherBooks ==
    ASSUME Types, Books, NobodyMoves
    PROVE  Books'
<1> SUFFICES ASSUME NEW e \in Entry, life'[e] # "freed"
             PROVE  SlotBooks(e)' /\ ItemBooks(e)'
  BY DEF Books
<1>1. \A t \in Thread : (file'[t] = e /\ at'[t] = "sem")
                            <=> (file[t] = e /\ at[t] = "sem")
  BY DEF NobodyMoves
<1>2. /\ life[e] # "freed" /\ items'[e] = items[e]
      /\ huecos'[e] = huecos[e] /\ elementos'[e] = elementos[e]
  BY DEF NobodyMoves
<1> QED BY <1>1, <1>2, BooksStay

(* Types and places, in the calls. *)
LEMMA TransferPlaces ==
    ASSUME Types, Places, Books, NEW t \in Thread, Transfer(t)
    PROVE  Types' /\ Places' /\ Books'
<1>0. PICK e \in Entry : e = file[t]
  BY InsideAnEntry DEF Transfer, Call, Read, Write, Interrupted, Goto
<1>1. Books' /\ items' \in [Entry -> 0..max_size]
  BY CallBooks, ReadBooks, WriteBooks, InterruptedBooks
     DEF Transfer, Call, Interrupted, Types
<1>2. /\ life[e] # "freed" /\ life' = life /\ module' = module /\ file' = file
      /\ dir' = dir /\ refs' = refs /\ main' = main
      /\ \E h : huecos' = [huecos EXCEPT ![e] = h]
      /\ \E h : elementos' = [elementos EXCEPT ![e] = h]
  <2>1. huecos = [huecos EXCEPT ![e] = @] /\ elementos = [elementos EXCEPT ![e] = @]
    BY DEF Types
  <2> QED BY <1>0, <2>1, InsideAnEntry DEF Transfer, Call, Read, Write, Interrupted, Goto
<1>3. \A f \in Entry : IsSemaphore(huecos'[f], Writers) /\ IsSemaphore(elementos'[f], Readers)
  <2> SUFFICES ASSUME NEW f \in Entry
               PROVE  IsSemaphore(huecos'[f], Writers) /\ IsSemaphore(elementos'[f], Readers)
    OBVIOUS
  <2>1. CASE life[f] = "freed"
    BY <1>2, <2>1 DEF Types
  <2>2. CASE life[f] # "freed"
    BY <1>1, <1>2, <2>2 DEF Books, SlotBooks, ItemBooks, Ledger
  <2> QED BY <2>1, <2>2
<1>4. /\ huecos' \in [Entry -> [count : Nat, queue : Seq(Writers)]]
      /\ elementos' \in [Entry -> [count : Nat, queue : Seq(Readers)]]
  <2>1. /\ huecos' = [f \in Entry |-> huecos'[f]]
        /\ elementos' = [f \in Entry |-> elementos'[f]]
    BY <1>2 DEF Types
  <2>2. \A f \in Entry : /\ huecos'[f] \in [count : Nat, queue : Seq(Writers)]
                         /\ elementos'[f] \in [count : Nat, queue : Seq(Readers)]
    BY <1>3 DEF IsSemaphore
  <2> QED BY <2>1, <2>2
<1>5. /\ at[t] \in {"call", "sem"} /\ at'[t] \in {"sem", "sleep"}
      /\ at' = [at EXCEPT ![t] = at'[t]]
      /\ at'[t] = "sem" => life[file[t]] = "live"
  BY DEF Transfer, Call, Read, Write, Interrupted, Goto, Types
<1>6. Types'
  <2>1. at' \in [Thread -> {"unborn", "open", "call", "sem", "sleep", "dead"}]
    BY <1>5 DEF Types
  <2> QED BY <1>1, <1>2, <1>3, <1>4, <2>1 DEF Types
<1>7. Places'
  BY <1>2, <1>5 DEF Places, Types
<1> QED BY <1>1, <1>6, <1>7
-----------------------------------------------------------------------------
(* The reference count                                                     *)

RefsCounted == refs = Cardinality(Files) + Cardinality(Removing)

LEMMA FinitelyMany ==
    /\ IsFiniteSet(Files) /\ Cardinality(Files) \in Nat
    /\ IsFiniteSet(Removing) /\ Cardinality(Removing) \in Nat
<1>1. Files \subseteq Thread /\ Removing \subseteq Entry
  BY DEF Files, Removing
<1> QED BY <1>1, Roles, UserAssumption, FS_Subset, FS_CardinalityType

(* A step that opens and closes no file and concerns no deletion. *)
LEMMA RefsStay ==
    ASSUME Types, RefsCounted, refs' = refs, file' = file,
           \A e \in Entry : /\ life'[e] = "freed" <=> life[e] = "freed"
                            /\ life'[e] = "removing" <=> life[e] = "removing"
    PROVE  RefsCounted'
<1>1. Files' = Files /\ Removing' = Removing
  BY DEF Files, Removing, Types
<1> QED BY <1>1 DEF RefsCounted

(* The file of t is closed, if it is open, and released, if it counts. *)
LEMMA FileReleased ==
    ASSUME Types, RefsCounted, NEW t \in Thread, life' = life,
           file' = [file EXCEPT ![t] = NoEntry],
           IF file[t] = NoEntry THEN refs' = refs ELSE Release(t)
    PROVE  RefsCounted'
<1>1. Files' = Files \ {t} /\ Removing' = Removing
  BY DEF Files, Removing, Types
<1>2. Cardinality(Files \ {t}) = IF t \in Files THEN Cardinality(Files) - 1
                                 ELSE Cardinality(Files)
  BY FinitelyMany, FS_RemoveElement
<1>3. CASE t \in Files
  <2>1. file[t] # NoEntry /\ life[file[t]] # "freed"
    BY <1>3 DEF Files
  <2>2. Cardinality(Files) # 0
    BY <1>3, FinitelyMany, FS_EmptySet
  <2>3. refs' = refs - 1
    BY <2>1, <2>2, FinitelyMany DEF Release, Put, RefsCounted
  <2> QED BY <1>1, <1>2, <1>3, <2>3, FinitelyMany DEF RefsCounted
<1>4. CASE t \notin Files
  <2>1. file[t] = NoEntry \/ life[file[t]] = "freed"
    BY <1>4 DEF Files
  <2>2. refs' = refs
    BY <2>1 DEF Release
  <2> QED BY <1>1, <1>2, <1>4, <2>2 DEF RefsCounted
<1> QED BY <1>3, <1>4

LEMMA OpenRefs ==
    ASSUME Types, Places, RefsCounted, module = "loaded", NEW t \in Thread, Open(t)
    PROVE  RefsCounted'
<1>1. /\ dir \in Entry /\ life[dir] = "live" /\ file[t] = NoEntry /\ life' = life
      /\ file' = [file EXCEPT ![t] = dir] /\ refs' = refs + 1
  BY DEF Open, Goto, Get, entries, Places, Types
<1>2. Files' = Files \cup {t} /\ t \notin Files /\ Removing' = Removing
  BY <1>1, UserAssumption DEF Files, Removing, Types
<1>3. Cardinality(Files \cup {t}) = Cardinality(Files) + 1
  BY <1>2, FinitelyMany, FS_AddElement
<1> QED BY <1>1, <1>2, <1>3, FinitelyMany DEF RefsCounted

LEMMA DeleteRefs ==
    ASSUME Types, Places, RefsCounted, DeleteEntry
    PROVE  RefsCounted'
<1>1. /\ dir \in Entry /\ life[dir] = "live" /\ life' = [life EXCEPT ![dir] = "removing"]
      /\ file' = file /\ refs' = refs + 1
  BY DEF DeleteEntry, Unpublish, Get, Places, Types
<1>2. Files' = Files
  BY <1>1 DEF Files, Types
<1>3. Removing' = Removing \cup {dir} /\ dir \notin Removing
  BY <1>1 DEF Removing, Types
<1>4. Cardinality(Removing \cup {dir}) = Cardinality(Removing) + 1
  BY <1>3, FinitelyMany, FS_AddElement
<1> QED BY <1>1, <1>2, <1>3, <1>4, FinitelyMany DEF RefsCounted

LEMMA FreeRefs ==
    ASSUME Types, Places, RefsCounted, module = "loaded", NEW e \in Entry, FreeEntry(e)
    PROVE  RefsCounted'
<1>1. /\ life[e] = "removing" /\ life' = [life EXCEPT ![e] = "freed"] /\ file' = file
      /\ Put(Cardinality(Opened(e)) + 1)
  BY DEF FreeEntry
<1>2. Opened(e) \subseteq Files /\ Files' = Files \ Opened(e)
  BY <1>1, UserAssumption DEF Files, Opened, Types
<1>3. /\ Cardinality(Files \ Opened(e)) = Cardinality(Files) - Cardinality(Opened(e))
      /\ Cardinality(Opened(e)) \in Nat /\ Cardinality(Opened(e)) <= Cardinality(Files)
  <2>1. Files \cap Opened(e) = Opened(e)
    BY <1>2
  <2> QED BY <1>2, <2>1, FinitelyMany, FS_Difference, FS_Subset, FS_CardinalityType
<1>4. Removing' = Removing \ {e} /\ e \in Removing
  BY <1>1 DEF Removing, Types
<1>5. Cardinality(Removing \ {e}) = Cardinality(Removing) - 1 /\ Cardinality(Removing) # 0
  BY <1>4, FinitelyMany, FS_RemoveElement, FS_EmptySet
<1>6. refs' = refs - (Cardinality(Opened(e)) + 1)
  BY <1>1, <1>3, <1>5, FinitelyMany DEF Put, RefsCounted
<1> QED BY <1>2, <1>3, <1>4, <1>5, <1>6, FinitelyMany DEF RefsCounted

LEMMA StepRefs ==
    ASSUME Types, Places, RefsCounted, module = "loaded", module' = "loaded", Next
    PROVE  RefsCounted'
<1> USE DEF entries
<1>1. ASSUME NEW p \in Process, MainStep(p) \/ InterruptProgram(p)
      PROVE  RefsCounted'
  BY <1>1, RefsStay DEF MainStep, CreateThread, AllCreated, BadArgument, InterruptProgram
<1>2. ASSUME NEW t \in Thread, ThreadStep(t)
      PROVE  RefsCounted'
  <2>1. CASE Open(t)
    BY <2>1, OpenRefs
  <2>2. CASE OpenFails(t) \/ Call(t) \/ CallFails(t)
    BY <2>2, RefsStay DEF OpenFails, Call, CallFails
  <2>3. CASE Read(t) \/ Write(t) \/ Interrupted(t)
    BY <2>3, RefsStay DEF Read, Write, Interrupted
  <2>4. CASE Close(t)
    <3>1. file[t] # NoEntry
      BY <2>4 DEF Close, Goto, Places
    <3> QED BY <2>4, <3>1, FileReleased DEF Close
  <2>5. CASE Die(t)
    BY <2>5, FileReleased DEF Die
  <2> QED BY <1>2, <2>1, <2>2, <2>3, <2>4, <2>5 DEF ThreadStep
<1>3. CASE NewEntry
  BY <1>3, RefsStay DEF NewEntry, Types
<1>4. CASE DeleteEntry
  BY <1>4, DeleteRefs
<1>5. CASE BeginUnload \/ UnloadEntry \/ EndUnload
  BY <1>5 DEF BeginUnload, UnloadEntry, EndUnload
<1>6. ASSUME NEW e \in Entry, FreeEntry(e)
      PROVE  RefsCounted'
  BY <1>6, FreeRefs
<1> QED BY <1>1, <1>2, <1>3, <1>4, <1>5, <1>6 DEF Next, RemovalStep
-----------------------------------------------------------------------------
(* The invariant                                                           *)

LEMMA InitInv == Init => Inv
<1> SUFFICES ASSUME Init
             PROVE  Inv
  OBVIOUS
<1> USE UserAssumption DEF Init
<1>1. dir \in Entry
  OBVIOUS
<1>2. /\ \A e \in Entry : /\ IsSemaphore(huecos[e], Writers)
                          /\ IsSemaphore(elementos[e], Readers)
                          /\ Waiting(huecos[e]) = {} /\ huecos[e].count = max_size
                          /\ Waiting(elementos[e]) = {} /\ elementos[e].count = 0
  BY NewSemaphoreIsOne
<1>3. Types
  <2>1. /\ huecos \in [Entry -> [count : Nat, queue : Seq(Writers)]]
        /\ elementos \in [Entry -> [count : Nat, queue : Seq(Readers)]]
    BY DEF NewSemaphore
  <2> QED BY <1>1, <1>2, <2>1 DEF Types
<1>4. Places
  BY <1>1 DEF Places
<1>5. Books
  <2> SUFFICES ASSUME NEW e \in Entry
               PROVE  SlotBooks(e) /\ ItemBooks(e)
    BY DEF Books
  <2>1. Inside(e, Writers) = {} /\ Inside(e, Readers) = {}
    BY DEF Inside, Thread
  <2>2. Units(huecos[e], {}) = max_size - items[e] /\ Units(elementos[e], {}) = items[e]
    BY <1>2, FS_EmptySet DEF Units
  <2> QED BY <1>2, <2>1, <2>2 DEF SlotBooks, ItemBooks, Ledger
<1>6. RefsExact
  <2>1. Files = {} /\ Removing = {}
    BY DEF Files, Removing
  <2>2. Cardinality(Files) = 0 /\ Cardinality(Removing) = 0
    BY <2>1, FS_EmptySet
  <2> QED BY <2>2 DEF RefsExact, Files, Removing
<1> QED BY <1>3, <1>4, <1>5, <1>6 DEF Inv

LEMMA NextInv == Inv /\ [Next]_vars => Inv'
<1> SUFFICES ASSUME Inv, [Next]_vars
             PROVE  Inv'
  OBVIOUS
<1>1. CASE UNCHANGED vars
  BY <1>1 DEF Inv, vars, entries, Types, Places, Books, SlotBooks, ItemBooks, Inside,
              RefsExact
<1>2. CASE Next
  <2>1. Types' /\ Places' /\ Books'
    <3>1. CASE OtherStep
      BY <3>1, OtherPlaces, OtherBooks DEF Inv
    <3>2. ASSUME NEW t \in Thread, Transfer(t)
          PROVE  Types' /\ Places' /\ Books'
      BY <3>2, TransferPlaces DEF Inv
    <3> QED BY <1>2, <3>1, <3>2 DEF Next, ThreadStep, OtherStep, Transfer
  <2>2. RefsExact'
    <3>1. module' = "loaded" => module = "loaded"
      BY <1>2 DEF Next, MainStep, CreateThread, AllCreated, BadArgument,
                  InterruptProgram, ThreadStep, Open, OpenFails, Call, CallFails, Read,
                  Write, Interrupted, Close, Die, NewEntry, DeleteEntry, BeginUnload,
                  RemovalStep, UnloadEntry, EndUnload, FreeEntry
    <3>2. RefsExact <=> (module = "loaded" => RefsCounted)
      BY DEF RefsExact, RefsCounted, Files, Removing
    <3>3. RefsExact' <=> (module' = "loaded" => RefsCounted')
      BY DEF RefsExact, RefsCounted, Files, Removing
    <3> QED BY <1>2, <3>1, <3>2, <3>3, StepRefs DEF Inv
  <2> QED BY <2>1, <2>2 DEF Inv
<1> QED BY <1>1, <1>2

(* Inv holds in every state the program and the module reach. *)
THEOREM InvHolds == Spec => []Inv
<1> QED BY InitInv, NextInv, PTL DEF Spec
-----------------------------------------------------------------------------
(* The properties                                                          *)

(* Every variable keeps its type, and no ring holds more items than slots. *)
THEOREM TypeCorrect == Spec => []TypeOK
<1>1. Inv => TypeOK
  BY DEF Inv, Types, TypeOK
<1> QED BY <1>1, InvHolds, PTL

(* No thread, killed or not, takes a slot or an item away with it. *)
THEOREM SlotsConserved == Spec => []SlotsKept
<1>1. Inv => SlotsKept
  <2> SUFFICES ASSUME Inv, NEW e \in Entry, life[e] # "freed"
               PROVE  /\ huecos[e].count + Cardinality(Holders(e, Writers)) + items[e]
                            = max_size
                      /\ elementos[e].count + Cardinality(Holders(e, Readers)) = items[e]
    BY DEF SlotsKept
  <2>1. /\ Holders(e, Writers) = Inside(e, Writers) \ Waiting(huecos[e])
        /\ Holders(e, Readers) = Inside(e, Readers) \ Waiting(elementos[e])
    BY Roles DEF Holders, Inside, Opened, Unit, Granted, Thread
  <2>2. SlotBooks(e) /\ ItemBooks(e)
    BY DEF Inv, Books
  <2>3. /\ huecos[e].count + Cardinality(Holders(e, Writers)) = max_size - items[e]
        /\ elementos[e].count + Cardinality(Holders(e, Readers)) = items[e]
    BY <2>1, <2>2 DEF SlotBooks, ItemBooks, Ledger, Units
  <2>4. /\ items[e] \in Nat /\ max_size \in Nat /\ huecos[e].count \in Nat
        /\ Cardinality(Holders(e, Writers)) \in Nat
    <3>1. IsFiniteSet(Holders(e, Writers))
      BY Roles, FS_Subset DEF Holders
    <3> QED BY <3>1, UserAssumption, FS_CardinalityType DEF Inv, Types, IsSemaphore
  <2> QED BY <2>3, <2>4
<1> QED BY <1>1, InvHolds, PTL

(* While the module is loaded its reference count is right. *)
THEOREM References == Spec => []RefsExact
<1>1. Inv => RefsExact
  BY DEF Inv
<1> QED BY <1>1, InvHolds, PTL

(* No call is inside an entry that was freed. *)
THEOREM NobodyInside == Spec => []NoneInside
<1>1. Inv => NoneInside
  <2> SUFFICES ASSUME Inv, NEW t \in Thread, at[t] = "sem"
               PROVE  life[file[t]] \in {"live", "removing"} /\ module # "gone"
    BY DEF NoneInside
  <2>1. file[t] \in Entry /\ life[file[t]] \in {"live", "removing"}
    BY InsideAnEntry DEF Inv
  <2> QED BY <2>1 DEF Inv, Places
<1> QED BY <1>1, InvHolds, PTL
=============================================================================
