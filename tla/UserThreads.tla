----------------------------- MODULE UserThreads -----------------------------
(***************************************************************************)
(* PrácticaFinal/ParteB: the program user.c on the module multipc.c, from  *)
(* the first call of a thread to the unloading of the module.              *)
(*                                                                         *)
(* A process `user -e` creates threads that open an entry, write to it or  *)
(* read from it, sleep, close it, and begin again until open fails; then   *)
(* the thread ends its whole process.  `user -d` deletes the entry, and    *)
(* remove_proc_entry waits for the calls inside it; `user -n` may create   *)
(* another of the same name meanwhile.  The questions are what becomes of  *)
(* the threads, and of the deletion that waits for them.                   *)
(*                                                                         *)
(* The inside of a call is what MultipcEntry shows it to be: once its      *)
(* semaphore has granted it a slot or an item, a transfer that is not      *)
(* interrupted happens at once, and one whose process is being killed may  *)
(* instead give its unit back.  The administration is what MultipcAdmin    *)
(* shows it to be, for one deletion at a time.  The limit on the number of *)
(* threads and the reading of the arguments are left out, but for the      *)
(* mistakes that main finds when threads are already running; so are words *)
(* written to an entry of integers.                                        *)
(***************************************************************************)
EXTENDS Semaphore, FiniteSets

CONSTANTS
    Process,        \* processes `user -e`
    Readers,        \* their threads that read
    Writers,        \* and those that write
    ProcessOf,      \* ProcessOf[t]: the process of thread t
    BadArgs,        \* processes that have a wrong argument after good ones
    Entry,          \* addresses of the entries that have the name, at any time
    NoEntry,
    max_size        \* parameter of the module: slots of an entry

Thread == Readers \cup Writers

ASSUME UserAssumption ==
    /\ IsFiniteSet(Thread) /\ Readers \cap Writers = {}
    /\ ProcessOf \in [Thread -> Process]
    /\ BadArgs \subseteq Process
    /\ IsFiniteSet(Entry) /\ Entry # {} /\ NoEntry \notin Entry
    /\ max_size \in Nat \ {0}

VARIABLES
    main,       \* what main does in each process: "creating" its threads,
                \* "joining" them, or "dying" with the process
    at,         \* where each thread stands; "call" and "sleep" are outside the
                \* module with the file open, "sem" is inside
    file,       \* the entry of the file that the thread has open
    dir,        \* the entry of that name in /proc/multipc, if any
    life,       \* life[e]: "unused", "live", "removing" or "freed"
    items,      \* items in the ring of each entry
    huecos, elementos,
    refs,       \* the module's reference count
    module      \* "loaded", "going" while rmmod runs, or "gone"

entries == <<dir, life, items, huecos, elementos>>
vars == <<main, at, file, entries, refs, module>>

Goto(t, from, to) == at[t] = from /\ at' = [at EXCEPT ![t] = to]
Threads(p) == {t \in Thread : ProcessOf[t] = p}
Killed(t) == main[ProcessOf[t]] = "dying"
Kill(p) == main' = [main EXCEPT ![p] = "dying"]

\* try_module_get, whose failure nobody looks at, and module_put.
Get == refs' = IF module = "loaded" THEN refs + 1 ELSE refs
Put(n) == refs' = IF refs >= n THEN refs - n ELSE 0

-----------------------------------------------------------------------------
(* main of `user -e`                                                       *)

CreateThread(p) ==
    /\ main[p] = "creating"
    /\ \E t \in Threads(p) : Goto(t, "unborn", "open")
    /\ UNCHANGED <<main, file, entries, refs, module>>

AllCreated(p) ==
    /\ main[p] = "creating"
    /\ \A t \in Threads(p) : at[t] # "unborn"
    /\ main' = [main EXCEPT ![p] = "joining"]
    /\ UNCHANGED <<at, file, entries, refs, module>>

\* handle_error ends the process under the threads it has created.
BadArgument(p) ==
    /\ p \in BadArgs /\ main[p] = "creating"
    /\ Kill(p)
    /\ UNCHANGED <<at, file, entries, refs, module>>

\* The user interrupts the program, which has no other end.
InterruptProgram(p) ==
    /\ main[p] # "dying"
    /\ Kill(p)
    /\ UNCHANGED <<at, file, entries, refs, module>>

-----------------------------------------------------------------------------
(* reader and writer                                                       *)

Open(t) ==
    /\ ~Killed(t) /\ dir # NoEntry
    /\ Goto(t, "open", "call")
    /\ file' = [file EXCEPT ![t] = dir]
    /\ Get
    /\ UNCHANGED <<main, entries, module>>

\* Mutant of OpenFails: pthread_exit where the code calls _exit.
OpenFailsThreadOnly(t) ==
    /\ ~Killed(t) /\ dir = NoEntry
    /\ Goto(t, "open", "dead")
    /\ UNCHANGED <<main, file, entries, refs, module>>

\* _exit(1)
OpenFails(t) ==
    /\ ~Killed(t) /\ dir = NoEntry /\ at[t] = "open"
    /\ Kill(ProcessOf[t])
    /\ UNCHANGED <<at, file, entries, refs, module>>

\* read or write, up to the semaphore.
Call(t) ==
    /\ Goto(t, "call", "sem") /\ ~Killed(t)
    /\ life[file[t]] = "live"
    /\ \/ /\ t \in Readers
          /\ elementos' = [elementos EXCEPT ![file[t]] = Down(@, t)]
          /\ UNCHANGED huecos
       \/ /\ t \in Writers
          /\ huecos' = [huecos EXCEPT ![file[t]] = Down(@, t)]
          /\ UNCHANGED elementos
    /\ UNCHANGED <<main, file, dir, life, items, refs, module>>

\* -1: the entry has been removed from the directory, and procfs lets no call
\* enter.  The thread goes on.
CallFails(t) ==
    /\ Goto(t, "call", "sleep") /\ ~Killed(t)
    /\ life[file[t]] # "live"
    /\ UNCHANGED <<main, file, entries, refs, module>>

Unit(t) ==
    IF t \in Readers THEN elementos[file[t]] ELSE huecos[file[t]]

\* Mutant of Read: a slot is not given back.
ReadKeepsSlot(t) ==
    /\ Goto(t, "sem", "sleep")
    /\ t \in Readers /\ Granted(Unit(t), t)
    /\ items' = [items EXCEPT ![file[t]] = @ - 1]
    /\ UNCHANGED <<main, file, dir, life, huecos, elementos, refs, module>>

Read(t) ==
    /\ Goto(t, "sem", "sleep")
    /\ t \in Readers /\ Granted(Unit(t), t)
    /\ items' = [items EXCEPT ![file[t]] = @ - 1]
    /\ huecos' = [huecos EXCEPT ![file[t]] = Up(@)]
    /\ UNCHANGED <<main, file, dir, life, elementos, refs, module>>

Write(t) ==
    /\ Goto(t, "sem", "sleep")
    /\ t \in Writers /\ Granted(Unit(t), t)
    /\ items' = [items EXCEPT ![file[t]] = @ + 1]
    /\ elementos' = [elementos EXCEPT ![file[t]] = Up(@)]
    /\ UNCHANGED <<main, file, dir, life, huecos, refs, module>>

\* down_interruptible returns -EINTR on the first semaphore, or on mtx after it,
\* and then the unit is given back.
Undone(sem, t) == IF Granted(sem, t) THEN Up(sem) ELSE Cancel(sem, t)

\* The thread's process is being killed.
Interrupted(t) ==
    /\ Killed(t)
    /\ Goto(t, "sem", "sleep")
    /\ \/ /\ t \in Readers
          /\ elementos' = [elementos EXCEPT ![file[t]] = Undone(@, t)]
          /\ UNCHANGED huecos
       \/ /\ t \in Writers
          /\ huecos' = [huecos EXCEPT ![file[t]] = Undone(@, t)]
          /\ UNCHANGED elementos
    /\ UNCHANGED <<main, file, dir, life, items, refs, module>>

\* Mutant of Release: a file that the deletion has released is released again.
ReleaseAgain(t) == Put(1)

\* The file of an entry that was freed has been released already.
Release(t) == IF life[file[t]] = "freed" THEN UNCHANGED refs ELSE Put(1)

Close(t) ==
    /\ Goto(t, "sleep", "open") /\ ~Killed(t)
    /\ Release(t)
    /\ file' = [file EXCEPT ![t] = NoEntry]
    /\ UNCHANGED <<main, entries, module>>

\* The end of a thread closes its file.
Die(t) ==
    /\ Killed(t)
    /\ at[t] \in {"unborn", "open", "call", "sleep"}
    /\ at' = [at EXCEPT ![t] = "dead"]
    /\ IF file[t] = NoEntry THEN UNCHANGED refs ELSE Release(t)
    /\ file' = [file EXCEPT ![t] = NoEntry]
    /\ UNCHANGED <<main, entries, module>>

-----------------------------------------------------------------------------
(* `user -n`, `user -d`, and rmmod                                         *)

NewEntry ==
    /\ module = "loaded" /\ dir = NoEntry
    /\ \E e \in Entry :
          /\ life[e] = "unused"
          /\ life' = [life EXCEPT ![e] = "live"]
          /\ dir' = e
    /\ UNCHANGED <<main, at, file, items, huecos, elementos, refs, module>>

\* The entry leaves the directory: no open finds it and no call enters it.
Unpublish ==
    /\ life' = [life EXCEPT ![dir] = "removing"]
    /\ dir' = NoEntry

\* One deletion at a time.  The deleter has the entry admin open.
DeleteEntry ==
    /\ module = "loaded" /\ dir # NoEntry
    /\ \A e \in Entry : life[e] # "removing"
    /\ Unpublish
    /\ Get
    /\ UNCHANGED <<main, at, file, items, huecos, elementos, module>>

Opened(e) == {t \in Thread : file[t] = e}

\* Mutant of Vacated: the calls inside are not waited for.
NotAwaited(e) == TRUE

Vacated(e) == \A t \in Opened(e) : at[t] # "sem"

\* remove_proc_entry has waited, and it releases the files that are still open;
\* the ring is emptied and freed, and the deleter closes admin.
FreeEntry(e) ==
    /\ life[e] = "removing" /\ Vacated(e)
    /\ life' = [life EXCEPT ![e] = "freed"]
    /\ items' = [items EXCEPT ![e] = 0]
    /\ Put(Cardinality(Opened(e)) + IF module = "loaded" THEN 1 ELSE 0)
    /\ UNCHANGED <<main, at, file, dir, huecos, elementos, module>>

\* rmmod: nobody has a reference.
BeginUnload ==
    /\ module = "loaded" /\ refs = 0
    /\ module' = "going"
    /\ UNCHANGED <<main, at, file, entries, refs>>

\* cleanup_list: the same as a deletion, for every entry of the list.
UnloadEntry ==
    /\ module = "going" /\ dir # NoEntry
    /\ Unpublish
    /\ UNCHANGED <<main, at, file, items, huecos, elementos, refs, module>>

EndUnload ==
    /\ module = "going"
    /\ \A e \in Entry : life[e] \in {"unused", "freed"}
    /\ module' = "gone"
    /\ UNCHANGED <<main, at, file, entries, refs>>

-----------------------------------------------------------------------------
\* The module is loaded, with one entry of the name.
Init ==
    /\ main = [p \in Process |-> "creating"]
    /\ at = [t \in Thread |-> "unborn"]
    /\ file = [t \in Thread |-> NoEntry]
    /\ dir = CHOOSE e \in Entry : TRUE
    /\ life = [e \in Entry |-> IF e = dir THEN "live" ELSE "unused"]
    /\ items = [e \in Entry |-> 0]
    /\ huecos = [e \in Entry |-> NewSemaphore(max_size)]
    /\ elementos = [e \in Entry |-> NewSemaphore(0)]
    /\ refs = 0
    /\ module = "loaded"

MainStep(p) == CreateThread(p) \/ AllCreated(p) \/ BadArgument(p)

ThreadStep(t) ==
    \/ Open(t)  \/ OpenFails(t)  \/ Call(t)         \/ CallFails(t)
    \/ Read(t)  \/ Write(t)      \/ Interrupted(t)  \/ Close(t)  \/ Die(t)

RemovalStep == UnloadEntry \/ EndUnload \/ \E e \in Entry : FreeEntry(e)

Next ==
    \/ \E p \in Process : MainStep(p) \/ InterruptProgram(p)
    \/ \E t \in Thread : ThreadStep(t)
    \/ NewEntry \/ DeleteEntry \/ BeginUnload \/ RemovalStep

Spec == Init /\ [][Next]_vars

\* What runs goes on running, and every sleep ends.
Fairness ==
    /\ \A p \in Process : WF_vars(MainStep(p))
    /\ \A t \in Thread : WF_vars(ThreadStep(t))
    /\ WF_vars(RemovalStep)
FairSpec == Spec /\ Fairness
-----------------------------------------------------------------------------
(* Properties                                                              *)

(* Every variable keeps its type; no ring holds more items than it has slots. *)
TypeOK ==
    /\ main \in [Process -> {"creating", "joining", "dying"}]
    /\ at \in [Thread -> {"unborn", "open", "call", "sem", "sleep", "dead"}]
    /\ file \in [Thread -> Entry \cup {NoEntry}]
    /\ dir \in Entry \cup {NoEntry}
    /\ life \in [Entry -> {"unused", "live", "removing", "freed"}]
    /\ items \in [Entry -> 0..max_size]
    /\ \A e \in Entry :
          IsSemaphore(huecos[e], Writers) /\ IsSemaphore(elementos[e], Readers)
    /\ refs \in Nat
    /\ module \in {"loaded", "going", "gone"}

Holders(e, role) == {t \in Opened(e) \cap role : at[t] = "sem" /\ Granted(Unit(t), t)}

(* Whatever threads die inside an entry, its slots are conserved: each is a
   unit of huecos, an item, or in the hands of a writer, and each item is a
   unit of elementos or in the hands of a reader. *)
SlotsKept ==
    \A e \in Entry : life[e] \in {"live", "removing"} =>
        /\ huecos[e].count + Cardinality(Holders(e, Writers)) + items[e] = max_size
        /\ elementos[e].count + Cardinality(Holders(e, Readers)) = items[e]

(* While the module is loaded its reference count is the number of open files,
   those that a deletion has released not counted: however threads, processes
   and entries end, the module can be unloaded after them and not before. *)
RefsExact ==
    module = "loaded" =>
        refs = Cardinality({t \in Thread :
                               file[t] # NoEntry /\ life[file[t]] # "freed"})
               + Cardinality({e \in Entry : life[e] = "removing"})

(* No call is inside an entry that was freed, by a deletion or by the
   unloading of the module; the unloading can find threads inside, that opened
   the entry after the reference count was looked at. *)
NoneInside ==
    \A t \in Thread :
        at[t] = "sem" => life[file[t]] \in {"live", "removing"} /\ module # "gone"

Asleep(t) == at[t] = "sem" /\ ~Granted(Unit(t), t)

\* Each of the process's threads is blocked inside an entry.
Stuck(p) == \A t \in Threads(p) : Asleep(t)

(* A deletion ends, unless the name is created again, or a process has all its
   threads blocked: only then can there be readers inside the entry that nobody
   will ever wake. *)
DeletionEnds ==
    \A e \in Entry :
        life[e] = "removing" ~>
            life[e] = "freed" \/ dir # NoEntry \/ \E p \in Process : Stuck(p)
=============================================================================
