------------------------------ MODULE CodeTimerOpt ------------------------------
(***************************************************************************)
(* Opcional/codetimer.c: the codetimer for two readers.  Codes of even     *)
(* length go to one list and the others to another; each reader gets one   *)
(* list when it opens /proc/codetimer, and open waits until two readers    *)
(* have come.                                                              *)
(*                                                                         *)
(* sem_num is meant to protect num_readers and even_odd, but the reader    *)
(* that was waiting in open goes on without it and gives it back all the   *)
(* same (278), so a load of either variable and the store that follows are *)
(* two actions.  A threshold is chosen anew at every tick, as if           *)
(* codeconfig_write had been called.  Everything else is as in CodeTimer;  *)
(* here the timer is initialised before it is added.                       *)
(***************************************************************************)
EXTENDS Semaphore, Selection, FiniteSets

CONSTANTS
    Procs,       \* processes that open the file
    Lengths,     \* lengths generate_format may choose
    Thresholds,  \* values emergency_threshold may have, in percent
    CBUF_SIZE,   \* bytes the ring holds
    AllocFails,  \* TRUE if kfifo_alloc may fail
    Signals,     \* TRUE if blocked processes may receive signals
    NumWrap,     \* bound: num_readers is unsigned and wraps there
    MaxReaders,  \* bound: no open with that many readers counted
    MaxUnits,    \* bound: no open with more units in sem_num or sem_reader, and no
                 \* tick with that many in sem_coderead
    MaxList      \* bound: no tick with that many codes in hand and listed

Worker == "worker"

ASSUME CodeOptAssumption ==
    /\ IsFiniteSet(Procs) /\ Worker \notin Procs
    /\ Lengths \subseteq Nat \ {0}
    /\ CBUF_SIZE \in Nat /\ \A l \in Lengths : l < CBUF_SIZE
    /\ Thresholds \subseteq 0..100
    /\ AllocFails \in BOOLEAN /\ Signals \in BOOLEAN
    /\ NumWrap \in Nat /\ MaxReaders \in Nat /\ MaxReaders + 1 < NumWrap
    /\ MaxUnits \in Nat /\ MaxList \in Nat

VARIABLES
    at,           \* where each process stands in open, read or release
    num_readers, even_odd, sem_num, sem_reader,
    loaded,       \* the value of num_readers each process has loaded, 0 once used
    private,      \* private_data of each process's file: 0 stands for list_even
    timer, size, ring, queued, work, hand,
    awaited,      \* executions each process's flush_work still waits for
    list,         \* list_even and list_odd, under 0 and 1
    sem_list, sem_coderead,
    got,          \* codes each reader took from its list
    robbed        \* history: lists with codes whose unit may have been taken in vain

entry == <<num_readers, even_odd, sem_num, sem_reader, loaded, private>>
buffer == <<size, ring>>
worker == <<queued, work, hand>>
lists == <<list, sem_list, sem_coderead, got, robbed>>
vars == <<at, entry, timer, buffer, worker, awaited, lists>>

Goto(p, place) == at' = [at EXCEPT ![p] = place]

-----------------------------------------------------------------------------
(* codetimer_open                                                          *)

CallOpen(p) ==
    /\ at[p] = "out"
    /\ num_readers < MaxReaders
    /\ sem_num.count <= MaxUnits /\ sem_reader.count <= MaxUnits
    /\ sem_num' = Down(sem_num, p)
    /\ Goto(p, "num")
    /\ UNCHANGED <<num_readers, even_odd, sem_reader, loaded, private,
                   timer, buffer, worker, awaited, lists>>

\* num_readers is loaded to be incremented, to undo that, or in release.
LoadNum(p) ==
    /\ at[p] \in {"num", "undo", "leave"} /\ Granted(sem_num, p)
    /\ loaded' = [loaded EXCEPT ![p] = num_readers]
    /\ Goto(p, CASE at[p] = "num" -> "count"
                 [] at[p] = "undo" -> "uncount"
                 [] at[p] = "leave" -> "leaving")
    /\ UNCHANGED <<num_readers, even_odd, sem_num, sem_reader, private,
                   timer, buffer, worker, awaited, lists>>

\* Any reader but the first signals sem_reader.
Count(p) ==
    /\ at[p] = "count"
    /\ num_readers' = (loaded[p] + 1) % NumWrap
    /\ IF loaded[p] = 0
       THEN Goto(p, "alloc") /\ UNCHANGED sem_reader
       ELSE Goto(p, "check") /\ sem_reader' = Up(sem_reader)
    /\ loaded' = [loaded EXCEPT ![p] = 0]
    /\ UNCHANGED <<even_odd, sem_num, private,
                   timer, buffer, worker, awaited, lists>>

\* -ENOMEM: sem_num is not given back, nor the reader counted out.
FailToAlloc(p) ==
    /\ AllocFails /\ at[p] = "alloc"
    /\ size' = 1 /\ ring' = <<>>
    /\ Goto(p, "out")
    /\ UNCHANGED <<entry, timer, worker, awaited, lists>>

\* The first reader sets up the buffer, the lists and the timer, and waits.
Alloc(p) ==
    /\ at[p] = "alloc"
    /\ size' = CBUF_SIZE /\ ring' = <<>>
    /\ list' = [i \in 0..1 |-> <<>>] /\ robbed' = {}
    /\ timer' = IF timer = "armed" THEN "hidden" ELSE timer
    /\ sem_num' = Up(sem_num)
    /\ sem_reader' = Down(sem_reader, p)
    /\ Goto(p, "first")
    /\ UNCHANGED <<num_readers, even_odd, loaded, private, worker, awaited,
                   sem_list, sem_coderead, got>>

\* The others wait until they find two readers counted.
Check(p) ==
    /\ at[p] = "check" \/ (at[p] = "recheck" /\ Granted(sem_num, p))
    /\ IF num_readers = 2
       THEN Goto(p, "arm") /\ UNCHANGED <<sem_num, sem_reader>>
       ELSE /\ sem_num' = Up(sem_num)
            /\ sem_reader' = Down(sem_reader, p)
            /\ Goto(p, "queue")
    /\ UNCHANGED <<num_readers, even_odd, loaded, private,
                   timer, buffer, worker, awaited, lists>>

Recheck(p) ==
    /\ at[p] = "queue" /\ Granted(sem_reader, p)
    /\ sem_num' = Down(sem_num, p)
    /\ Goto(p, "recheck")
    /\ UNCHANGED <<num_readers, even_odd, sem_reader, loaded, private,
                   timer, buffer, worker, awaited, lists>>

\* add_timer stops the process (BUG_ON) if the timer is queued already.  What
\* it does with a hidden one is undefined, and left out.
Arm(p) ==
    /\ at[p] = "arm" /\ timer # "hidden"
    /\ timer' = "armed"
    /\ Goto(p, IF timer = "armed" THEN "dead" ELSE "assign")
    /\ UNCHANGED <<entry, buffer, worker, awaited, lists>>

\* Larger values of even_odd stand as 2: all but 0 select list_odd.
AtMost2(n) == IF n > 2 THEN 2 ELSE n

\* The first reader comes here without sem_num.
Assign(p) ==
    /\ at[p] = "assign" \/ (at[p] = "first" /\ Granted(sem_reader, p))
    /\ private' = [private EXCEPT ![p] = even_odd]
    /\ Goto(p, "bump")
    /\ UNCHANGED <<num_readers, even_odd, sem_num, sem_reader, loaded,
                   timer, buffer, worker, awaited, lists>>

\* even_odd + 1 % 2 is even_odd + 1, of the value just loaded for private_data or
\* of one loaded anew, as the compiler likes.
Bump(p) ==
    /\ at[p] = "bump"
    /\ \E n \in {private[p], even_odd} : even_odd' = AtMost2(n + 1)
    /\ sem_num' = Up(sem_num)
    /\ Goto(p, "opened")
    /\ UNCHANGED <<num_readers, sem_reader, loaded, private,
                   timer, buffer, worker, awaited, lists>>

\* A signal while asking for sem_num: in open nothing is undone, in release
\* the file is closed all the same.
InterruptNum(p) ==
    /\ Signals
    /\ at[p] \in {"num", "recheck", "leave"} /\ ~Granted(sem_num, p)
    /\ sem_num' = Cancel(sem_num, p)
    /\ Goto(p, "out")
    /\ private' = [private EXCEPT ![p] = 0]
    /\ UNCHANGED <<num_readers, even_odd, sem_reader, loaded,
                   timer, buffer, worker, awaited, lists>>

\* A signal while waiting for other readers: back to sem_num, to be counted out.
InterruptReader(p) ==
    /\ Signals
    /\ at[p] \in {"first", "queue"} /\ ~Granted(sem_reader, p)
    /\ sem_reader' = Cancel(sem_reader, p)
    /\ sem_num' = Down(sem_num, p)
    /\ Goto(p, "undo")
    /\ UNCHANGED <<num_readers, even_odd, loaded, private,
                   timer, buffer, worker, awaited, lists>>

\* unsigned: below 0 it wraps.
OneLess(n) == (n - 1) % NumWrap

\* Mutant of Undo: sem_num is not given back.
UndoLocked(p) ==
    /\ at[p] = "uncount"
    /\ num_readers' = OneLess(loaded[p])
    /\ Goto(p, "out")
    /\ loaded' = [loaded EXCEPT ![p] = 0]
    /\ UNCHANGED <<even_odd, sem_num, sem_reader, private,
                   timer, buffer, worker, awaited, lists>>

Undo(p) ==
    /\ at[p] = "uncount"
    /\ num_readers' = OneLess(loaded[p])
    /\ sem_num' = Up(sem_num)
    /\ Goto(p, "out")
    /\ loaded' = [loaded EXCEPT ![p] = 0]
    /\ UNCHANGED <<even_odd, sem_reader, private,
                   timer, buffer, worker, awaited, lists>>

-----------------------------------------------------------------------------
(* generate_code and codetimer_wq_function                                 *)

Bytes[codes \in Seq(Nat)] ==
    IF codes = <<>> THEN 0 ELSE Head(codes) + 1 + Bytes[Tail(codes)]

Filled(l) == IF size - Bytes[ring] >= l + 1 THEN Append(ring, l) ELSE ring

Generate(l, threshold) ==
    /\ timer \in {"armed", "hidden"}
    /\ Len(hand) + Len(list[0]) + Len(list[1]) < MaxList /\ sem_coderead.count < MaxUnits
    /\ timer' = "armed"
    /\ ring' = Filled(l)
    /\ queued' = (queued \/ size - Bytes[Filled(l)] < (CBUF_SIZE * (100 - threshold)) \div 100)
    /\ UNCHANGED <<at, entry, size, work, hand, awaited, lists>>

BeginWork ==
    /\ queued /\ work = "idle"
    /\ queued' = FALSE
    /\ hand' = ring /\ ring' = <<>>
    /\ work' = "adding"
    /\ UNCHANGED <<at, entry, timer, size, awaited, lists>>

AskToAdd ==
    /\ work = "adding" /\ hand # <<>>
    /\ sem_list' = Down(sem_list, Worker)
    /\ work' = "list"
    /\ UNCHANGED <<at, entry, timer, buffer, queued, hand, awaited, list, sem_coderead, got, robbed>>

\* Mutant of AddCode: list_add for list_add_tail.
AddCodeAtHead ==
    /\ work = "list" /\ Granted(sem_list, Worker)
    /\ list' = [list EXCEPT ![Head(hand) % 2] = <<Head(hand)>> \o @]
    /\ hand' = Tail(hand)
    /\ sem_list' = Up(sem_list)
    /\ work' = "adding"
    /\ UNCHANGED <<at, entry, timer, buffer, queued, awaited, sem_coderead, got, robbed>>

AddCode ==
    /\ work = "list" /\ Granted(sem_list, Worker)
    /\ list' = [list EXCEPT ![Head(hand) % 2] = Append(@, Head(hand))]
    /\ hand' = Tail(hand)
    /\ sem_list' = Up(sem_list)
    /\ work' = "adding"
    /\ UNCHANGED <<at, entry, timer, buffer, queued, awaited, sem_coderead, got, robbed>>

\* Mutant of EndWork: up(&sem_coderead) is missing.
EndWorkSilent ==
    /\ work = "adding" /\ hand = <<>>
    /\ work' = "idle"
    /\ awaited' = [p \in Procs |-> IF awaited[p] > 0 THEN awaited[p] - 1 ELSE 0]
    /\ UNCHANGED <<at, entry, timer, buffer, queued, hand, lists>>

\* One unit, whoever the codes are for.
EndWork ==
    /\ work = "adding" /\ hand = <<>>
    /\ sem_coderead' = Up(sem_coderead)
    /\ work' = "idle"
    /\ awaited' = [p \in Procs |-> IF awaited[p] > 0 THEN awaited[p] - 1 ELSE 0]
    /\ UNCHANGED <<at, entry, timer, buffer, queued, hand, list, sem_list, got, robbed>>

-----------------------------------------------------------------------------
(* codetimer_read                                                          *)

\* list_to_read
Mine(p) == IF private[p] = 0 THEN 0 ELSE 1

CallRead(p) ==
    /\ at[p] = "opened"
    /\ sem_list' = Down(sem_list, p)
    /\ Goto(p, "list")
    /\ UNCHANGED <<entry, timer, buffer, worker, awaited, list, sem_coderead, got, robbed>>

OwnsList(p) == at[p] = "list" /\ Granted(sem_list, p)

Listed(i) == IF list[i] = <<>> THEN {} ELSE {i}

FindEmpty(p) ==
    /\ OwnsList(p) /\ list[Mine(p)] = <<>>
    /\ sem_list' = Up(sem_list)
    /\ Goto(p, "unlocked")
    /\ UNCHANGED <<entry, timer, buffer, worker, awaited, list, sem_coderead, got, robbed>>

Sleep(p) ==
    /\ at[p] = "unlocked"
    /\ sem_coderead' = Down(sem_coderead, p)
    /\ Goto(p, "wait")
    /\ UNCHANGED <<entry, timer, buffer, worker, awaited, list, sem_list, got, robbed>>

Relock(p) ==
    /\ at[p] = "wait" /\ Granted(sem_coderead, p)
    /\ sem_list' = Down(sem_list, p)
    /\ robbed' = robbed \cup Listed(1 - Mine(p))
    /\ Goto(p, "list")
    /\ UNCHANGED <<entry, timer, buffer, worker, awaited, list, sem_coderead, got>>

\* The codes are printed into kbuf, which has 256 bytes, without a test.  What a
\* longer list of codes overwrites behind it is not modelled.
Drain(p) ==
    /\ OwnsList(p) /\ list[Mine(p)] # <<>>
    /\ got' = [got EXCEPT ![p] = list[Mine(p)]]
    /\ list' = [list EXCEPT ![Mine(p)] = <<>>]
    /\ robbed' = robbed \ {Mine(p)}
    /\ sem_list' = Up(sem_list)
    /\ Goto(p, "copy")
    /\ UNCHANGED <<entry, timer, buffer, worker, awaited, sem_coderead>>

Return(p) ==
    /\ at[p] = "copy"
    /\ got' = [got EXCEPT ![p] = <<>>]
    /\ Goto(p, "opened")
    /\ UNCHANGED <<entry, timer, buffer, worker, awaited, list, sem_list, sem_coderead, robbed>>

InterruptRead(p) ==
    /\ Signals
    /\ \/ /\ at[p] = "list" /\ ~Granted(sem_list, p)
          /\ sem_list' = Cancel(sem_list, p) /\ UNCHANGED sem_coderead
          /\ robbed' = robbed \cup Listed(Mine(p))
       \/ /\ at[p] = "wait" /\ ~Granted(sem_coderead, p)
          /\ sem_coderead' = Cancel(sem_coderead, p) /\ UNCHANGED <<sem_list, robbed>>
    /\ Goto(p, "opened")
    /\ UNCHANGED <<entry, timer, buffer, worker, awaited, list, got>>

-----------------------------------------------------------------------------
(* codetimer_release                                                       *)

CallRelease(p) ==
    /\ at[p] = "opened"
    /\ sem_num' = Down(sem_num, p)
    /\ Goto(p, "leave")
    /\ UNCHANGED <<num_readers, even_odd, sem_reader, loaded, private,
                   timer, buffer, worker, awaited, lists>>

Executions == (IF queued THEN 1 ELSE 0) + (IF work = "idle" THEN 0 ELSE 1)

\* The last reader goes on to flush_work, the one before it to del_timer_sync.
Uncount(p) ==
    /\ at[p] = "leaving"
    /\ num_readers' = OneLess(loaded[p])
    /\ even_odd' = Mine(p)
    /\ Goto(p, CASE num_readers' = 0 -> "flush" [] num_readers' = 1 -> "stop" [] OTHER -> "left")
    /\ awaited' = [awaited EXCEPT ![p] = IF num_readers' = 0 THEN Executions ELSE 0]
    /\ loaded' = [loaded EXCEPT ![p] = 0]
    /\ UNCHANGED <<sem_num, sem_reader, private, timer, buffer, worker, lists>>

StopTimer(p) ==
    /\ at[p] = "stop"
    /\ timer' = IF timer = "armed" THEN "idle" ELSE timer
    /\ Goto(p, "left")
    /\ UNCHANGED <<entry, buffer, worker, awaited, lists>>

\* kfifo_free and cleanup_list, once flush_work has returned.
FreeAll(p) ==
    /\ at[p] = "flush" /\ awaited[p] = 0
    /\ size' = 1 /\ ring' = <<>>
    /\ list' = [i \in 0..1 |-> <<>>] /\ robbed' = {}
    /\ Goto(p, "left")
    /\ UNCHANGED <<entry, timer, worker, awaited, sem_list, sem_coderead, got>>

Leave(p) ==
    /\ at[p] = "left"
    /\ sem_num' = Up(sem_num)
    /\ sem_reader' = Up(sem_reader)
    /\ Goto(p, "out")
    /\ private' = [private EXCEPT ![p] = 0]
    /\ UNCHANGED <<num_readers, even_odd, loaded,
                   timer, buffer, worker, awaited, lists>>

-----------------------------------------------------------------------------
\* The state init_codetimer_module leaves.
Init ==
    /\ at = [p \in Procs |-> "out"]
    /\ num_readers = 0 /\ even_odd = 0
    /\ sem_num = NewSemaphore(1) /\ sem_reader = NewSemaphore(0)
    /\ loaded = [p \in Procs |-> 0] /\ private = [p \in Procs |-> 0]
    /\ timer = "idle" /\ size = 1 /\ ring = <<>>
    /\ queued = FALSE /\ work = "idle" /\ hand = <<>>
    /\ awaited = [p \in Procs |-> 0]
    /\ list = [i \in 0..1 |-> <<>>]
    /\ sem_list = NewSemaphore(1) /\ sem_coderead = NewSemaphore(0)
    /\ got = [p \in Procs |-> <<>>]
    /\ robbed = {}

WorkStep == BeginWork \/ AskToAdd \/ AddCode \/ EndWork

OpenStep(p) ==
    \/ LoadNum(p) \/ Count(p) \/ FailToAlloc(p) \/ Alloc(p) \/ Check(p)
    \/ Recheck(p) \/ Arm(p) \/ Assign(p) \/ Bump(p) \/ Undo(p)

ReadStep(p) == FindEmpty(p) \/ Sleep(p) \/ Relock(p) \/ Drain(p) \/ Return(p)
ReleaseStep(p) == Uncount(p) \/ StopTimer(p) \/ FreeAll(p) \/ Leave(p)

Next ==
    \/ \E l \in Lengths, t \in Thresholds : Generate(l, t)
    \/ WorkStep
    \/ \E p \in Procs :
          \/ CallOpen(p) \/ OpenStep(p) \/ InterruptNum(p) \/ InterruptReader(p)
          \/ CallRead(p) \/ ReadStep(p) \/ InterruptRead(p)
          \/ CallRelease(p) \/ ReleaseStep(p)

Spec == Init /\ [][Next]_vars

-----------------------------------------------------------------------------
(* Properties                                                              *)

Inside == {"opened", "list", "unlocked", "wait", "copy"}

(* Every variable keeps its type: the ring never holds more bytes than it has,
   and the semaphores stay well formed although sem_num gains units. *)
TypeOK ==
    /\ at \in [Procs -> Inside \cup
            {"out", "num", "count", "alloc", "first", "check", "queue", "recheck",
             "arm", "dead", "assign", "bump", "undo", "uncount",
             "leave", "leaving", "flush", "stop", "left"}]
    /\ num_readers \in 0..(NumWrap - 1) /\ even_odd \in 0..2
    /\ loaded \in [Procs -> 0..(NumWrap - 1)] /\ private \in [Procs -> 0..2]
    /\ timer \in {"idle", "armed", "hidden"} /\ size \in {1, CBUF_SIZE}
    /\ ring \in Seq(Lengths) /\ hand \in Seq(Lengths)
    /\ Bytes[ring] <= size
    /\ queued \in BOOLEAN /\ work \in {"idle", "adding", "list"}
    /\ awaited \in [Procs -> 0..2]
    /\ list \in [0..1 -> Seq(Lengths)] /\ got \in [Procs -> Seq(Lengths)]
    /\ robbed \subseteq 0..1
    /\ IsSemaphore(sem_num, Procs) /\ IsSemaphore(sem_reader, Procs)
    /\ IsSemaphore(sem_list, Procs \cup {Worker}) /\ IsSemaphore(sem_coderead, Procs)

\* The codes that go to list i.
Parity(i) == {l \in Lengths : l % 2 = i}

Even == INSTANCE LossyStream WITH
    Item <- Parity(0), Reader <- Procs,
    queue <- list[0] \o Among(hand, Parity(0)) \o Among(ring, Parity(0)),
    got <- [p \in Procs |-> Among(got[p], Parity(0))]
Odd == INSTANCE LossyStream WITH
    Item <- Parity(1), Reader <- Procs,
    queue <- list[1] \o Among(hand, Parity(1)) \o Among(ring, Parity(1)),
    got <- [p \in Procs |-> Among(got[p], Parity(1))]

(* Each list is a stream of its own: whatever the readers of both do to the
   counts and to each other, a code is read at most once, in its turn and from
   the list of its parity. *)
ImplementsStreams == Even!Spec /\ Odd!Spec

Asleep(p) == at[p] = "wait" /\ ~Granted(sem_coderead, p)

(* Once nothing is running, a reader sleeps beside codes of its list only if a
   reader of the other list took the unit that stood for them (line 103), or
   one was interrupted with it (310). *)
WokenUnlessRobbed ==
    /\ work = "idle"
    /\ \A p \in Procs : at[p] \in {"list", "unlocked", "wait"} => Asleep(p)
    => \A p \in Procs : Asleep(p) /\ list[Mine(p)] # <<>> => Mine(p) \in robbed

\* p is past down() on sem_num, or will give it back without having it.
WillGiveNum(p) ==
    \/ at[p] \in {"count", "alloc", "check", "arm", "assign", "bump",
                   "uncount", "leaving", "flush", "stop", "left"}
    \/ at[p] \in {"num", "recheck", "undo", "leave"} /\ Granted(sem_num, p)
    \/ at[p] = "first" /\ Granted(sem_reader, p)

NumLost == sem_num.count = 0 /\ \A p \in Procs : ~WillGiveNum(p)

(* sem_num is lost by an open that fails to allocate (line 239) or is stopped
   by add_timer, by no interrupted call; then it is lost for good: nobody is
   counted in or out any more. *)
NumLostForGood ==
    [][ /\ NumLost => NumLost' /\ UNCHANGED <<num_readers, even_odd, size>>
        /\ NumLost' => \/ NumLost
                       \/ \E p \in Procs :
                             \/ at[p] = "alloc" /\ at'[p] = "out"
                             \/ at'[p] = "dead"
      ]_vars
=============================================================================
