------------------------------- MODULE CodeTimer -------------------------------
(***************************************************************************)
(* Codetimer/codetimer.c.  While /proc/codetimer is open a kernel timer    *)
(* generates random codes into a ring of bytes, a work item moves them     *)
(* into a list once the ring passes a threshold, and read drains the list, *)
(* blocking while it is empty.                                             *)
(*                                                                         *)
(* A code is represented by its length, which is that of code_format when  *)
(* it was generated; in the ring it takes one byte more.  The readers are  *)
(* the processes or threads that share the one open file, so release runs  *)
(* when none of them is inside read.  The timer handler is one action (it  *)
(* runs in interrupt context, under sp_cbuffer), and so is each section    *)
(* under sem_list.  Time is not modelled: a queued timer may fire.         *)
(*                                                                         *)
(* Left out: a second open while the file is open, which allocates the     *)
(* ring again, and the reopening of a file closed before its first tick,   *)
(* which links the timer twice.                                            *)
(***************************************************************************)
EXTENDS Semaphore, FiniteSets

CONSTANTS
    Readers,     \* processes that share the open file
    Formats,     \* lengths code_format may have
    Thresholds,  \* values emergency_threshold may have, in percent
    CBUF_SIZE,   \* bytes the ring holds
    MaxList,     \* bound: no tick while the list is that long
    MaxUnits     \* bound: no tick while sem_coderead has that many units

Worker == "worker"

\* 32 bytes hold codes of up to 8 characters.
ASSUME CodeAssumption ==
    /\ IsFiniteSet(Readers) /\ Worker \notin Readers
    /\ Formats \subseteq Nat \ {0} /\ Formats # {}
    /\ CBUF_SIZE \in Nat /\ \A f \in Formats : f < CBUF_SIZE
    /\ Thresholds \subseteq 0..100 /\ Thresholds # {}
    /\ MaxList \in Nat /\ MaxUnits \in Nat

VARIABLES
    file,         \* state of /proc/codetimer, or how far open or release is
    timer,        \* the kernel timer
    size,         \* kfifo_size(&cbuffer): 1 when it is not allocated
    ring,         \* codes in cbuffer, oldest first
    used,         \* kfifo_len(&cbuffer): the bytes they take
    queued,       \* codetimer_work is in the work queue
    work,         \* where codetimer_wq_function stands
    hand,         \* codes it has taken out of the ring and not yet listed
    awaited,      \* executions flush_workqueue still waits for
    list,         \* mylist
    sem_list, sem_coderead,
    at,           \* where in codetimer_read each reader stands
    got,          \* the codes it took from the list
    code_format, emergency_threshold,
    overtaken     \* history: the timer overtook the last release

handler == <<file, timer, size, awaited, overtaken>>
config == <<code_format, emergency_threshold>>
cbuffer == <<ring, used>>
worker == <<queued, work, hand>>
reader == <<at, got>>
sems == <<sem_list, sem_coderead>>
vars == <<handler, cbuffer, worker, list, sems, reader, config>>

-----------------------------------------------------------------------------
(* codeconfig_write: a length and a percentage that pass its checks        *)

ConfigWrite ==
    /\ \/ code_format' \in Formats /\ UNCHANGED emergency_threshold
       \/ emergency_threshold' \in Thresholds /\ UNCHANGED code_format
    /\ UNCHANGED <<handler, cbuffer, worker, list, sems, reader>>

-----------------------------------------------------------------------------
(* The timer handler and the work item                                     *)

\* kfifo_avail.  Nothing is ever in a ring that is not allocated.
Avail == size - used

\* Integer division, as in line 126.
Limit == (CBUF_SIZE * (100 - emergency_threshold)) \div 100

Fits == Avail >= code_format + 1

\* The ring and its bytes after a tick; a code that does not fit is dropped.
Filled == IF Fits THEN Append(ring, code_format) ELSE ring
FilledTo == IF Fits THEN used + code_format + 1 ELSE used

\* queue_work_on has no effect if the work is queued already.
Wanted == queued \/ size - FilledTo < Limit

\* A tick that queues work while release is past the point where it would be
\* waited for.
Overtakes == Wanted /\ ~queued /\ file \in {"flush", "free", "stop"}

\* Mutant of Generate: mod_timer is missing.
GenerateOnce ==
    /\ timer \in {"armed", "hidden"}
    /\ Len(list) < MaxList /\ sem_coderead.count < MaxUnits
    /\ ring' = Filled /\ used' = FilledTo
    /\ queued' = Wanted
    /\ timer' = "idle"
    /\ overtaken' = (overtaken \/ Overtakes)
    /\ UNCHANGED <<file, size, work, hand, awaited, list, sems, reader, config>>

Generate ==
    /\ timer \in {"armed", "hidden"}
    /\ Len(list) < MaxList /\ sem_coderead.count < MaxUnits
    /\ ring' = Filled /\ used' = FilledTo
    /\ queued' = Wanted
    /\ timer' = "armed"
    /\ overtaken' = (overtaken \/ Overtakes)
    /\ UNCHANGED <<file, size, work, hand, awaited, list, sems, reader, config>>

\* The whole ring is taken out, under sp_cbuffer.
BeginWork ==
    /\ queued /\ work = "idle"
    /\ queued' = FALSE
    /\ hand' = ring /\ ring' = <<>> /\ used' = 0
    /\ work' = "adding"
    /\ UNCHANGED <<handler, list, sems, reader, config>>

AskToAdd ==
    /\ work = "adding" /\ hand # <<>>
    /\ sem_list' = Down(sem_list, Worker)
    /\ work' = "list"
    /\ UNCHANGED <<handler, cbuffer, queued, hand, list, sem_coderead, reader, config>>

\* Mutant of AddCode: list_add instead of list_add_tail.
AddCodeAtHead ==
    /\ work = "list" /\ Granted(sem_list, Worker)
    /\ list' = <<Head(hand)>> \o list
    /\ hand' = Tail(hand)
    /\ sem_list' = Up(sem_list)
    /\ work' = "adding"
    /\ UNCHANGED <<handler, cbuffer, queued, sem_coderead, reader, config>>

AddCode ==
    /\ work = "list" /\ Granted(sem_list, Worker)
    /\ list' = Append(list, Head(hand))
    /\ hand' = Tail(hand)
    /\ sem_list' = Up(sem_list)
    /\ work' = "adding"
    /\ UNCHANGED <<handler, cbuffer, queued, sem_coderead, reader, config>>

\* Mutant of EndWork: up(&sem_coderead) is missing.
EndWorkSilent ==
    /\ work = "adding" /\ hand = <<>>
    /\ work' = "idle"
    /\ awaited' = IF awaited > 0 THEN awaited - 1 ELSE 0
    /\ UNCHANGED <<file, timer, size, overtaken, cbuffer, queued, hand, list,
                   sems, reader, config>>

EndWork ==
    /\ work = "adding" /\ hand = <<>>
    /\ sem_coderead' = Up(sem_coderead)
    /\ work' = "idle"
    /\ awaited' = IF awaited > 0 THEN awaited - 1 ELSE 0
    /\ UNCHANGED <<file, timer, size, overtaken, cbuffer, queued, hand, list,
                   sem_list, reader, config>>

-----------------------------------------------------------------------------
(* codetimer_open                                                          *)

\* kfifo_alloc, then add_timer; add_timer stops the process (BUG_ON) when the
\* timer of an earlier file is still queued.  A failing kfifo_alloc changes
\* nothing that is modelled.
Open ==
    /\ file = "closed" /\ timer # "hidden"
    /\ size' = CBUF_SIZE /\ ring' = <<>> /\ used' = 0
    /\ timer' = "armed"
    /\ file' = IF timer = "armed" THEN "closed" ELSE "listing"
    /\ overtaken' = (timer = "armed")
    /\ UNCHANGED <<awaited, worker, list, sems, reader, config>>

InitList ==
    /\ file = "listing"
    /\ list' = <<>>
    /\ file' = "timing"
    /\ UNCHANGED <<timer, size, awaited, overtaken, cbuffer, worker, sems, reader, config>>

\* init_timer, on the timer already queued: it still fires, but until it does
\* del_timer_sync does not know that it is queued.
InitTimer ==
    /\ file = "timing"
    /\ timer' = "hidden"
    /\ file' = "open"
    /\ UNCHANGED <<size, awaited, overtaken, cbuffer, worker, list, sems, reader, config>>

-----------------------------------------------------------------------------
(* codetimer_read                                                          *)

CallRead(r) ==
    /\ file = "open" /\ at[r] = "out"
    /\ sem_list' = Down(sem_list, r)
    /\ at' = [at EXCEPT ![r] = "list"]
    /\ UNCHANGED <<handler, cbuffer, worker, list, sem_coderead, got, config>>

OwnsList(r) == at[r] = "list" /\ Granted(sem_list, r)

FindEmpty(r) ==
    /\ OwnsList(r) /\ list = <<>>
    /\ sem_list' = Up(sem_list)
    /\ at' = [at EXCEPT ![r] = "unlocked"]
    /\ UNCHANGED <<handler, cbuffer, worker, list, sem_coderead, got, config>>

Sleep(r) ==
    /\ at[r] = "unlocked"
    /\ sem_coderead' = Down(sem_coderead, r)
    /\ at' = [at EXCEPT ![r] = "wait"]
    /\ UNCHANGED <<handler, cbuffer, worker, list, sem_list, got, config>>

Relock(r) ==
    /\ at[r] = "wait" /\ Granted(sem_coderead, r)
    /\ sem_list' = Down(sem_list, r)
    /\ at' = [at EXCEPT ![r] = "list"]
    /\ UNCHANGED <<handler, cbuffer, worker, list, sem_coderead, got, config>>

\* The codes are printed into kbuf, which has 256 bytes, without a test.  What a
\* longer list of codes overwrites behind it is not modelled.
Drain(r) ==
    /\ OwnsList(r) /\ list # <<>>
    /\ got' = [got EXCEPT ![r] = list]
    /\ list' = <<>>
    /\ sem_list' = Up(sem_list)
    /\ at' = [at EXCEPT ![r] = "copy"]
    /\ UNCHANGED <<handler, cbuffer, worker, sem_coderead, config>>

\* copy_to_user succeeds, or the codes are lost.
Return(r) ==
    /\ at[r] = "copy"
    /\ got' = [got EXCEPT ![r] = <<>>]
    /\ at' = [at EXCEPT ![r] = "out"]
    /\ UNCHANGED <<handler, cbuffer, worker, list, sems, config>>

InterruptList(r) ==
    /\ at[r] = "list" /\ ~Granted(sem_list, r)
    /\ sem_list' = Cancel(sem_list, r)
    /\ at' = [at EXCEPT ![r] = "out"]
    /\ UNCHANGED <<handler, cbuffer, worker, list, sem_coderead, got, config>>

InterruptWait(r) ==
    /\ at[r] = "wait" /\ ~Granted(sem_coderead, r)
    /\ sem_coderead' = Cancel(sem_coderead, r)
    /\ at' = [at EXCEPT ![r] = "out"]
    /\ UNCHANGED <<handler, cbuffer, worker, list, sem_list, got, config>>

-----------------------------------------------------------------------------
(* codetimer_release                                                       *)

Executions == (IF queued THEN 1 ELSE 0) + (IF work = "idle" THEN 0 ELSE 1)

\* flush_workqueue waits for the work queued or running when it is called.
CallRelease ==
    /\ file = "open" /\ \A r \in Readers : at[r] = "out"
    /\ awaited' = Executions
    /\ file' = "flush"
    /\ UNCHANGED <<timer, size, overtaken, cbuffer, worker, list, sems, reader, config>>

\* Mutant of Flush: it does not wait for a running work.
FlushQueued ==
    /\ file = "flush" /\ ~queued
    /\ file' = "free" /\ awaited' = 0
    /\ UNCHANGED <<timer, size, overtaken, cbuffer, worker, list, sems, reader, config>>

Flush ==
    /\ file = "flush" /\ awaited = 0
    /\ file' = "free"
    /\ UNCHANGED <<timer, size, awaited, overtaken, cbuffer, worker, list, sems, reader, config>>

\* kfifo_free leaves an empty ring with mask 0, where no code fits.
FreeRing ==
    /\ file = "free"
    /\ size' = 1 /\ ring' = <<>> /\ used' = 0
    /\ file' = "stop"
    /\ UNCHANGED <<timer, awaited, overtaken, worker, list, sems, reader, config>>

\* del_timer_sync
StopTimer ==
    /\ file = "stop"
    /\ timer' = IF timer = "armed" THEN "idle" ELSE timer
    /\ overtaken' = (overtaken \/ timer = "hidden")
    /\ file' = "clean"
    /\ UNCHANGED <<size, awaited, cbuffer, worker, list, sems, reader, config>>

\* cleanup_list, without sem_list.
CleanUp ==
    /\ file = "clean"
    /\ list' = <<>>
    /\ file' = "closed"
    /\ UNCHANGED <<timer, size, awaited, overtaken, cbuffer, worker, sems, reader, config>>

-----------------------------------------------------------------------------
\* The state init_codetimer_module leaves.
Init ==
    /\ file = "closed" /\ timer = "idle"
    /\ size = 1 /\ ring = <<>> /\ used = 0
    /\ queued = FALSE /\ work = "idle" /\ hand = <<>> /\ awaited = 0
    /\ list = <<>>
    /\ sem_list = NewSemaphore(1) /\ sem_coderead = NewSemaphore(0)
    /\ at = [r \in Readers |-> "out"]
    /\ got = [r \in Readers |-> <<>>]
    /\ code_format \in Formats /\ emergency_threshold \in Thresholds
    /\ overtaken = FALSE

WorkStep == BeginWork \/ AskToAdd \/ AddCode \/ EndWork
OpenStep == InitList \/ InitTimer
ReleaseStep == Flush \/ FreeRing \/ StopTimer \/ CleanUp
ReadStep(r) == FindEmpty(r) \/ Sleep(r) \/ Relock(r) \/ Drain(r) \/ Return(r)

Next ==
    \/ ConfigWrite \/ Generate \/ WorkStep
    \/ Open \/ OpenStep \/ CallRelease \/ ReleaseStep
    \/ \E r \in Readers :
          CallRead(r) \/ ReadStep(r) \/ InterruptList(r) \/ InterruptWait(r)

Spec == Init /\ [][Next]_vars

\* A queued timer fires, queued work is executed and what can run is scheduled.
Fairness ==
    /\ WF_vars(Generate) /\ WF_vars(WorkStep)
    /\ WF_vars(OpenStep) /\ WF_vars(ReleaseStep)
    /\ \A r \in Readers : WF_vars(ReadStep(r))
FairSpec == Spec /\ Fairness

-----------------------------------------------------------------------------
(* Properties                                                              *)

(* Every variable keeps its type: the ring never holds more bytes than it has,
   and the semaphores stay well formed. *)
TypeOK ==
    /\ file \in {"closed", "listing", "timing", "open", "flush", "free", "stop", "clean"}
    /\ timer \in {"idle", "armed", "hidden"}
    /\ size \in {1, CBUF_SIZE}
    /\ ring \in Seq(Formats) /\ hand \in Seq(Formats) /\ list \in Seq(Formats)
    /\ used \in Nat /\ Avail \in 0..CBUF_SIZE
    /\ queued \in BOOLEAN /\ awaited \in 0..2 /\ overtaken \in BOOLEAN
    /\ work \in {"idle", "adding", "list"}
    /\ IsSemaphore(sem_list, Readers \cup {Worker})
    /\ IsSemaphore(sem_coderead, Readers)
    /\ at \in [Readers -> {"out", "list", "unlocked", "wait", "copy"}]
    /\ got \in [Readers -> Seq(Formats)]
    /\ code_format \in Formats /\ emergency_threshold \in Thresholds

Asleep(r) == at[r] = "wait" /\ ~Granted(sem_coderead, r)

(* Once nothing is running, no reader sleeps beside codes it could read: a
   unit that a reader takes with it when it is interrupted on sem_list (line
   257), or that was left over, never stood for codes still in the list. *)
ReaderWoken ==
    /\ work = "idle"
    /\ \A r \in Readers : at[r] = "out" \/ Asleep(r)
    /\ \E r \in Readers : Asleep(r)
    => list = <<>>

(* A release that the timer does not overtake leaves nothing behind: no code,
   no work and no timer, although it frees the ring before it stops the timer
   and empties the list without sem_list (281-283). *)
ReleaseClean ==
    file = "closed" /\ ~overtaken =>
        /\ timer = "idle"
        /\ ~queued /\ work = "idle"
        /\ ring = <<>> /\ hand = <<>> /\ list = <<>>

\* The oldest codes are in the list, the newest in the ring.
Stream == INSTANCE LossyStream WITH
    Item <- Formats, Reader <- Readers, queue <- list \o hand \o ring

(* Codes reach the readers in the order of their generation and each at most
   once, across the ring, the work item and the list. *)
ImplementsStream == Stream!Spec

\* The next code does not fit, and the ring is not full enough for line 126.
Stalled == ~Fits /\ Avail >= Limit

(* A reader that waits is served, unless the threshold asks for a ring fuller
   than codes of this length can make it: then codes are dropped for ever and
   none is delivered until the configuration changes. *)
CodesServed ==
    (\E r \in Readers : at[r] = "wait")
        ~> \/ \A r \in Readers : at[r] = "out"
           \/ \E r \in Readers : at[r] = "copy"
           \/ Stalled
=============================================================================
