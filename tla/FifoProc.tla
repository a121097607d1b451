------------------------------- MODULE FifoProc -------------------------------
(***************************************************************************)
(* fifoproc.c: a FIFO behind /proc/fifoproc.  Producers open it for        *)
(* writing and consumers for reading; open waits for the other side, write *)
(* waits for room and read for data.  Condition variables are imitated     *)
(* with semaphores: sem["prod"] and sem["cons"] are sem_prod and sem_cons, *)
(* waiting and count are nr_prod_waiting, nr_cons_waiting, prod_count and  *)
(* cons_count.  The bytes themselves are abstracted to their number.       *)
(*                                                                         *)
(* call[p] is the state of p's file, or the handler p is in; at[p] is      *)
(* where in the handler p stands.  A process at "mtx", "relock" or "undo"  *)
(* has called down on mtx, one at "sem" on its own queue.  The statements  *)
(* between a granted mtx and its up() are one action: everything they read *)
(* is changed under mtx only.  Opening for both reading and writing is     *)
(* left out, and so are the checks write makes before it takes mtx.        *)
(***************************************************************************)
EXTENDS Semaphore, FiniteSets

CONSTANTS
    Producers,  \* processes that open the FIFO for writing
    Consumers,  \* processes that open the FIFO for reading
    Capacity,   \* bytes the buffer holds
    WriteLens,  \* lengths passed to write
    ReadLens,   \* lengths passed to read
    Signals,    \* TRUE if blocked processes may receive signals
    Faults,     \* TRUE if read may be given a bad user buffer
    MaxCalls    \* bound on the open, read and write calls of each process

\* write refuses what is longer than its local buffer of KBUF_SIZE = 256 bytes,
\* of the 1024 that cbuffer has.  read tests nothing: a process asks for any
\* length.  (What a read does to the memory behind its own local buffer when it
\* extracts more than 256 bytes is not modelled.)
ASSUME FifoAssumption ==
    /\ IsFiniteSet(Producers) /\ IsFiniteSet(Consumers)
    /\ Producers \cap Consumers = {}
    /\ Capacity \in Nat /\ MaxCalls \in Nat
    /\ WriteLens \subseteq 1..Capacity /\ ReadLens \subseteq Nat \ {0}
    /\ Signals \in BOOLEAN /\ Faults \in BOOLEAN

VARIABLES
    call,       \* state of p's file, or the handler p runs
    at,         \* where in the handler p stands
    len,        \* the length p passed to read or write
    calls,      \* calls p has made, up to MaxCalls
    fill,       \* kfifo_len(&cbuffer)
    count,      \* prod_count and cons_count
    waiting,    \* nr_prod_waiting and nr_cons_waiting
    sem,        \* sem_prod and sem_cons
    mtx,        \* mutual exclusion on all of the above
    drift,      \* history: what interrupted calls have wrongly left in count
    spill       \* history: the bytes that an interrupted open or release left

history == <<drift, spill>>
shared == <<fill, count, waiting, sem, history>>
vars == <<call, at, len, calls, fill, count, waiting, sem, mtx, history>>

Proc == Producers \cup Consumers
Roles == {"prod", "cons"}
Role(p) == IF p \in Consumers THEN "cons" ELSE "prod"
Other(r) == IF r = "cons" THEN "prod" ELSE "cons"

\* What kfifo_in and kfifo_out move: a bytes asked for, b to be had.
Least(a, b) == IF a < b THEN a ELSE b
Avail == Capacity - fill

-----------------------------------------------------------------------------
(* Entering and leaving the handlers                                       *)

\* The handlers begin with down_interruptible(&mtx).
Enter(p, from, handler) ==
    /\ call[p] = from /\ at[p] = "out"
    /\ call' = [call EXCEPT ![p] = handler]
    /\ at' = [at EXCEPT ![p] = "mtx"]
    /\ mtx' = Down(mtx, p)
    /\ UNCHANGED shared

CallOpen(p) ==
    /\ calls[p] < MaxCalls
    /\ Enter(p, "closed", "open")
    /\ calls' = [calls EXCEPT ![p] = @ + 1]
    /\ UNCHANGED len

CallTransfer(p) ==
    /\ calls[p] < MaxCalls
    /\ Enter(p, "opened", "transfer")
    /\ calls' = [calls EXCEPT ![p] = @ + 1]
    /\ \E n \in IF p \in Producers THEN WriteLens ELSE ReadLens :
          len' = [len EXCEPT ![p] = n]

CallRelease(p) ==
    /\ Enter(p, "opened", "release")
    /\ UNCHANGED <<len, calls>>

\* p is in the given handler and owns mtx, having asked for it at one of places.
Owns(p, handler, places) ==
    /\ call[p] = handler /\ at[p] \in places
    /\ Granted(mtx, p)

\* The handler ends and leaves the file in the given state.
Return(p, state) ==
    /\ call' = [call EXCEPT ![p] = state]
    /\ at' = [at EXCEPT ![p] = "out"]
    /\ len' = [len EXCEPT ![p] = 0]
    /\ UNCHANGED calls

\* p releases mtx and goes on to down_interruptible on its own queue.
GoToSleep(p) ==
    /\ at' = [at EXCEPT ![p] = "sleep"]
    /\ mtx' = Up(mtx)
    /\ UNCHANGED <<call, len, calls>>

-----------------------------------------------------------------------------
(* Waiting: the same statements in open, read and write                    *)

Sleep(p) ==
    /\ at[p] = "sleep"
    /\ at' = [at EXCEPT ![p] = "sem"]
    /\ sem' = [sem EXCEPT ![Role(p)] = Down(@, p)]
    /\ UNCHANGED <<call, len, calls, fill, count, waiting, mtx, history>>

\* Woken up: back to down_interruptible(&mtx).
Relock(p) ==
    /\ at[p] = "sem" /\ Granted(sem[Role(p)], p)
    /\ at' = [at EXCEPT ![p] = "relock"]
    /\ mtx' = Down(mtx, p)
    /\ UNCHANGED <<call, len, calls, shared>>

\* A signal while asleep: the handler will undo what it did, under mtx.
InterruptSleep(p) ==
    /\ Signals
    /\ at[p] = "sem" /\ ~Granted(sem[Role(p)], p)
    /\ at' = [at EXCEPT ![p] = "eintr"]
    /\ sem' = [sem EXCEPT ![Role(p)] = Cancel(@, p)]
    /\ UNCHANGED <<call, len, calls, fill, count, waiting, mtx, history>>

\* Mutant of UndoLock: the handler undoes its work without mtx.
UndoUnlocked(p) ==
    /\ at[p] = "eintr"
    /\ at' = [at EXCEPT ![p] = "undo"]
    /\ UNCHANGED <<call, len, calls, shared, mtx>>

\* down(&mtx), which no signal interrupts.
UndoLock(p) ==
    /\ at[p] = "eintr"
    /\ at' = [at EXCEPT ![p] = "undo"]
    /\ mtx' = Down(mtx, p)
    /\ UNCHANGED <<call, len, calls, shared>>

\* A signal while asking for mtx: -EINTR at once, and nothing is undone.  The
\* file of an interrupted open never existed and that of an interrupted release
\* is gone all the same, counted if the open had slept, or the release begun.
InterruptMtx(p) ==
    /\ Signals
    /\ at[p] \in {"mtx", "relock"} /\ ~Granted(mtx, p)
    /\ mtx' = Cancel(mtx, p)
    /\ \/ /\ call[p] = "transfer" \/ (call[p] = "open" /\ at[p] = "mtx")
          /\ Return(p, IF call[p] = "open" THEN "closed" ELSE "opened")
          /\ UNCHANGED history
       \/ /\ call[p] = "release" \/ (call[p] = "open" /\ at[p] = "relock")
          /\ Return(p, "closed")
          /\ drift' = [drift EXCEPT ![Role(p)] = @ + 1]
          /\ spill' = fill
    /\ UNCHANGED <<fill, count, waiting, sem>>

-----------------------------------------------------------------------------
(* fifoproc_open                                                           *)

\* The loop that waits for the other side, and what follows it.
AwaitOther(p) ==
    \/ /\ count[Other(Role(p))] = 0
       /\ waiting' = [waiting EXCEPT ![Role(p)] = @ + 1]
       /\ GoToSleep(p)
    \/ /\ count[Other(Role(p))] # 0
       /\ waiting' = [waiting EXCEPT ![Role(p)] = @ - 1]
       /\ mtx' = Up(mtx)
       /\ Return(p, "opened")

\* Both branches of open signal sem_prod.
Open(p) ==
    /\ Owns(p, "open", {"mtx"})
    /\ count' = [count EXCEPT ![Role(p)] = @ + 1]
    /\ sem' = [sem EXCEPT !["prod"] = Up(@)]
    /\ AwaitOther(p)
    /\ UNCHANGED <<fill, history>>

\* Mutant of RecheckOpen: the process counts itself again.
RecheckOpenRecounts(p) ==
    /\ Owns(p, "open", {"relock"})
    /\ count' = [count EXCEPT ![Role(p)] = @ + 1]
    /\ AwaitOther(p)
    /\ UNCHANGED <<fill, sem, history>>

RecheckOpen(p) ==
    /\ Owns(p, "open", {"relock"})
    /\ AwaitOther(p)
    /\ UNCHANGED <<fill, count, sem, history>>

UndoOpen(p) ==
    /\ Owns(p, "open", {"undo"})
    /\ waiting' = [waiting EXCEPT ![Role(p)] = @ - 1]
    /\ count' = [count EXCEPT ![Role(p)] = @ - 1]
    /\ sem' = [sem EXCEPT ![Other(Role(p))] = Up(@)]
    /\ mtx' = Up(mtx)
    /\ Return(p, "closed")
    /\ spill' = fill
    /\ UNCHANGED <<fill, drift>>

-----------------------------------------------------------------------------
(* fifoproc_write                                                          *)

OwnsWrite(p) == p \in Producers /\ Owns(p, "transfer", {"mtx", "relock"})

\* Mutant of MustWaitForRoom: any room will do.
MustWaitIfFull(p) == Avail = 0 /\ count["cons"] > 0

MustWaitForRoom(p) == Avail < len[p] /\ count["cons"] > 0

\* A writer that waits first wakes a consumer, and counts it out, if any.
WriteWaits(p) ==
    /\ OwnsWrite(p) /\ MustWaitForRoom(p)
    /\ waiting' = [waiting EXCEPT !["prod"] = @ + 1, !["cons"] = @ - 1]
    /\ sem' = [sem EXCEPT !["cons"] = Up(@)]
    /\ GoToSleep(p)
    /\ UNCHANGED <<fill, count, history>>

\* -EPIPE: the consumers are gone.
WriteBroken(p) ==
    /\ OwnsWrite(p) /\ ~MustWaitForRoom(p) /\ count["cons"] = 0
    /\ mtx' = Up(mtx)
    /\ Return(p, "opened")
    /\ UNCHANGED shared

\* Wake a process of role r if some are counted as waiting.
WakeCounted(r) ==
    IF waiting[r] > 0
    THEN /\ sem' = [sem EXCEPT ![r] = Up(@)]
         /\ waiting' = [waiting EXCEPT ![r] = @ - 1]
    ELSE UNCHANGED <<sem, waiting>>

WriteInserts(p) ==
    /\ OwnsWrite(p) /\ ~MustWaitForRoom(p) /\ count["cons"] # 0
    /\ fill' = fill + Least(len[p], Avail)
    /\ WakeCounted("cons")
    /\ mtx' = Up(mtx)
    /\ Return(p, "opened")
    /\ UNCHANGED <<count, history>>

\* The interrupted writer takes itself out of prod_count, although its file
\* stays open.
UndoWrite(p) ==
    /\ p \in Producers /\ Owns(p, "transfer", {"undo"})
    /\ waiting' = [waiting EXCEPT !["prod"] = @ - 1]
    /\ count' = [count EXCEPT !["prod"] = @ - 1]
    /\ sem' = [sem EXCEPT !["cons"] = Up(@)]
    /\ mtx' = Up(mtx)
    /\ Return(p, "opened")
    /\ drift' = [drift EXCEPT !["prod"] = @ - 1]
    /\ UNCHANGED <<fill, spill>>

-----------------------------------------------------------------------------
(* fifoproc_read                                                           *)

OwnsRead(p) == p \in Consumers /\ Owns(p, "transfer", {"mtx", "relock"})

MustWaitForData(p) == fill < len[p] /\ count["prod"] > 0

\* Mutant of ReadWaits: a producer is counted out but not woken.
ReadWaitsSilent(p) ==
    /\ OwnsRead(p) /\ MustWaitForData(p)
    /\ waiting' = [waiting EXCEPT !["prod"] = @ - 1, !["cons"] = @ + 1]
    /\ GoToSleep(p)
    /\ UNCHANGED <<fill, count, sem, history>>

ReadWaits(p) ==
    /\ OwnsRead(p) /\ MustWaitForData(p)
    /\ waiting' = [waiting EXCEPT !["prod"] = @ - 1, !["cons"] = @ + 1]
    /\ sem' = [sem EXCEPT !["prod"] = Up(@)]
    /\ GoToSleep(p)
    /\ UNCHANGED <<fill, count, history>>

AtEnd == count["prod"] = 0 /\ fill = 0

\* 0: the producers are gone and nothing is left.
ReadEnds(p) ==
    /\ OwnsRead(p) /\ ~MustWaitForData(p) /\ AtEnd
    /\ mtx' = Up(mtx)
    /\ Return(p, "opened")
    /\ UNCHANGED shared

Extract(p) ==
    /\ OwnsRead(p) /\ ~MustWaitForData(p) /\ ~AtEnd
    /\ fill' = fill - Least(len[p], fill)
    /\ WakeCounted("prod")
    /\ Return(p, "opened")
    /\ UNCHANGED <<count, history>>

ReadExtracts(p) == Extract(p) /\ mtx' = Up(mtx)

\* -EFAULT: the handler returns without up(&mtx).
ReadFaults(p) == Faults /\ Extract(p) /\ UNCHANGED mtx

UndoRead(p) ==
    /\ p \in Consumers /\ Owns(p, "transfer", {"undo"})
    /\ waiting' = [waiting EXCEPT !["cons"] = @ - 1]
    /\ sem' = [sem EXCEPT !["prod"] = Up(@)]
    /\ mtx' = Up(mtx)
    /\ Return(p, "opened")
    /\ UNCHANGED <<fill, count, history>>

-----------------------------------------------------------------------------
(* fifoproc_release                                                        *)

\* Mutant of FillAfter: kfifo_reset is missing.
FillKept(c) == fill

\* The last one to leave empties the buffer: c is count after the release.
FillAfter(c) == IF \A r \in Roles : c[r] = 0 THEN 0 ELSE fill

\* Mutant of Release: the other side is not told.
ReleaseSilent(p) ==
    /\ Owns(p, "release", {"mtx"})
    /\ count' = [count EXCEPT ![Role(p)] = @ - 1]
    /\ fill' = FillAfter(count')
    /\ mtx' = Up(mtx)
    /\ Return(p, "closed")
    /\ UNCHANGED <<waiting, sem, history>>

Release(p) ==
    /\ Owns(p, "release", {"mtx"})
    /\ count' = [count EXCEPT ![Role(p)] = @ - 1]
    /\ sem' = [sem EXCEPT ![Other(Role(p))] = Up(@)]
    /\ fill' = FillAfter(count')
    /\ spill' = IF \A r \in Roles : count'[r] = 0 THEN 0 ELSE spill
    /\ mtx' = Up(mtx)
    /\ Return(p, "closed")
    /\ UNCHANGED <<waiting, drift>>

-----------------------------------------------------------------------------
Init ==
    /\ call = [p \in Proc |-> "closed"]
    /\ at = [p \in Proc |-> "out"]
    /\ len = [p \in Proc |-> 0]
    /\ calls = [p \in Proc |-> 0]
    /\ fill = 0
    /\ count = [r \in Roles |-> 0]
    /\ waiting = [r \in Roles |-> 0]
    /\ sem = [r \in Roles |-> NewSemaphore(0)]
    /\ mtx = NewSemaphore(1)
    /\ drift = [r \in Roles |-> 0]
    /\ spill = 0

\* The statements a handler executes by itself.
Step(p) ==
    \/ Sleep(p)        \/ Relock(p)       \/ UndoLock(p)
    \/ Open(p)         \/ RecheckOpen(p)  \/ UndoOpen(p)
    \/ WriteWaits(p)   \/ WriteBroken(p)  \/ WriteInserts(p)  \/ UndoWrite(p)
    \/ ReadWaits(p)    \/ ReadEnds(p)     \/ ReadExtracts(p)  \/ ReadFaults(p)
    \/ UndoRead(p)     \/ Release(p)

Next ==
    \E p \in Proc :
        \/ CallOpen(p) \/ CallTransfer(p) \/ CallRelease(p)
        \/ Step(p)
        \/ InterruptSleep(p) \/ InterruptMtx(p)

Spec == Init /\ [][Next]_vars

\* A runnable kernel path is eventually scheduled, and every file is closed in
\* the end, if only because its process ends.
Fairness == \A p \in Proc : WF_vars(Step(p)) /\ WF_vars(CallRelease(p))
FairSpec == Spec /\ Fairness
-----------------------------------------------------------------------------
(* Properties                                                              *)

(* Every variable keeps its type; the buffer holds at most Capacity bytes and
   never a negative number, and the semaphores stay well formed. *)
TypeOK ==
    /\ call \in [Proc -> {"closed", "open", "opened", "transfer", "release"}]
    /\ at \in [Proc -> {"out", "mtx", "sleep", "sem", "relock", "eintr", "undo"}]
    /\ len \in [Proc -> {0} \cup WriteLens \cup ReadLens]
    /\ calls \in [Proc -> 0..MaxCalls]
    /\ fill \in 0..Capacity
    /\ count \in [Roles -> Int]
    /\ waiting \in [Roles -> Int]
    /\ drift \in [Roles -> Int] /\ spill \in 0..Capacity
    /\ \A r \in Roles : IsSemaphore(sem[r], {p \in Proc : Role(p) = r})
    /\ IsSemaphore(mtx, Proc)

\* p's open has registered p, and neither its failure nor a release undid it.
Registered(p) ==
    \/ call[p] \in {"opened", "transfer", "release"}
    \/ call[p] = "open" /\ at[p] # "mtx"

Members(r) == {p \in Proc : Role(p) = r}
RegisteredIn(r) == {p \in Members(r) : Registered(p)}

(* prod_count and cons_count are, as their comments say, the numbers of
   processes that have the FIFO open for writing and for reading, but for the
   interrupted calls that return without undoing the count (56, 80, 219: one
   too many) and the interrupted writes that undo too much (123: one too few).
   Everything read and write decide, end of file and broken pipe included,
   rests on it. *)
CountsExact ==
    \A r \in Roles : count[r] = Cardinality(RegisteredIn(r)) + drift[r]

(* Nobody finds the bytes of an earlier conversation: when no process has the
   FIFO open and the counts say so, the buffer is empty.  The one exception is
   the last process to leave being interrupted, in open or in release: it does
   not reset the buffer, and what the next conversation finds is what it left. *)
FreshStart ==
    (\A p \in Proc : ~Registered(p)) /\ (\A r \in Roles : drift[r] = 0)
        => fill = spill

(* A transfer is complete: write inserts all its bytes, and read extracts all
   it was asked for unless the producers are gone or an interrupted write was
   counted out. *)
CompleteTransfers ==
    [][\A p \in Proc : call[p] = "transfer" /\ call'[p] = "opened" =>
        /\ fill' > fill => fill' = fill + len[p]
        /\ fill' < fill => 
            \/ fill' = fill - len[p]
            \/ RegisteredIn("prod") = {} \/ drift["prod"] < 0
      ]_vars

\* p is between a granted down on mtx and its up().
InCritical(p) == at[p] \in {"mtx", "relock", "undo"} /\ Granted(mtx, p)

Asleep(p) == at[p] = "sem" /\ ~Granted(sem[Role(p)], p)

\* No handler can run: each process is outside, asleep or waiting for mtx.
Quiet ==
    \A p \in Proc :
        \/ at[p] = "out"
        \/ Asleep(p)
        \/ at[p] \in {"mtx", "relock", "undo"} /\ ~Granted(mtx, p)

(* mtx is one unit, free or held by one running handler: no path, interrupted
   or not, gives it back twice, and, bad user buffers apart, none keeps it. *)
MtxKept ==
    LET units == mtx.count + Cardinality({p \in Proc : InCritical(p)})
    IN  units <= 1 /\ (~Faults => units = 1)

(* A reader is not left asleep beside the bytes it waits for: write wakes
   "a possible blocked consumer" (line 143). *)
ReaderWoken ==
    Quiet => \A p \in Consumers :
        Asleep(p) /\ call[p] = "transfer" => fill < len[p]

(* A single producer sleeps only for a reason: in write beside too little room
   and a consumer that can make some, in open while there is no consumer (64).
   Each time nr_prod_waiting is decremented, sem_prod has been signalled. *)
ProducerWoken ==
    Quiet => \A p \in Producers :
        Asleep(p) => IF call[p] = "transfer"
                     THEN Avail < len[p] /\ count["cons"] > 0
                     ELSE count["cons"] = 0

\* A handler returned with mtx.
MtxLost == mtx.count = 0 /\ \A p \in Proc : ~InCritical(p)

(* Only a read loses mtx, when it returns -EFAULT (line 207); no interrupted
   path does.  From then on the FIFO is dead: no signal, no other call and no
   release brings mtx back, and its state is frozen. *)
MtxLostForGood ==
    [][ /\ MtxLost => MtxLost' /\ UNCHANGED <<fill, count, waiting>>
        /\ MtxLost' => \/ MtxLost
                       \/ \E p \in Consumers : OwnsRead(p) /\ call'[p] = "opened"
      ]_vars

\* A writer lacks room and a reader lacks data.
Stuck ==
    \E w \in Producers, c \in Consumers :
       /\ call[w] = "transfer" /\ Avail < len[w]
       /\ call[c] = "transfer" /\ fill < len[c]

(* With one producer and one consumer that close the FIFO in the end, every
   read and every write returns, woken by the other side's next transfer, by its
   wait, or at the latest by its release, unless the two of them lack each
   other's room.  With 256 bytes to write and 1024 in the buffer that takes a read
   of 770 bytes or more, which the code does not refuse as pseudocodigo.txt:61
   does. *)
CallsReturn ==
    \A p \in Proc : call[p] = "transfer" ~> call[p] = "opened" \/ Stuck

(* And then neither returns any more unless a signal comes: each goes on waking
   the other, which finds what it found before and waits again. *)
StuckForGood == [][Stuck => Stuck']_vars
=============================================================================
