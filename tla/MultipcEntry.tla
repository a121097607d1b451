----------------------------- MODULE MultipcEntry -----------------------------
(***************************************************************************)
(* One entry /proc/multipc/<name> of multipc.c: test_write and test_read,  *)
(* called at any time by any process, and any number of them at once.      *)
(* The semaphores huecos (free slots), elementos (full slots) and mtx are  *)
(* those of struct list_item; cbuf is its ring of pointers.                *)
(*                                                                         *)
(* pc[p] is the statement p is about to execute; a process whose pc is     *)
(* "huecos", "wmtx", "elementos" or "rmtx" has called down_interruptible   *)
(* and is either blocked in it or already past it (Granted).  The early    *)
(* returns on a bad length, offset, user pointer or number come before any *)
(* shared state is touched and are left out.                               *)
(***************************************************************************)
EXTENDS Semaphore, Kfifo, FiniteSets

CONSTANTS
    Proc,       \* processes that opened the entry
    Block,      \* addresses vmalloc can return
    NoBlock     \* a pointer that designates nothing

ASSUME EntryAssumption ==
    /\ IsFiniteSet(Proc)
    /\ NoBlock \notin Block

VARIABLES
    pc,         \* pc[p]: where p stands in test_write or test_read
    val,        \* val[p]: the pointer local to p's call
    cbuf,       \* struct kfifo cbuf
    huecos,     \* free slots, max_size of them at first
    elementos,  \* full slots, none at first
    mtx         \* mutual exclusion on cbuf

vars == <<pc, val, cbuf, huecos, elementos, mtx>>

WriteLabels == {"huecos", "wmtx", "wundo", "advance_in", "wunlock", "wsignal"}
ReadLabels == {"elementos", "rmtx", "rundo", "advance_out", "runlock",
               "rsignal", "rdone"}
Labels == {"idle"} \cup WriteLabels \cup ReadLabels

\* p moves from one statement to another.
Goto(p, from, to) ==
    /\ pc[p] = from
    /\ pc' = [pc EXCEPT ![p] = to]

\* The pointers that a running call or the ring still holds; vmalloc returns
\* none of them.
InUse == {val[p] : p \in Proc} \cup {Contents(cbuf)[i] : i \in 1..Used(cbuf)}

-----------------------------------------------------------------------------
(* test_write                                                              *)

\* Checks passed and the data copied into a new block: down(&huecos).
BeginWrite(p) ==
    /\ Goto(p, "idle", "huecos")
    /\ \E b \in Block \ InUse : val' = [val EXCEPT ![p] = b]
    /\ huecos' = Down(huecos, p)
    /\ UNCHANGED <<cbuf, elementos, mtx>>

\* A signal while waiting for a slot: -EINTR, and the block is forgotten.
InterruptHuecos(p) ==
    /\ ~Granted(huecos, p)
    /\ Goto(p, "huecos", "idle")
    /\ huecos' = Cancel(huecos, p)
    /\ val' = [val EXCEPT ![p] = NoBlock]
    /\ UNCHANGED <<cbuf, elementos, mtx>>

\* Mutant of WriteLock: the ring is filled without mtx.
WriteLockForgotten(p) ==
    /\ Granted(huecos, p)
    /\ Goto(p, "huecos", "wmtx")
    /\ UNCHANGED <<val, cbuf, huecos, elementos, mtx>>

WriteLock(p) ==
    /\ Granted(huecos, p)
    /\ Goto(p, "huecos", "wmtx")
    /\ mtx' = Down(mtx, p)
    /\ UNCHANGED <<val, cbuf, huecos, elementos>>

\* A signal while waiting for mtx: the slot has to be given back.
InterruptWriteLock(p) ==
    /\ ~Granted(mtx, p)
    /\ Goto(p, "wmtx", "wundo")
    /\ mtx' = Cancel(mtx, p)
    /\ UNCHANGED <<val, cbuf, huecos, elementos>>

\* Mutant of UndoHuecos: the interrupted writer keeps its slot.
UndoHuecosForgotten(p) ==
    /\ Goto(p, "wundo", "idle")
    /\ val' = [val EXCEPT ![p] = NoBlock]
    /\ UNCHANGED <<cbuf, huecos, elementos, mtx>>

UndoHuecos(p) ==
    /\ Goto(p, "wundo", "idle")
    /\ huecos' = Up(huecos)
    /\ val' = [val EXCEPT ![p] = NoBlock]
    /\ UNCHANGED <<cbuf, elementos, mtx>>

\* First half of kfifo_in; without room it copies nothing and moves nothing.
KfifoInCopy(p) ==
    /\ Granted(mtx, p)
    /\ Goto(p, "wmtx", IF HasRoom(cbuf) THEN "advance_in" ELSE "wunlock")
    /\ cbuf' = IF HasRoom(cbuf) THEN CopyIn(cbuf, val[p]) ELSE cbuf
    /\ UNCHANGED <<val, huecos, elementos, mtx>>

\* Second half of kfifo_in: the block now belongs to the ring.
KfifoInAdvance(p) ==
    /\ Goto(p, "advance_in", "wunlock")
    /\ cbuf' = AdvanceIn(cbuf)
    /\ val' = [val EXCEPT ![p] = NoBlock]
    /\ UNCHANGED <<huecos, elementos, mtx>>

\* Mutant of WriteUnlock: up(&mtx) is missing.
WriteUnlockForgotten(p) ==
    /\ Goto(p, "wunlock", "wsignal")
    /\ UNCHANGED <<val, cbuf, huecos, elementos, mtx>>

WriteUnlock(p) ==
    /\ Goto(p, "wunlock", "wsignal")
    /\ mtx' = Up(mtx)
    /\ UNCHANGED <<val, cbuf, huecos, elementos>>

\* Mutant of SignalElementos: a wakeup only for a reader that waits already.
SignalElementosToWaiters(p) ==
    /\ Goto(p, "wsignal", "idle")
    /\ elementos' = IF Waiting(elementos) = {} THEN elementos ELSE Up(elementos)
    /\ UNCHANGED <<val, cbuf, huecos, mtx>>

SignalElementos(p) ==
    /\ Goto(p, "wsignal", "idle")
    /\ elementos' = Up(elementos)
    /\ UNCHANGED <<val, cbuf, huecos, mtx>>

-----------------------------------------------------------------------------
(* test_read                                                               *)

BeginRead(p) ==
    /\ Goto(p, "idle", "elementos")
    /\ elementos' = Down(elementos, p)
    /\ UNCHANGED <<val, cbuf, huecos, mtx>>

InterruptElementos(p) ==
    /\ ~Granted(elementos, p)
    /\ Goto(p, "elementos", "idle")
    /\ elementos' = Cancel(elementos, p)
    /\ UNCHANGED <<val, cbuf, huecos, mtx>>

ReadLock(p) ==
    /\ Granted(elementos, p)
    /\ Goto(p, "elementos", "rmtx")
    /\ mtx' = Down(mtx, p)
    /\ UNCHANGED <<val, cbuf, huecos, elementos>>

InterruptReadLock(p) ==
    /\ ~Granted(mtx, p)
    /\ Goto(p, "rmtx", "rundo")
    /\ mtx' = Cancel(mtx, p)
    /\ UNCHANGED <<val, cbuf, huecos, elementos>>

UndoElementos(p) ==
    /\ Goto(p, "rundo", "idle")
    /\ elementos' = Up(elementos)
    /\ UNCHANGED <<val, cbuf, huecos, mtx>>

\* Mutant of KfifoOutCopy: kfifo_out_peek, which leaves the item in the ring.
KfifoOutPeek(p) ==
    /\ Granted(mtx, p)
    /\ Goto(p, "rmtx", "runlock")
    /\ val' = [val EXCEPT ![p] = OldestItem(cbuf)]
    /\ UNCHANGED <<cbuf, huecos, elementos, mtx>>

\* First half of kfifo_out; from an empty ring it copies nothing.
KfifoOutCopy(p) ==
    /\ Granted(mtx, p)
    /\ Goto(p, "rmtx", IF HasItem(cbuf) THEN "advance_out" ELSE "runlock")
    /\ val' = [val EXCEPT ![p] = IF HasItem(cbuf) THEN OldestItem(cbuf)
                                                  ELSE NoBlock]
    /\ UNCHANGED <<cbuf, huecos, elementos, mtx>>

KfifoOutAdvance(p) ==
    /\ Goto(p, "advance_out", "runlock")
    /\ cbuf' = AdvanceOut(cbuf)
    /\ UNCHANGED <<val, huecos, elementos, mtx>>

ReadUnlock(p) ==
    /\ Goto(p, "runlock", "rsignal")
    /\ mtx' = Up(mtx)
    /\ UNCHANGED <<val, cbuf, huecos, elementos>>

\* Mutant of SignalHuecos: the reader signals a full slot.
SignalHuecosSwapped(p) ==
    /\ Goto(p, "rsignal", "rdone")
    /\ elementos' = Up(elementos)
    /\ UNCHANGED <<val, cbuf, huecos, mtx>>

SignalHuecos(p) ==
    /\ Goto(p, "rsignal", "rdone")
    /\ huecos' = Up(huecos)
    /\ UNCHANGED <<val, cbuf, elementos, mtx>>

\* The block is printed, freed, and its text copied to the user (or lost, if
\* the user's buffer is too short or invalid: the block is gone either way).
FreeBlock(p) ==
    /\ Goto(p, "rdone", "idle")
    /\ val' = [val EXCEPT ![p] = NoBlock]
    /\ UNCHANGED <<cbuf, huecos, elementos, mtx>>

-----------------------------------------------------------------------------
Init ==
    /\ pc = [p \in Proc |-> "idle"]
    /\ val = [p \in Proc |-> NoBlock]
    /\ cbuf = NewKfifo(NoBlock)
    /\ huecos = NewSemaphore(max_size)
    /\ elementos = NewSemaphore(0)
    /\ mtx = NewSemaphore(1)

\* The statements a call executes by itself, once it is running.
WriteStep(p) ==
    \/ WriteLock(p)      \/ KfifoInCopy(p)  \/ KfifoInAdvance(p)
    \/ WriteUnlock(p)    \/ SignalElementos(p)  \/ UndoHuecos(p)

ReadStep(p) ==
    \/ ReadLock(p)       \/ KfifoOutCopy(p) \/ KfifoOutAdvance(p)
    \/ ReadUnlock(p)     \/ SignalHuecos(p) \/ UndoElementos(p)
    \/ FreeBlock(p)

\* Signals delivered to a blocked process.
Interrupt(p) ==
    \/ InterruptHuecos(p)     \/ InterruptWriteLock(p)
    \/ InterruptElementos(p)  \/ InterruptReadLock(p)

Next ==
    \E p \in Proc :
        \/ BeginWrite(p)
        \/ BeginRead(p)
        \/ WriteStep(p)
        \/ ReadStep(p)
        \/ Interrupt(p)

Spec == Init /\ [][Next]_vars

\* A runnable kernel path is eventually scheduled.  Nothing forces a user to
\* call again, or a signal to arrive.
Fairness == \A p \in Proc : WF_vars(WriteStep(p)) /\ WF_vars(ReadStep(p))
FairSpec == Spec /\ Fairness
-----------------------------------------------------------------------------
(* Properties                                                              *)

Pointers == Block \cup {NoBlock}

(* Every variable keeps its type, and the three semaphores stay well
   formed: nobody is queued twice, nobody is queued while units are left. *)
TypeOK ==
    /\ pc \in [Proc -> Labels]
    /\ val \in [Proc -> Pointers]
    /\ cbuf \in [in : Index, out : Index, data : [0..(max_size - 1) -> Pointers]]
    /\ IsSemaphore(huecos, Proc)
    /\ IsSemaphore(elementos, Proc)
    /\ IsSemaphore(mtx, Proc)

\* p is between a successful down_interruptible(&mtx) and its up(&mtx).
InCritical(p) ==
    \/ pc[p] \in {"advance_in", "wunlock", "advance_out", "runlock"}
    \/ pc[p] \in {"wmtx", "rmtx"} /\ Granted(mtx, p)

(* The code between the two calls on mtx, where the ring is touched, is
   executed by one process at a time, whatever signals arrive. *)
MutualExclusion ==
    \A p, q \in Proc : InCritical(p) /\ InCritical(q) => p = q

\* p owns a free slot: it has not filled it yet, or it has just emptied it.
HoldsHueco(p) ==
    \/ pc[p] = "huecos" /\ Granted(huecos, p)
    \/ pc[p] \in {"wmtx", "wundo", "advance_in", "runlock", "rsignal"}

\* p owns a full slot: it has not emptied it yet, or it has just filled it.
HoldsElemento(p) ==
    \/ pc[p] = "elementos" /\ Granted(elementos, p)
    \/ pc[p] \in {"rmtx", "rundo", "advance_out", "wunlock", "wsignal"}

(* Every slot of the ring is accounted for: it is a unit of huecos, or of
   elementos, or it is in the hands of one running call.  No path, and no
   interrupted path, creates or loses a unit. *)
SlotConservation ==
    /\ huecos.count + Cardinality({p \in Proc : HoldsHueco(p)}) + Used(cbuf)
         = max_size
    /\ elementos.count + Cardinality({p \in Proc : HoldsElemento(p)})
         = Used(cbuf)

(* A writer that reached kfifo_in finds room for a whole pointer and a reader
   that reached kfifo_out finds a whole pointer, so the test of line 196 for
   a short extraction (made after the pointer was used) never fires. *)
NoShortTransfer ==
    \A p \in Proc : Granted(mtx, p) =>
        /\ pc[p] = "wmtx" => HasRoom(cbuf)
        /\ pc[p] = "rmtx" => HasItem(cbuf)

(* A block has one owner: no two calls hold it, no call holds one that is
   still in the ring, and it is not in the ring twice.  Otherwise it would be
   freed twice, or read after it was freed. *)
SoleOwner ==
    /\ \A p, q \in Proc : val[p] = val[q] /\ val[p] # NoBlock => p = q
    /\ \A i, j \in 1..Used(cbuf) :
          Contents(cbuf)[i] = Contents(cbuf)[j] => i = j
    /\ \A p \in Proc, i \in 1..Used(cbuf) :
          val[p] = Contents(cbuf)[i] => pc[p] = "advance_out" /\ i = 1

\* Nobody is executing code: every process is outside, or blocked.
Quiet ==
    \A p \in Proc :
        \/ pc[p] = "idle"
        \/ pc[p] = "huecos" /\ ~Granted(huecos, p)
        \/ pc[p] = "elementos" /\ ~Granted(elementos, p)
        \/ pc[p] \in {"wmtx", "rmtx"} /\ ~Granted(mtx, p)

(* No wakeup is lost.  When nothing runs, a writer is blocked only because
   the ring is full, a reader only because it is empty, and nobody is blocked
   on mtx; so readers and writers are never all blocked on one another. *)
NoLostWakeup ==
    Quiet =>
        /\ Waiting(mtx) = {}
        /\ Waiting(huecos) # {} => Used(cbuf) = max_size
        /\ Waiting(elementos) # {} => Used(cbuf) = 0

(* The entry implements a bounded first-in first-out channel: a block enters
   it when kfifo_in moves its index and leaves it when kfifo_out does. *)
Channel == INSTANCE BoundedChannel WITH
    Capacity <- max_size,
    queue <- Contents(cbuf),
    offer <- [p \in Proc |-> IF pc[p] \in WriteLabels THEN val[p] ELSE NoBlock],
    taken <- [p \in Proc |-> IF pc[p] \in {"runlock", "rsignal", "rdone"}
                             THEN val[p] ELSE NoBlock]

ImplementsChannel == Channel!Spec

(* Whoever asks for mtx gets it or is interrupted, and a writer that was given
   a slot finishes its call: no path keeps mtx, and mtx is handed over in
   first-in first-out order, so nobody is overtaken for ever. *)
CallsFinish ==
    \A p \in Proc :
        /\ pc[p] \in {"wmtx", "rmtx"} ~> pc[p] \notin {"wmtx", "rmtx"}
        /\ HoldsHueco(p) \/ HoldsElemento(p) ~> pc[p] = "idle"
=============================================================================
