---------------------------- MODULE FifoProcProofs -----------------------------
(***************************************************************************)
(* Proofs about fifoproc.c, for any number of producers and of consumers,  *)
(* any capacity, and transfers of any length.                              *)
(*                                                                         *)
(* The books of mtx balance as those of the semaphores of MultipcEntry do, *)
(* but the unit can be lost: MtxOK says that there is one unit or none.    *)
(* The counts are right because each statement that changes one changes    *)
(* with it who is registered, or the drift; that the buffer is empty when  *)
(* nobody has the FIFO open then follows from the test in release.  Last   *)
(* comes an account of the wake-ups that a single producer is owed.        *)
(***************************************************************************)
EXTENDS FifoProc, CommonLemmas

\* The processes that called down on mtx and owe it an up.
MtxUsers == {p \in Proc : at[p] \in {"mtx", "relock", "undo"}}

\* The units of mtx that exist.
MtxUnits == Units(mtx, MtxUsers)

Types ==
    /\ call \in [Proc -> {"closed", "open", "opened", "transfer", "release"}]
    /\ at \in [Proc -> {"out", "mtx", "sleep", "sem", "relock", "eintr", "undo"}]
    /\ len \in [Proc -> {0} \cup WriteLens \cup ReadLens]
    /\ calls \in [Proc -> 0..MaxCalls]
    /\ fill \in 0..Capacity
    /\ count \in [Roles -> Int]
    /\ waiting \in [Roles -> Int]
    /\ drift \in [Roles -> Int] /\ spill \in 0..Capacity

\* Only those who called down on a queue wait in it.
QueuesOK ==
    /\ sem \in [Roles -> [count : Nat, queue : Seq(Proc)]]
    /\ \A r \in Roles :
          /\ IsSemaphore(sem[r], Proc)
          /\ Waiting(sem[r]) \subseteq {p \in Members(r) : at[p] = "sem"}

\* mtx is one unit, or is lost.
MtxOK ==
    /\ Ledger(mtx, Proc, MtxUsers, MtxUsers, MtxUnits)
    /\ MtxUnits \in {0, 1}
    /\ ~Faults => MtxUnits = 1

\* No consumer is counted out by mistake.
ConsumersCounted == drift["cons"] >= 0

\* The inductive invariant.
Inv ==
    /\ Types
    /\ QueuesOK
    /\ MtxOK
    /\ CountsExact
    /\ ConsumersCounted
    /\ FreshStart
-----------------------------------------------------------------------------
(* Steps                                                                   *)

\* A step of p.
StepOf(p) ==
    \/ CallOpen(p) \/ CallTransfer(p) \/ CallRelease(p)
    \/ Step(p)
    \/ InterruptSleep(p) \/ InterruptMtx(p)

\* Only p moves.
OnlyMoves(p) ==
    \A q \in Proc \ {p} : call'[q] = call[q] /\ at'[q] = at[q]

\* p has mtx and does not call down on it again.
Leaves(p) ==
    /\ at[p] \in {"mtx", "relock", "undo"}
    /\ at'[p] \in {"out", "sleep"}

(* The processes, and those with the FIFO open, are finitely many. *)
LEMMA Finite ==
    /\ IsFiniteSet(Proc) /\ IsFiniteSet(MtxUsers)
    /\ \A r \in Roles : /\ IsFiniteSet(RegisteredIn(r))
                         /\ Cardinality(RegisteredIn(r)) \in Nat
<1>1. IsFiniteSet(Proc)
  BY FifoAssumption, FS_Union DEF Proc
<1>2. MtxUsers \subseteq Proc /\ \A r \in Roles : RegisteredIn(r) \subseteq Proc
  BY DEF MtxUsers, RegisteredIn, Members
<1> QED BY <1>1, <1>2, FS_Subset, FS_CardinalityType

(* Lengths are numbers. *)
LEMMA LengthsAreNumbers == \A n : n \in WriteLens \/ n \in ReadLens => n \in Nat
<1>1. \A n \in 1..Capacity : n \in Nat
  OBVIOUS
<1>2. WriteLens \subseteq 1..Capacity /\ ReadLens \subseteq Nat
  BY FifoAssumption
<1> QED BY <1>1, <1>2

(* Every process has one of the two roles. *)
LEMMA RoleType ==
    ASSUME NEW p \in Proc
    PROVE  /\ Role(p) \in Roles /\ Other(Role(p)) \in Roles
           /\ p \in Producers => Role(p) = "prod"
           /\ p \in Consumers => Role(p) = "cons"
BY FifoAssumption DEF Proc, Role, Roles, Other

(* One process moves at a time, and the variables keep their types. *)
LEMMA StepTypes ==
    ASSUME Types, NEW p \in Proc, StepOf(p)
    PROVE  OnlyMoves(p) /\ Types'
<1>00. len[p] \in Nat
  <2>1. len[p] = 0 \/ len[p] \in WriteLens \/ len[p] \in ReadLens
    BY DEF Types
  <2>2. \A n : n \in WriteLens \/ n \in ReadLens => n \in Nat
    BY LengthsAreNumbers
  <2> QED BY <2>1, <2>2
<1> USE FifoAssumption DEF Types, OnlyMoves, shared, history
<1>0. /\ Role(p) \in Roles /\ Other(Role(p)) \in Roles
      /\ "prod" \in Roles /\ "cons" \in Roles
  BY RoleType DEF Roles
<1>1. CASE CallOpen(p)
  BY <1>0, <1>1 DEF CallOpen, Enter
<1>2. CASE CallTransfer(p)
  BY <1>0, <1>2 DEF CallTransfer, Enter
<1>3. CASE CallRelease(p)
  BY <1>0, <1>3 DEF CallRelease, Enter
<1>4. CASE Sleep(p) \/ Relock(p) \/ UndoLock(p)
  BY <1>0, <1>4 DEF Sleep, Relock, UndoLock
<1>5. CASE Open(p)
  BY <1>0, <1>5 DEF Open, AwaitOther, GoToSleep, Return
<1>6. CASE RecheckOpen(p)
  BY <1>0, <1>6 DEF RecheckOpen, AwaitOther, GoToSleep, Return
<1>7. CASE UndoOpen(p)
  BY <1>0, <1>7 DEF UndoOpen, Return
<1>8. CASE WriteWaits(p)
  BY <1>0, <1>8 DEF WriteWaits, GoToSleep
<1>9. CASE WriteBroken(p)
  BY <1>0, <1>9 DEF WriteBroken, Return
<1>10. CASE WriteInserts(p)
  <2>1. fill' \in 0..Capacity
    BY <1>00, <1>10 DEF WriteInserts, Least, Avail
  <2>2. waiting' \in [Roles -> Int]
    BY <1>0, <1>10 DEF WriteInserts, WakeCounted
  <2> QED BY <2>1, <2>2, <1>10 DEF WriteInserts, Return
<1>11. CASE UndoWrite(p)
  BY <1>0, <1>11 DEF UndoWrite, Return
<1>12. CASE ReadWaits(p)
  BY <1>0, <1>12 DEF ReadWaits, GoToSleep
<1>13. CASE ReadEnds(p)
  BY <1>0, <1>13 DEF ReadEnds, Return
<1>14. CASE ReadExtracts(p) \/ ReadFaults(p)
  <2>1. fill' \in 0..Capacity
    BY <1>00, <1>14 DEF ReadExtracts, ReadFaults, Extract, Least
  <2>2. waiting' \in [Roles -> Int]
    BY <1>0, <1>14 DEF ReadExtracts, ReadFaults, Extract, WakeCounted
  <2> QED BY <2>1, <2>2, <1>14 DEF ReadExtracts, ReadFaults, Extract, Return
<1>15. CASE UndoRead(p)
  BY <1>0, <1>15 DEF UndoRead, Return
<1>16. CASE Release(p)
  BY <1>0, <1>16 DEF Release, Return, FillAfter
<1>17. CASE InterruptSleep(p)
  BY <1>0, <1>17 DEF InterruptSleep
<1>18. CASE InterruptMtx(p)
  BY <1>0, <1>18 DEF InterruptMtx, Return
<1> QED BY <1>1, <1>2, <1>3, <1>4, <1>5, <1>6, <1>7, <1>8, <1>9, <1>10, <1>11, <1>12, <1>13, <1>14, <1>15, <1>16, <1>17, <1>18 DEF StepOf, Step
-----------------------------------------------------------------------------
(* mtx                                                                     *)

(* A process calls down on mtx. *)
LEMMA AsksForMtx ==
    ASSUME Types, NEW p \in Proc, OnlyMoves(p), NEW n,
           Ledger(mtx, Proc, MtxUsers, MtxUsers, n),
           at[p] \notin {"mtx", "relock", "undo"},
           at'[p] \in {"mtx", "relock", "undo"}, mtx' = Down(mtx, p)
    PROVE  Ledger(mtx', Proc, MtxUsers', MtxUsers', n)
<1>1. MtxUsers' = MtxUsers \cup {p} /\ p \notin MtxUsers
  BY DEF MtxUsers, OnlyMoves
<1> QED BY <1>1, Finite, LedgerDown

(* A process that has mtx gives it back. *)
LEMMA GivesMtx ==
    ASSUME Types, NEW p \in Proc, OnlyMoves(p), NEW n,
           Ledger(mtx, Proc, MtxUsers, MtxUsers, n),
           Leaves(p), Granted(mtx, p), mtx' = Up(mtx)
    PROVE  Ledger(mtx', Proc, MtxUsers', MtxUsers', n)
<1>1. MtxUsers' = MtxUsers \ {p} /\ p \in MtxUsers
  BY DEF MtxUsers, OnlyMoves, Leaves
<1>2. Ledger(mtx, Proc, MtxUsers \ {p}, MtxUsers, n)
  BY LedgerPass
<1>3. Ledger(Up(mtx), Proc, MtxUsers \ {p}, MtxUsers \ {p}, n)
  BY <1>1, <1>2, Finite, LedgerUp
<1> QED BY <1>1, <1>3

(* A process that has mtx returns without giving it back. *)
LEMMA LosesMtx ==
    ASSUME Types, NEW p \in Proc, OnlyMoves(p), NEW n,
           Ledger(mtx, Proc, MtxUsers, MtxUsers, n),
           Leaves(p), Granted(mtx, p), mtx' = mtx
    PROVE  Ledger(mtx', Proc, MtxUsers', MtxUsers', n - 1)
<1>1. MtxUsers' = MtxUsers \ {p} /\ p \in MtxUsers
  BY DEF MtxUsers, OnlyMoves, Leaves
<1>2. Ledger(mtx, Proc, MtxUsers \ {p}, MtxUsers, n)
  BY LedgerPass
<1>3. Ledger(mtx, Proc, MtxUsers \ {p}, MtxUsers \ {p}, n - 1)
  BY <1>1, <1>2, Finite, LedgerLeave
<1> QED BY <1>1, <1>3

(* A process that waits for mtx gives up. *)
LEMMA GivesUpMtx ==
    ASSUME Types, NEW p \in Proc, OnlyMoves(p), NEW n,
           Ledger(mtx, Proc, MtxUsers, MtxUsers, n),
           Leaves(p), ~Granted(mtx, p), mtx' = Cancel(mtx, p)
    PROVE  Ledger(mtx', Proc, MtxUsers', MtxUsers', n)
<1>1. MtxUsers' = MtxUsers \ {p}
  BY DEF MtxUsers, OnlyMoves, Leaves
<1>2. Ledger(Cancel(mtx, p), Proc, MtxUsers \ {p}, MtxUsers \ {p}, n)
  BY LedgerCancel
<1> QED BY <1>1, <1>2

(* A step of p keeps the units of mtx, but for the read of a bad buffer, which
   loses one. *)
LEMMA StepLedger ==
    ASSUME Types, NEW p \in Proc, StepOf(p), NEW n,
           Ledger(mtx, Proc, MtxUsers, MtxUsers, n)
    PROVE  \/ Ledger(mtx', Proc, MtxUsers', MtxUsers', n)
           \/ ReadFaults(p) /\ Ledger(mtx', Proc, MtxUsers', MtxUsers', n - 1)
<1>0. OnlyMoves(p) /\ at \in [Proc -> {"out", "mtx", "sleep", "sem", "relock",
                                       "eintr", "undo"}]
  BY StepTypes DEF Types
<1>1. CASE CallOpen(p) \/ CallTransfer(p) \/ CallRelease(p)
  <2>1. at[p] = "out" /\ at'[p] = "mtx" /\ mtx' = Down(mtx, p)
    BY <1>0, <1>1 DEF CallOpen, CallTransfer, CallRelease, Enter
  <2> QED BY <1>0, <2>1, AsksForMtx
<1>2. CASE Relock(p) \/ UndoLock(p)
  <2>1. at[p] \in {"sem", "eintr"} /\ at'[p] \in {"relock", "undo"}
        /\ mtx' = Down(mtx, p)
    BY <1>0, <1>2 DEF Relock, UndoLock
  <2> QED BY <1>0, <2>1, AsksForMtx
<1>3. CASE Sleep(p) \/ InterruptSleep(p)
  <2>1. at[p] \in {"sleep", "sem"} /\ at'[p] \in {"sem", "eintr"} /\ mtx' = mtx
    BY <1>0, <1>3 DEF Sleep, InterruptSleep
  <2>2. MtxUsers' = MtxUsers
    BY <1>0, <2>1 DEF MtxUsers, OnlyMoves
  <2> QED BY <2>1, <2>2
<1>4. CASE Open(p) \/ RecheckOpen(p) \/ UndoOpen(p)
  <2>1. Leaves(p) /\ Granted(mtx, p) /\ mtx' = Up(mtx)
    BY <1>0, <1>4 DEF Open, RecheckOpen, UndoOpen, AwaitOther, GoToSleep, Return,
                      Owns, Leaves
  <2> QED BY <1>0, <2>1, GivesMtx
<1>5. CASE WriteWaits(p) \/ WriteBroken(p) \/ WriteInserts(p) \/ UndoWrite(p)
  <2>1. Leaves(p) /\ Granted(mtx, p) /\ mtx' = Up(mtx)
    BY <1>0, <1>5 DEF WriteWaits, WriteBroken, WriteInserts, UndoWrite, GoToSleep,
                      Return, Owns, OwnsWrite, Leaves
  <2> QED BY <1>0, <2>1, GivesMtx
<1>6. CASE ReadWaits(p) \/ ReadEnds(p) \/ ReadExtracts(p) \/ UndoRead(p)
  <2>1. Leaves(p) /\ Granted(mtx, p) /\ mtx' = Up(mtx)
    BY <1>0, <1>6 DEF ReadWaits, ReadEnds, ReadExtracts, Extract, UndoRead,
                      GoToSleep, Return, Owns, OwnsRead, Leaves
  <2> QED BY <1>0, <2>1, GivesMtx
<1>7. CASE ReadFaults(p)
  <2>1. Leaves(p) /\ Granted(mtx, p) /\ mtx' = mtx
    BY <1>0, <1>7 DEF ReadFaults, Extract, Return, Owns, OwnsRead, Leaves
  <2> QED BY <1>0, <1>7, <2>1, LosesMtx
<1>8. CASE Release(p)
  <2>1. Leaves(p) /\ Granted(mtx, p) /\ mtx' = Up(mtx)
    BY <1>0, <1>8 DEF Release, Return, Owns, Leaves
  <2> QED BY <1>0, <2>1, GivesMtx
<1>9. CASE InterruptMtx(p)
  <2>1. Leaves(p) /\ ~Granted(mtx, p) /\ mtx' = Cancel(mtx, p)
    BY <1>0, <1>9 DEF InterruptMtx, Return, Leaves
  <2> QED BY <1>0, <2>1, GivesUpMtx
<1> QED BY <1>1, <1>2, <1>3, <1>4, <1>5, <1>6, <1>7, <1>8, <1>9 DEF StepOf, Step

(* The books of mtx hold after the step, for one unit or for none. *)
LEMMA StepMtx ==
    ASSUME Types, MtxOK, NEW p \in Proc, StepOf(p)
    PROVE  /\ MtxOK'
           /\ MtxUnits' = MtxUnits \/ (ReadFaults(p) /\ MtxUnits' = MtxUnits - 1)
<1>1. PICK n \in {0, 1} : n = MtxUnits /\ (~Faults => n = 1)
  BY DEF MtxOK
<1>2. Ledger(mtx, Proc, MtxUsers, MtxUsers, n)
  BY <1>1 DEF MtxOK
<1>3. CASE Ledger(mtx', Proc, MtxUsers', MtxUsers', n)
  <2>1. MtxUnits' = n
    BY <1>3 DEF Ledger, MtxUnits
  <2> QED BY <1>1, <1>3, <2>1 DEF MtxOK
<1>4. CASE ReadFaults(p) /\ Ledger(mtx', Proc, MtxUsers', MtxUsers', n - 1)
  <2>1. MtxUnits' = n - 1
    BY <1>4 DEF Ledger, MtxUnits
  <2>2. n > 0
    <3>1. p \in MtxUsers /\ Granted(mtx, p)
      BY <1>4 DEF ReadFaults, Extract, OwnsRead, Owns, MtxUsers
    <3> QED BY <1>2, <3>1, Finite, LedgerHolder
  <2>3. Faults
    BY <1>4 DEF ReadFaults
  <2> QED BY <1>1, <1>4, <2>1, <2>2, <2>3 DEF MtxOK
<1> QED BY <1>2, <1>3, <1>4, StepLedger
-----------------------------------------------------------------------------
(* The queues                                                              *)

\* The processes in the queue of role r.
Sleepers(r) == {p \in Members(r) : at[p] = "sem"}

(* A queue r becomes s, and who waits in it or in the other still stands there. *)
LEMMA QueueBecomes ==
    ASSUME QueuesOK, NEW r \in Roles, NEW s, IsSemaphore(s, Proc),
           sem' = [sem EXCEPT ![r] = s], Waiting(s) \subseteq Sleepers(r)',
           \A t \in Roles \ {r} : Waiting(sem[t]) \subseteq Sleepers(t)'
    PROVE  QueuesOK'
<1>1. s \in [count : Nat, queue : Seq(Proc)]
  BY DEF IsSemaphore
<1>2. sem' \in [Roles -> [count : Nat, queue : Seq(Proc)]]
  BY <1>1 DEF QueuesOK
<1>3. \A t \in Roles : sem'[t] = IF t = r THEN s ELSE sem[t]
  BY DEF QueuesOK
<1> QED BY <1>2, <1>3 DEF QueuesOK, Sleepers

(* A signal to the queue r wakes one process of it at most. *)
LEMMA QueueSignalled ==
    ASSUME QueuesOK, NEW p \in Proc, OnlyMoves(p), at[p] # "sem",
           NEW r \in Roles, sem' = [sem EXCEPT ![r] = Up(@)]
    PROVE  QueuesOK'
<1>1. \A t \in Roles : Waiting(sem[t]) \subseteq Sleepers(t)'
  BY DEF QueuesOK, Sleepers, OnlyMoves, Members
<1>2. IsSemaphore(Up(sem[r]), Proc) /\ Waiting(Up(sem[r])) \subseteq Waiting(sem[r])
  <2>1. IsSemaphore(sem[r], Proc)
    BY DEF QueuesOK
  <2>2. CASE Waiting(sem[r]) = {}
    BY <2>1, <2>2, UpEffect
  <2>3. CASE Waiting(sem[r]) # {}
    BY <2>1, <2>3, UpEffect
  <2> QED BY <2>2, <2>3
<1>3. sem' = [sem EXCEPT ![r] = Up(sem[r])]
  OBVIOUS
<1>4. Waiting(Up(sem[r])) \subseteq Sleepers(r)'
  BY <1>1, <1>2
<1> QED BY <1>1, <1>2, <1>3, <1>4, QueueBecomes

(* A step that leaves the queues alone, of a process that waits in none. *)
LEMMA QueuesStay ==
    ASSUME QueuesOK, NEW p \in Proc, OnlyMoves(p),
           at[p] = "sem" => Granted(sem[Role(p)], p), sem' = sem
    PROVE  QueuesOK'
<1>1. \A t \in Roles : Waiting(sem[t]) \subseteq {q \in Members(t) : at'[q] = "sem"}
  BY DEF QueuesOK, OnlyMoves, Members, Granted
<1> QED BY <1>1 DEF QueuesOK

(* Every step keeps the queues. *)
LEMMA StepQueues ==
    ASSUME Types, QueuesOK, NEW p \in Proc, StepOf(p)
    PROVE  QueuesOK'
<1>0. /\ OnlyMoves(p) /\ Role(p) \in Roles /\ Other(Role(p)) \in Roles
      /\ "prod" \in Roles /\ "cons" \in Roles
      /\ at \in [Proc -> {"out", "mtx", "sleep", "sem", "relock", "eintr", "undo"}]
  BY StepTypes, RoleType DEF Roles, Types
<1> USE DEF shared
<1>1. CASE CallOpen(p) \/ CallTransfer(p) \/ CallRelease(p)
  BY <1>0, <1>1, QueuesStay DEF CallOpen, CallTransfer, CallRelease, Enter
<1>2. CASE Relock(p) \/ UndoLock(p)
  BY <1>0, <1>2, QueuesStay DEF Relock, UndoLock
<1>3. CASE RecheckOpen(p)
  BY <1>0, <1>3, QueuesStay DEF RecheckOpen, Owns
<1>4. CASE WriteBroken(p) \/ ReadEnds(p)
  BY <1>0, <1>4, QueuesStay DEF WriteBroken, ReadEnds, Owns, OwnsWrite, OwnsRead
<1>5. CASE InterruptMtx(p)
  BY <1>0, <1>5, QueuesStay DEF InterruptMtx
<1>6. CASE Open(p) \/ UndoOpen(p) \/ Release(p)
  <2>1. /\ at[p] # "sem"
        /\ \E r \in Roles : sem' = [sem EXCEPT ![r] = Up(@)]
    BY <1>0, <1>6 DEF Open, UndoOpen, Release, Owns
  <2> QED BY <1>0, <2>1, QueueSignalled
<1>7. CASE WriteWaits(p) \/ UndoWrite(p) \/ ReadWaits(p) \/ UndoRead(p)
  <2>1. /\ at[p] # "sem"
        /\ \E r \in Roles : sem' = [sem EXCEPT ![r] = Up(@)]
    BY <1>0, <1>7 DEF WriteWaits, UndoWrite, ReadWaits, UndoRead, Owns, OwnsWrite,
                      OwnsRead
  <2> QED BY <1>0, <2>1, QueueSignalled
<1>8. CASE WriteInserts(p) \/ ReadExtracts(p) \/ ReadFaults(p)
  <2>1. /\ at[p] # "sem"
        /\ \/ sem' = sem
           \/ \E r \in Roles : sem' = [sem EXCEPT ![r] = Up(@)]
    BY <1>0, <1>8 DEF WriteInserts, ReadExtracts, ReadFaults, Extract, WakeCounted,
                      Owns, OwnsWrite, OwnsRead
  <2> QED BY <1>0, <2>1, QueueSignalled, QueuesStay
<1>9. CASE Sleep(p)
  <2> DEFINE r == Role(p)
             s == Down(sem[r], p)
  <2>1. /\ at[p] = "sleep" /\ at'[p] = "sem" /\ sem' = [sem EXCEPT ![r] = s]
        /\ p \in Members(r)
    BY <1>0, <1>9 DEF Sleep, Members
  <2>2. IsSemaphore(sem[r], Proc) /\ Granted(sem[r], p)
    BY <1>0, <2>1 DEF QueuesOK, Granted
  <2>3. /\ IsSemaphore(s, Proc)
        /\ Waiting(s) \subseteq Waiting(sem[r]) \cup {p}
    <3>1. sem[r].count > 0 \/ sem[r].count = 0
      BY <2>2 DEF IsSemaphore
    <3> QED BY <2>2, <3>1, DownEffect
  <2>4. \A t \in Roles : Waiting(sem[t]) \subseteq Sleepers(t)'
    BY <1>0, <2>1 DEF QueuesOK, Sleepers, OnlyMoves, Members
  <2>5. p \in Sleepers(r)'
    BY <2>1 DEF Sleepers, Members
  <2> HIDE DEF s
  <2>6. Waiting(s) \subseteq Sleepers(r)'
    BY <1>0, <2>3, <2>4, <2>5
  <2> QED BY <1>0, <2>1, <2>3, <2>4, <2>6, QueueBecomes
<1>10. CASE InterruptSleep(p)
  <2> DEFINE r == Role(p)
             s == Cancel(sem[r], p)
  <2>1. /\ sem' = [sem EXCEPT ![r] = s] /\ p \in Waiting(sem[r])
        /\ at'[p] = "eintr"
    BY <1>0, <1>10 DEF InterruptSleep, Granted
  <2>2. IsSemaphore(sem[r], Proc)
    BY <1>0 DEF QueuesOK
  <2>3. IsSemaphore(s, Proc) /\ Waiting(s) = Waiting(sem[r]) \ {p}
    BY <2>1, <2>2, CancelEffect
  <2>4. \A t \in Roles : Waiting(sem[t]) \ {p} \subseteq Sleepers(t)'
    BY <1>0 DEF QueuesOK, Sleepers, OnlyMoves, Members
  <2>5. \A t \in Roles \ {r} : p \notin Waiting(sem[t])
    BY DEF QueuesOK, Members
  <2> HIDE DEF s
  <2> QED BY <1>0, <2>1, <2>3, <2>4, <2>5, QueueBecomes
<1> QED BY <1>1, <1>2, <1>3, <1>4, <1>5, <1>6, <1>7, <1>8, <1>9, <1>10
        DEF StepOf, Step
-----------------------------------------------------------------------------
(* The counts                                                              *)

\* 1 if p is registered, else 0.
One(p) == IF Registered(p) THEN 1 ELSE 0

\* The count and the drift of the other role than r do not change.
OnlyCountOf(r) ==
    \A t \in Roles \ {r} : count'[t] = count[t] /\ drift'[t] = drift[t]

\* What is added to the count of p's role is for p, or drifts.
Difference(p) ==
    count'[Role(p)] - drift'[Role(p)]
        = count[Role(p)] - drift[Role(p)] + One(p)' - One(p)

(* The count and the drift of p's role change with p's registration. *)
LEMMA CountsMove ==
    ASSUME CountsExact, NEW p \in Proc, OnlyMoves(p),
           count \in [Roles -> Int], drift \in [Roles -> Int],
           count' \in [Roles -> Int], drift' \in [Roles -> Int],
           OnlyCountOf(Role(p)), Difference(p)
    PROVE  CountsExact'
<1>0. Role(p) \in Roles
  BY RoleType
<1> SUFFICES ASSUME NEW r \in Roles
             PROVE  count'[r] = Cardinality(RegisteredIn(r)') + drift'[r]
  BY DEF CountsExact
<1>1. \A q \in Proc \ {p} : Registered(q)' <=> Registered(q)
  BY DEF OnlyMoves, Registered
<1>2. CASE r # Role(p)
  <2>1. RegisteredIn(r)' = RegisteredIn(r)
    BY <1>1, <1>2 DEF RegisteredIn, Members
  <2> QED BY <1>0, <1>2, <2>1 DEF CountsExact, OnlyCountOf
<1>3. CASE r = Role(p)
  <2>1. /\ IsFiniteSet(RegisteredIn(r)) /\ Cardinality(RegisteredIn(r)) \in Nat
        /\ count[r] = Cardinality(RegisteredIn(r)) + drift[r]
        /\ p \in RegisteredIn(r) <=> Registered(p)
    BY <1>3, Finite DEF CountsExact, RegisteredIn, Members
  <2>2. Cardinality(RegisteredIn(r)') = Cardinality(RegisteredIn(r)) + One(p)' - One(p)
    <3>1. CASE Registered(p)'
      <4>1. RegisteredIn(r)' = RegisteredIn(r) \cup {p}
        BY <1>1, <1>3, <3>1 DEF RegisteredIn, Members
      <4>2. Cardinality(RegisteredIn(r) \cup {p})
              = IF p \in RegisteredIn(r) THEN Cardinality(RegisteredIn(r))
                ELSE Cardinality(RegisteredIn(r)) + 1
        BY <2>1, FS_AddElement
      <4>3. One(p)' = 1 /\ One(p) = IF p \in RegisteredIn(r) THEN 1 ELSE 0
        BY <2>1, <3>1 DEF One
      <4> QED BY <2>1, <4>1, <4>2, <4>3
    <3>2. CASE ~Registered(p)'
      <4>1. RegisteredIn(r)' = RegisteredIn(r) \ {p}
        BY <1>1, <1>3, <3>2 DEF RegisteredIn, Members
      <4>2. Cardinality(RegisteredIn(r) \ {p})
              = IF p \in RegisteredIn(r) THEN Cardinality(RegisteredIn(r)) - 1
                ELSE Cardinality(RegisteredIn(r))
        BY <2>1, FS_RemoveElement
      <4>3. One(p)' = 0 /\ One(p) = IF p \in RegisteredIn(r) THEN 1 ELSE 0
        BY <2>1, <3>2 DEF One
      <4> QED BY <2>1, <4>1, <4>2, <4>3
    <3> QED BY <3>1, <3>2
  <2>3. count'[r] - drift'[r] = count[r] - drift[r] + One(p)' - One(p)
    BY <1>3 DEF Difference
  <2>4. One(p) \in Int /\ One(p)' \in Int
    BY DEF One
  <2> QED BY <2>1, <2>2, <2>3, <2>4, <1>3
<1> QED BY <1>2, <1>3

(* A step that leaves the counts and the registration of p alone. *)
LEMMA CountsStay ==
    ASSUME Types, CountsExact, NEW p \in Proc, OnlyMoves(p),
           UNCHANGED <<count, drift>>, Registered(p)' <=> Registered(p)
    PROVE  CountsExact'
<1>1. OnlyCountOf(Role(p)) /\ Role(p) \in Roles
  BY RoleType DEF OnlyCountOf
<1>2. One(p) \in Int /\ One(p)' = One(p)
  BY DEF One
<1>3. Difference(p)
  BY <1>1, <1>2 DEF Difference, Types
<1> QED BY <1>1, <1>3, CountsMove DEF Types

(* Every step changes with a count who is registered, or the drift. *)
LEMMA StepCounts ==
    ASSUME Types, CountsExact, ConsumersCounted, NEW p \in Proc, StepOf(p)
    PROVE  CountsExact' /\ ConsumersCounted'
<1>0. /\ OnlyMoves(p) /\ Role(p) \in Roles /\ "cons" \in Roles
      /\ count \in [Roles -> Int] /\ drift \in [Roles -> Int]
      /\ call \in [Proc -> {"closed", "open", "opened", "transfer", "release"}]
      /\ at \in [Proc -> {"out", "mtx", "sleep", "sem", "relock", "eintr", "undo"}]
  BY StepTypes, RoleType DEF Roles, Types
<1> USE DEF shared, history, ConsumersCounted
<1>1. CASE CallOpen(p) \/ CallTransfer(p) \/ CallRelease(p)
  <2>1. UNCHANGED <<count, drift>> /\ (Registered(p)' <=> Registered(p))
    BY <1>0, <1>1 DEF CallOpen, CallTransfer, CallRelease, Enter, Registered
  <2> QED BY <1>0, <2>1, CountsStay
<1>2. CASE Sleep(p) \/ Relock(p) \/ UndoLock(p) \/ InterruptSleep(p)
  <2>1. UNCHANGED <<count, drift>> /\ (Registered(p)' <=> Registered(p))
    BY <1>0, <1>2 DEF Sleep, Relock, UndoLock, InterruptSleep, Registered
  <2> QED BY <1>0, <2>1, CountsStay
<1>3. CASE RecheckOpen(p)
  <2>1. UNCHANGED <<count, drift>> /\ (Registered(p)' <=> Registered(p))
    BY <1>0, <1>3 DEF RecheckOpen, AwaitOther, GoToSleep, Return, Owns, Registered
  <2> QED BY <1>0, <2>1, CountsStay
<1>4. CASE WriteWaits(p) \/ WriteBroken(p) \/ WriteInserts(p)
  <2>1. UNCHANGED <<count, drift>> /\ (Registered(p)' <=> Registered(p))
    BY <1>0, <1>4 DEF WriteWaits, WriteBroken, WriteInserts, GoToSleep, Return,
                      Owns, OwnsWrite, Registered
  <2> QED BY <1>0, <2>1, CountsStay
<1>5. CASE ReadWaits(p) \/ ReadEnds(p) \/ ReadExtracts(p) \/ ReadFaults(p)
             \/ UndoRead(p)
  <2>1. UNCHANGED <<count, drift>> /\ (Registered(p)' <=> Registered(p))
    BY <1>0, <1>5 DEF ReadWaits, ReadEnds, ReadExtracts, ReadFaults, Extract,
                      UndoRead, GoToSleep, Return, Owns, OwnsRead, Registered
  <2> QED BY <1>0, <2>1, CountsStay
<1>6. CASE Open(p)
  <2>1. /\ count' = [count EXCEPT ![Role(p)] = @ + 1] /\ drift' = drift
    BY <1>0, <1>6 DEF Open
  <2>2. ~Registered(p) /\ Registered(p)'
    BY <1>0, <1>6 DEF Open, AwaitOther, GoToSleep, Return, Owns, Registered
  <2>3. Difference(p) /\ OnlyCountOf(Role(p))
    BY <1>0, <2>1, <2>2 DEF Difference, One, OnlyCountOf
  <2> QED BY <1>0, <2>1, <2>3, CountsMove
<1>7. CASE UndoOpen(p) \/ Release(p)
  <2>1. /\ count' = [count EXCEPT ![Role(p)] = @ - 1] /\ drift' = drift
    BY <1>0, <1>7 DEF UndoOpen, Release
  <2>2. Registered(p) /\ ~Registered(p)'
    BY <1>0, <1>7 DEF UndoOpen, Release, Return, Owns, Registered
  <2>3. Difference(p) /\ OnlyCountOf(Role(p))
    BY <1>0, <2>1, <2>2 DEF Difference, One, OnlyCountOf
  <2> QED BY <1>0, <2>1, <2>3, CountsMove
<1>8. CASE UndoWrite(p)
  <2>1. /\ Role(p) = "prod"
        /\ count' = [count EXCEPT ![Role(p)] = @ - 1]
        /\ drift' = [drift EXCEPT ![Role(p)] = @ - 1]
    BY <1>0, <1>8, RoleType DEF UndoWrite
  <2>2. Registered(p) /\ Registered(p)'
    BY <1>0, <1>8 DEF UndoWrite, Return, Owns, Registered
  <2>3. Difference(p) /\ OnlyCountOf(Role(p))
    BY <1>0, <2>1, <2>2 DEF Difference, One, OnlyCountOf
  <2>4. drift'["cons"] = drift["cons"]
    BY <1>0, <2>1
  <2> QED BY <1>0, <2>1, <2>3, <2>4, CountsMove
<1>9. CASE InterruptMtx(p)
  <2>1. CASE UNCHANGED drift
             /\ (call[p] = "transfer" \/ (call[p] = "open" /\ at[p] = "mtx"))
    <3>1. UNCHANGED <<count, drift>> /\ (Registered(p)' <=> Registered(p))
      BY <1>0, <1>9, <2>1 DEF InterruptMtx, Return, Registered
    <3> QED BY <1>0, <3>1, CountsStay
  <2>2. CASE drift' = [drift EXCEPT ![Role(p)] = @ + 1]
             /\ (call[p] = "release" \/ (call[p] = "open" /\ at[p] = "relock"))
    <3>1. count' = count /\ drift' \in [Roles -> Int] /\ drift'["cons"] >= 0
      BY <1>0, <1>9, <2>2 DEF InterruptMtx
    <3>2. Registered(p) /\ ~Registered(p)'
      BY <1>0, <1>9, <2>2 DEF InterruptMtx, Return, Registered
    <3>3. Difference(p) /\ OnlyCountOf(Role(p))
      BY <1>0, <2>2, <3>1, <3>2 DEF Difference, One, OnlyCountOf
    <3> QED BY <1>0, <3>1, <3>3, CountsMove
  <2> QED BY <1>9, <2>1, <2>2 DEF InterruptMtx
<1> QED BY <1>1, <1>2, <1>3, <1>4, <1>5, <1>6, <1>7, <1>8, <1>9 DEF StepOf, Step
-----------------------------------------------------------------------------
(* The buffer                                                              *)

\* Nobody has the FIFO open, and the counts say so.
Nobody ==
    (\A p \in Proc : ~Registered(p)) /\ (\A r \in Roles : drift[r] = 0)

(* Where nobody has the FIFO open, and the counts are right, they are zero. *)
LEMMA NobodyCounts ==
    ASSUME CountsExact, Nobody
    PROVE  \A r \in Roles : count[r] = 0
<1> SUFFICES ASSUME NEW r \in Roles
             PROVE  count[r] = 0
  OBVIOUS
<1>1. RegisteredIn(r) = {}
  BY DEF RegisteredIn, Members, Nobody
<1>2. count[r] = Cardinality({}) + drift[r] /\ drift[r] = 0
  BY <1>1 DEF CountsExact, Nobody
<1> QED BY <1>2, FS_EmptySet

(* A step that leaves the buffer and the drift alone, and lets nobody out. *)
LEMMA FreshStays ==
    ASSUME FreshStart, NEW p \in Proc, OnlyMoves(p),
           UNCHANGED <<fill, drift, spill>>, Registered(p) => Registered(p)'
    PROVE  FreshStart'
<1>1. \A q \in Proc : Registered(q) => Registered(q)'
  BY DEF OnlyMoves, Registered
<1> QED BY <1>1 DEF FreshStart

(* Every step that empties the FIFO of processes either empties the buffer or
   is an interruption that notes what it leaves. *)
LEMMA StepFresh ==
    ASSUME Types, FreshStart, CountsExact', NEW p \in Proc, StepOf(p)
    PROVE  FreshStart'
<1>0. /\ OnlyMoves(p)
      /\ call \in [Proc -> {"closed", "open", "opened", "transfer", "release"}]
      /\ at \in [Proc -> {"out", "mtx", "sleep", "sem", "relock", "eintr", "undo"}]
  BY StepTypes DEF Types
<1> USE DEF shared, history
<1>1. CASE CallOpen(p) \/ CallTransfer(p) \/ CallRelease(p)
  BY <1>0, <1>1, FreshStays DEF CallOpen, CallTransfer, CallRelease, Enter, Registered
<1>2. CASE Sleep(p) \/ Relock(p) \/ UndoLock(p) \/ InterruptSleep(p)
  BY <1>0, <1>2, FreshStays DEF Sleep, Relock, UndoLock, InterruptSleep, Registered
<1>3. CASE Open(p) \/ RecheckOpen(p)
  BY <1>0, <1>3, FreshStays
     DEF Open, RecheckOpen, AwaitOther, GoToSleep, Return, Owns, Registered
<1>4. CASE WriteWaits(p) \/ WriteBroken(p) \/ ReadWaits(p) \/ ReadEnds(p) \/ UndoRead(p)
  BY <1>0, <1>4, FreshStays
     DEF WriteWaits, WriteBroken, ReadWaits, ReadEnds, UndoRead, GoToSleep, Return,
         Owns, OwnsWrite, OwnsRead, Registered
<1>5. CASE WriteInserts(p) \/ UndoWrite(p) \/ ReadExtracts(p) \/ ReadFaults(p)
  <2>1. Registered(p)'
    BY <1>0, <1>5 DEF WriteInserts, UndoWrite, ReadExtracts, ReadFaults, Extract,
                      Return, Registered
  <2> QED BY <2>1 DEF FreshStart
<1>6. CASE UndoOpen(p)
  <2>1. fill' = spill'
    BY <1>6 DEF UndoOpen
  <2> QED BY <2>1 DEF FreshStart
<1>7. CASE InterruptMtx(p)
  <2>1. \/ fill' = spill'
        \/ UNCHANGED <<fill, drift, spill>> /\ (Registered(p) => Registered(p)')
    BY <1>0, <1>7 DEF InterruptMtx, Return, Registered
  <2>2. CASE fill' = spill'
    BY <2>2 DEF FreshStart
  <2> QED BY <1>0, <2>1, <2>2, FreshStays
<1>8. CASE Release(p)
  <2>1. /\ fill' = IF \A r \in Roles : count'[r] = 0 THEN 0 ELSE fill
        /\ spill' = IF \A r \in Roles : count'[r] = 0 THEN 0 ELSE spill
    BY <1>8 DEF Release, FillAfter
  <2>2. Nobody' => \A r \in Roles : count'[r] = 0
    <3>1. (\A r \in Roles : count[r] = 0)' <=> \A r \in Roles : count'[r] = 0
      OBVIOUS
    <3> QED BY <3>1, NobodyCounts, PTL
  <2> QED BY <2>1, <2>2 DEF FreshStart, Nobody
<1> QED BY <1>1, <1>2, <1>3, <1>4, <1>5, <1>6, <1>7, <1>8 DEF StepOf, Step
-----------------------------------------------------------------------------
(* The invariant                                                           *)

LEMMA InitInv == Init => Inv
<1> SUFFICES ASSUME Init
             PROVE  Inv
  OBVIOUS
<1> USE FifoAssumption DEF Init, history
<1>1. Types
  BY DEF Types
<1>2. QueuesOK
  <2>1. /\ IsSemaphore(NewSemaphore(0), Proc)
        /\ Waiting(NewSemaphore(0)) = {}
    BY NewSemaphoreIsOne
  <2>2. NewSemaphore(0) \in [count : Nat, queue : Seq(Proc)]
    BY <2>1 DEF IsSemaphore
  <2> QED BY <2>1, <2>2 DEF QueuesOK
<1>3. MtxOK
  <2>1. /\ IsSemaphore(mtx, Proc) /\ Waiting(mtx) = {} /\ mtx.count = 1
    BY NewSemaphoreIsOne
  <2>2. MtxUsers = {}
    BY DEF MtxUsers
  <2>3. MtxUnits = 1
    BY <2>1, <2>2, FS_EmptySet DEF MtxUnits, Units
  <2> QED BY <2>1, <2>2, <2>3 DEF MtxOK, Ledger, MtxUnits
<1>4. CountsExact
  <2>1. \A r \in Roles : /\ RegisteredIn(r) = {}
                           /\ count[r] = 0 /\ drift[r] = 0
    BY DEF RegisteredIn, Members, Registered
  <2>2. \A r \in Roles : Cardinality(RegisteredIn(r)) = 0
    BY <2>1, FS_EmptySet
  <2> QED BY <2>1, <2>2 DEF CountsExact
<1>5. ConsumersCounted /\ FreshStart
  BY DEF ConsumersCounted, FreshStart, Roles
<1> QED BY <1>1, <1>2, <1>3, <1>4, <1>5 DEF Inv

LEMMA NextInv == Inv /\ [Next]_vars => Inv'
<1> SUFFICES ASSUME Inv, [Next]_vars
             PROVE  Inv'
  OBVIOUS
<1>1. CASE UNCHANGED vars
  BY <1>1 DEF Inv, vars, history, Types, QueuesOK, MtxOK, MtxUnits, MtxUsers, Ledger,
              CountsExact, RegisteredIn, Members, Registered, ConsumersCounted,
              FreshStart
<1>2. ASSUME NEW p \in Proc, StepOf(p)
      PROVE  Inv'
  <2>1. Types' /\ QueuesOK' /\ MtxOK'
    BY <1>2, StepTypes, StepQueues, StepMtx DEF Inv
  <2>2. CountsExact' /\ ConsumersCounted'
    BY <1>2, StepCounts DEF Inv
  <2>3. FreshStart'
    BY <1>2, <2>2, StepFresh DEF Inv
  <2> QED BY <2>1, <2>2, <2>3 DEF Inv
<1> QED BY <1>1, <1>2 DEF Next, StepOf

(* Inv holds in every state the FIFO reaches. *)
THEOREM InvHolds == Spec => []Inv
<1> QED BY InitInv, NextInv, PTL DEF Spec
-----------------------------------------------------------------------------
(* The properties                                                          *)

(* Every variable keeps its type, and only processes of its role wait in a
   queue. *)
THEOREM TypeCorrect == Spec => []TypeOK
<1>1. Inv => TypeOK
  <2> SUFFICES ASSUME Inv
               PROVE  TypeOK
    OBVIOUS
  <2>1. ASSUME NEW r \in Roles
        PROVE  IsSemaphore(sem[r], {p \in Proc : Role(p) = r})
    <3> DEFINE q == sem[r].queue
               M == {p \in Proc : Role(p) = r}
    <3>1. /\ IsSemaphore(sem[r], Proc) /\ sem[r] \in [count : Nat, queue : Seq(Proc)]
          /\ \A i \in 1..Len(q) : q[i] \in M
      BY DEF Inv, QueuesOK, Members, Waiting
    <3>2. q \in Seq(Proc) /\ Len(q) \in Nat /\ q = [i \in 1..Len(q) |-> q[i]]
      BY <3>1, LenProperties
    <3>3. q \in [1..Len(q) -> M]
      BY <3>1, <3>2
    <3>4. q \in Seq(M)
      BY <3>2, <3>3, IsSequence
    <3> QED BY <3>1, <3>4 DEF IsSemaphore
  <2>2. IsSemaphore(mtx, Proc)
    BY DEF Inv, MtxOK, Ledger
  <2> QED BY <2>1, <2>2 DEF Inv, Types, TypeOK
<1> QED BY <1>1, InvHolds, PTL

(* prod_count and cons_count count those who have the FIFO open, but for what
   interrupted calls leave wrong. *)
THEOREM CountsRight == Spec => []CountsExact
<1>1. Inv => CountsExact
  BY DEF Inv
<1> QED BY <1>1, InvHolds, PTL

(* A new conversation finds the buffer empty, or what an interrupted open or
   release left. *)
THEOREM NoOldBytes == Spec => []FreshStart
<1>1. Inv => FreshStart
  BY DEF Inv
<1> QED BY <1>1, InvHolds, PTL

(* Those in a critical section are the ones that hold the units of mtx. *)
LEMMA Holders ==
    ASSUME Types, MtxOK
    PROVE  /\ mtx.count + Cardinality({p \in Proc : InCritical(p)}) = MtxUnits
           /\ MtxLost <=> MtxUnits = 0
<1>1. MtxUsers \ Waiting(mtx) = {p \in Proc : InCritical(p)}
  BY DEF MtxUsers, InCritical, Granted
<1>2. MtxUnits = mtx.count + Cardinality({p \in Proc : InCritical(p)})
  BY <1>1 DEF MtxUnits, Units
<1>3. IsFiniteSet({p \in Proc : InCritical(p)})
  BY <1>1, Finite, FS_Difference
<1>4. mtx.count \in Nat
  BY DEF MtxOK, Ledger, IsSemaphore
<1>5. Cardinality({p \in Proc : InCritical(p)}) = 0 <=> {p \in Proc : InCritical(p)} = {}
  BY <1>3, FS_EmptySet
<1>6. Cardinality({p \in Proc : InCritical(p)}) \in Nat
  BY <1>3, FS_CardinalityType
<1>7. (\A p \in Proc : ~InCritical(p)) <=> {p \in Proc : InCritical(p)} = {}
  OBVIOUS
<1> QED BY <1>2, <1>4, <1>5, <1>6, <1>7 DEF MtxLost

(* mtx is one unit, which only a read of a bad buffer can lose. *)
THEOREM MtxIsKept == Spec => []MtxKept
<1>1. Inv => MtxKept
  BY Holders DEF Inv, MtxOK, MtxKept
<1> QED BY <1>1, InvHolds, PTL

(* Only a read loses mtx, and then nothing moves any more. *)
THEOREM LostForGood == Spec => MtxLostForGood
<1> DEFINE Lost == /\ MtxLost => MtxLost' /\ UNCHANGED <<fill, count, waiting>>
                   /\ MtxLost' => \/ MtxLost
                                  \/ \E p \in Consumers : OwnsRead(p) /\ call'[p] = "opened"
<1>0. Inv => (MtxLost <=> MtxUnits = 0)
  BY Holders DEF Inv
<1>1. ASSUME Inv, Inv', [Next]_vars
      PROVE  [Lost]_vars
  <2>1. (MtxLost <=> MtxUnits = 0) /\ (MtxLost <=> MtxUnits = 0)'
    BY <1>0, <1>1, PTL
  <2>2. ASSUME NEW p \in Proc, StepOf(p)
        PROVE  Lost
    <3>1. MtxUnits' = MtxUnits \/ (ReadFaults(p) /\ MtxUnits' = MtxUnits - 1)
      BY <1>1, <2>2, StepMtx DEF Inv
    <3>2. MtxUnits = 0 => ~(at[p] \in {"mtx", "relock", "undo"} /\ Granted(mtx, p))
      <4>1. Ledger(mtx, Proc, MtxUsers, MtxUsers, MtxUnits)
        BY <1>1 DEF Inv, MtxOK
      <4>2. ASSUME p \in MtxUsers, Granted(mtx, p)
            PROVE  MtxUnits > 0
        BY <4>1, <4>2, Finite, LedgerHolder
      <4> QED BY <4>2 DEF MtxUsers
    <3>3. ReadFaults(p) => /\ p \in Consumers /\ OwnsRead(p) /\ call'[p] = "opened"
                           /\ at[p] \in {"mtx", "relock"} /\ Granted(mtx, p)
      BY <1>1 DEF ReadFaults, Extract, OwnsRead, Owns, Return, Inv, Types
    <3>4. \/ at[p] \in {"mtx", "relock", "undo"} /\ Granted(mtx, p)
          \/ UNCHANGED <<fill, count, waiting>>
      BY <2>2 DEF StepOf, Step, CallOpen, CallTransfer, CallRelease, Enter, Sleep,
                  Relock, UndoLock, InterruptSleep, InterruptMtx, Open, RecheckOpen,
                  UndoOpen, WriteWaits, WriteBroken, WriteInserts, UndoWrite,
                  ReadWaits, ReadEnds, ReadExtracts, ReadFaults, Extract, UndoRead,
                  Release, Owns, OwnsWrite, OwnsRead, shared
    <3>5. MtxUnits = 0 => MtxUnits' = 0 /\ UNCHANGED <<fill, count, waiting>>
      BY <3>1, <3>2, <3>3, <3>4
    <3>6. MtxUnits' = 0 => MtxUnits = 0 \/ ReadFaults(p)
      BY <3>1
    <3> QED BY <2>1, <3>3, <3>5, <3>6
  <2> QED BY <1>1, <2>2 DEF Next, StepOf
<1> QED BY <1>1, InvHolds, PTL DEF Spec, MtxLostForGood

(* write inserts all its bytes, and read extracts all it asked for, unless the
   producers are gone or one was counted out. *)
THEOREM TransfersComplete == Spec => CompleteTransfers
<1> DEFINE Complete ==
             \A p \in Proc : call[p] = "transfer" /\ call'[p] = "opened" =>
                /\ fill' > fill => fill' = fill + len[p]
                /\ fill' < fill =>
                    \/ fill' = fill - len[p]
                    \/ RegisteredIn("prod") = {} \/ drift["prod"] < 0
<1>1. ASSUME Inv, [Next]_vars
      PROVE  [Complete]_vars
  <2>0. /\ fill \in Nat /\ count \in [Roles -> Int] /\ Avail \in Int
        /\ drift["prod"] \in Int /\ drift["cons"] \in Int /\ drift["cons"] >= 0
        /\ call \in [Proc -> {"closed", "open", "opened", "transfer", "release"}]
    BY <1>1, FifoAssumption DEF Inv, Types, Roles, ConsumersCounted, Avail
  <2>1. \A p \in Proc : len[p] \in Nat
    <3>1. \A p \in Proc : len[p] = 0 \/ len[p] \in WriteLens \/ len[p] \in ReadLens
      BY <1>1 DEF Inv, Types
    <3>2. \A n : n \in WriteLens \/ n \in ReadLens => n \in Nat
      BY LengthsAreNumbers
    <3> QED BY <3>1, <3>2
  <2>2. ASSUME NEW p \in Proc, StepOf(p), NEW q \in Proc,
               call[q] = "transfer", call'[q] = "opened"
        PROVE  /\ fill' > fill => fill' = fill + len[q]
               /\ fill' < fill =>
                   \/ fill' = fill - len[q]
                   \/ RegisteredIn("prod") = {} \/ drift["prod"] < 0
    <3>1. p = q
      BY <1>1, <2>2, StepTypes DEF Inv, OnlyMoves
    <3>2. CASE WriteInserts(p)
      <4>1. count["cons"] >= 0
        <5>1. /\ count["cons"] = Cardinality(RegisteredIn("cons")) + drift["cons"]
              /\ Cardinality(RegisteredIn("cons")) \in Nat
          BY <1>1, Finite DEF Inv, CountsExact, Roles
        <5> QED BY <5>1, <2>0
      <4>2. count["cons"] > 0
        BY <4>1, <3>2, <2>0 DEF WriteInserts, Roles
      <4>3. ~(Avail < len[p])
        BY <4>2, <3>2 DEF WriteInserts, MustWaitForRoom
      <4>4. fill' = fill + len[p]
        BY <4>3, <3>2, <2>0, <2>1 DEF WriteInserts, Least
      <4> QED BY <4>4, <3>1, <2>0, <2>1
    <3>3. CASE Extract(p)
      <4>1. CASE fill < len[p]
        <5>1. ~(count["prod"] > 0)
          BY <4>1, <3>3 DEF Extract, MustWaitForData
        <5>2. /\ count["prod"] = Cardinality(RegisteredIn("prod")) + drift["prod"]
              /\ Cardinality(RegisteredIn("prod")) \in Nat
              /\ IsFiniteSet(RegisteredIn("prod"))
          BY <1>1, Finite DEF Inv, CountsExact, Roles
        <5>3. drift["prod"] < 0 \/ Cardinality(RegisteredIn("prod")) = 0
          BY <5>1, <5>2, <2>0
        <5>4. drift["prod"] < 0 \/ RegisteredIn("prod") = {}
          BY <5>2, <5>3, FS_EmptySet
        <5>5. fill' <= fill
          BY <3>3, <2>0, <2>1 DEF Extract, Least
        <5> QED BY <5>4, <5>5, <2>0, <2>1, <3>3 DEF Extract, Least
      <4>2. CASE ~(fill < len[p])
        <5>1. fill' = fill - len[p]
          BY <4>2, <3>3, <2>0, <2>1 DEF Extract, Least
        <5> QED BY <5>1, <3>1, <2>0, <2>1
      <4> QED BY <4>1, <4>2
    <3>4. CASE ~WriteInserts(p) /\ ~Extract(p)
      <4>1. call[p] # "release"
        BY <2>2, <3>1
      <4>2. fill' = fill
        BY <2>2, <3>4, <4>1
           DEF StepOf, Step, CallOpen, CallTransfer, CallRelease, Enter, Sleep,
               Relock, UndoLock, InterruptSleep, InterruptMtx, Open, RecheckOpen,
               UndoOpen, WriteWaits, WriteBroken, UndoWrite, ReadWaits, ReadEnds,
               ReadExtracts, ReadFaults, UndoRead, Release, Owns, shared
      <4> QED BY <4>2, <2>0
    <3> QED BY <3>2, <3>3, <3>4
  <2> QED BY <1>1, <2>2 DEF Next, StepOf
<1>2. CompleteTransfers <=> [][Complete]_vars
  BY DEF CompleteTransfers
<1> HIDE DEF Complete
<1> QED BY <1>1, <1>2, InvHolds, PTL DEF Spec
-----------------------------------------------------------------------------
(* A single producer                                                       *)

\* The argument is an account of wake-ups.  Who counts a producer out of
\* nr_prod_waiting signals sem_prod, so what the one loses the other gains.

OneProducer == \A p, q \in Producers : p = q

\* The units of sem_prod, free or given to a producer that has not run since.
Pending == Units(sem["prod"], Sleepers("prod"))

\* The units p will take of sem_prod and of nr_prod_waiting, whatever happens.
Takes(p) == IF at[p] \in {"sleep", "sem"} THEN 1 ELSE 0
Decrements(p) ==
    IF \/ at[p] \in {"eintr", "undo"}
       \/ call[p] = "open" /\ at[p] \in {"sleep", "sem", "relock"}
    THEN 1 ELSE 0

WakesOwed ==
    \A p \in Producers : waiting["prod"] + Pending >= Takes(p) + Decrements(p)

\* What p waits for has not come.
Reason(p) ==
    IF call[p] = "transfer" THEN Avail < len[p] /\ count["cons"] > 0
                            ELSE count["cons"] = 0

\* Where no wake-up is under way, there is nothing to wake up for.
Reasons ==
    \A p \in Producers : at[p] \in {"sleep", "sem"} /\ Pending = 0 => Reason(p)

(* The units pending are a natural number. *)
LEMMA PendingType ==
    ASSUME QueuesOK
    PROVE  Pending \in Nat /\ IsFiniteSet(Sleepers("prod"))
           /\ IsSemaphore(sem["prod"], Proc) /\ Waiting(sem["prod"]) \subseteq Sleepers("prod")
<1>1. IsFiniteSet(Sleepers("prod"))
  <2>1. Sleepers("prod") \subseteq Proc
    BY DEF Sleepers, Members
  <2> QED BY <2>1, Finite, FS_Subset
<1>2. IsSemaphore(sem["prod"], Proc) /\ Waiting(sem["prod"]) \subseteq Sleepers("prod")
  BY DEF QueuesOK, Roles, Sleepers
<1> QED BY <1>1, <1>2, UnitsType DEF Pending

LEMMA PendingTypeNext == QueuesOK' => (Pending \in Nat)'
<1>1. QueuesOK => Pending \in Nat
  BY PendingType
<1> QED BY <1>1, PTL

(* Nothing happens to sem_prod. *)
LEMMA PendingStays ==
    ASSUME NEW p \in Proc, OnlyMoves(p), sem'["prod"] = sem["prod"],
           p \in Members("prod") => (at'[p] = "sem" <=> at[p] = "sem")
    PROVE  Pending' = Pending
<1>1. Sleepers("prod")' = Sleepers("prod")
  BY DEF Sleepers, OnlyMoves, Members
<1> QED BY <1>1 DEF Pending

(* sem_prod is signalled. *)
LEMMA PendingUp ==
    ASSUME QueuesOK, NEW p \in Proc, OnlyMoves(p), sem'["prod"] = Up(sem["prod"]),
           p \in Members("prod") => (at'[p] = "sem" <=> at[p] = "sem")
    PROVE  Pending' = Pending + 1
<1>1. Sleepers("prod")' = Sleepers("prod")
  BY DEF Sleepers, OnlyMoves, Members
<1>2. Units(Up(sem["prod"]), Sleepers("prod")) = Units(sem["prod"], Sleepers("prod")) + 1
  BY PendingType, UnitsUp
<1> QED BY <1>1, <1>2 DEF Pending

(* A consumer changes what a producer waits for only when it signals sem_prod,
   or when nobody is counted as waiting. *)
LEMMA ConsumerSteps ==
    ASSUME Types, QueuesOK, NEW p \in Consumers, StepOf(p)
    PROVE  \/ /\ Pending' = Pending + 1
              /\ waiting'["prod"] \in {waiting["prod"], waiting["prod"] - 1}
           \/ /\ Pending' = Pending
              /\ waiting'["prod"] = waiting["prod"] /\ count'["cons"] = count["cons"]
              /\ fill' = fill \/ waiting["prod"] <= 0
<1>0. /\ p \in Proc /\ OnlyMoves(p) /\ Role(p) = "cons" /\ Other(Role(p)) = "prod"
      /\ "prod" \in Roles /\ "cons" \in Roles /\ p \notin Members("prod")
      /\ count \in [Roles -> Int] /\ waiting \in [Roles -> Int] /\ DOMAIN sem = Roles
  <2>1. p \in Proc
    BY DEF Proc
  <2> QED BY <2>1, StepTypes, RoleType DEF Roles, Other, Types, QueuesOK, Members
<1> USE DEF shared, history
<1>1. CASE CallOpen(p) \/ CallTransfer(p) \/ CallRelease(p) \/ Relock(p) \/ UndoLock(p)
  <2>1. sem' = sem /\ UNCHANGED <<fill, count, waiting>>
    BY <1>1 DEF CallOpen, CallTransfer, CallRelease, Enter, Relock, UndoLock
  <2> QED BY <1>0, <2>1, PendingStays
<1>2. CASE Sleep(p) \/ InterruptSleep(p)
  <2>1. sem'["prod"] = sem["prod"] /\ UNCHANGED <<fill, count, waiting>>
    BY <1>0, <1>2 DEF Sleep, InterruptSleep
  <2> QED BY <1>0, <2>1, PendingStays
<1>3. CASE InterruptMtx(p)
  <2>1. sem' = sem /\ UNCHANGED <<fill, count, waiting>>
    BY <1>3 DEF InterruptMtx
  <2> QED BY <1>0, <2>1, PendingStays
<1>4. CASE RecheckOpen(p)
  <2>1. sem' = sem /\ UNCHANGED <<fill, count>> /\ waiting'["prod"] = waiting["prod"]
    BY <1>0, <1>4 DEF RecheckOpen, AwaitOther
  <2> QED BY <1>0, <2>1, PendingStays
<1>5. CASE Open(p) \/ UndoOpen(p) \/ Release(p)
  <2>1. sem'["prod"] = Up(sem["prod"]) /\ waiting'["prod"] = waiting["prod"]
    BY <1>0, <1>5 DEF Open, AwaitOther, UndoOpen, Release
  <2> QED BY <1>0, <2>1, PendingUp
<1>6. CASE ReadWaits(p) \/ UndoRead(p)
  <2>1. /\ sem'["prod"] = Up(sem["prod"])
        /\ waiting'["prod"] \in {waiting["prod"], waiting["prod"] - 1}
    BY <1>0, <1>6 DEF ReadWaits, UndoRead
  <2> QED BY <1>0, <2>1, PendingUp
<1>7. CASE ReadEnds(p)
  <2>1. sem' = sem /\ UNCHANGED <<fill, count, waiting>>
    BY <1>7 DEF ReadEnds
  <2> QED BY <1>0, <2>1, PendingStays
<1>8. CASE ReadExtracts(p) \/ ReadFaults(p)
  <2>1. WakeCounted("prod") /\ count' = count
    BY <1>8 DEF ReadExtracts, ReadFaults, Extract
  <2>2. CASE waiting["prod"] > 0
    <3>1. /\ sem'["prod"] = Up(sem["prod"])
          /\ waiting'["prod"] = waiting["prod"] - 1
      BY <1>0, <2>1, <2>2 DEF WakeCounted
    <3> QED BY <1>0, <3>1, PendingUp
  <2>3. CASE ~(waiting["prod"] > 0)
    <3>1. UNCHANGED <<sem, waiting>> /\ waiting["prod"] <= 0
      BY <1>0, <2>1, <2>3 DEF WakeCounted
    <3> QED BY <1>0, <2>1, <3>1, PendingStays
  <2> QED BY <2>2, <2>3
<1>9. p \notin Producers
  BY FifoAssumption
<1> QED BY <1>1, <1>2, <1>3, <1>4, <1>5, <1>6, <1>7, <1>8, <1>9
        DEF StepOf, Step, WriteWaits, WriteBroken, WriteInserts, UndoWrite, OwnsWrite

\* What is left over of the wake-ups for p.
Surplus(p) == waiting["prod"] + Pending - Takes(p) - Decrements(p)

(* A producer takes no more than it has been given, and goes to sleep only for
   a reason. *)
LEMMA ProducerSteps ==
    ASSUME Types, QueuesOK, NEW p \in Producers, StepOf(p)
    PROVE  /\ Surplus(p)' >= Surplus(p)
           /\ at'[p] \in {"sleep", "sem"} =>
                Reason(p)' \/ (at[p] = "sleep" /\ Pending' = Pending
                                /\ Reason(p)' = Reason(p))
<1>0. /\ p \in Proc /\ OnlyMoves(p) /\ Role(p) = "prod" /\ Other(Role(p)) = "cons"
      /\ "prod" \in Roles /\ "cons" \in Roles /\ p \in Members("prod")
      /\ count \in [Roles -> Int] /\ waiting \in [Roles -> Int] /\ DOMAIN sem = Roles
      /\ call \in [Proc -> {"closed", "open", "opened", "transfer", "release"}]
      /\ at \in [Proc -> {"out", "mtx", "sleep", "sem", "relock", "eintr", "undo"}]
  <2>1. p \in Proc
    BY DEF Proc
  <2> QED BY <2>1, StepTypes, RoleType DEF Roles, Other, Types, QueuesOK, Members
<1>00. /\ Pending \in Nat /\ IsFiniteSet(Sleepers("prod"))
       /\ IsSemaphore(sem["prod"], Proc) /\ Waiting(sem["prod"]) \subseteq Sleepers("prod")
       /\ sem["prod"].count \in Nat /\ (p \in Sleepers("prod") <=> at[p] = "sem")
  BY <1>0, PendingType DEF IsSemaphore, Sleepers
<1>000. waiting["prod"] \in Int
  BY <1>0
<1> USE DEF shared, history
<1>1. CASE CallOpen(p) \/ CallTransfer(p) \/ CallRelease(p)
  <2>1. sem' = sem /\ waiting' = waiting /\ at[p] = "out" /\ at'[p] = "mtx"
    BY <1>0, <1>1 DEF CallOpen, CallTransfer, CallRelease, Enter
  <2>2. Pending' = Pending
    BY <1>0, <2>1, PendingStays
  <2> QED BY <2>1, <2>2, <1>00, <1>000 DEF Surplus, Takes, Decrements
<1>2. CASE Sleep(p)
  <2>1. /\ at[p] = "sleep" /\ at'[p] = "sem" /\ call' = call /\ len' = len
        /\ UNCHANGED <<fill, count, waiting>> /\ sem'["prod"] = Down(sem["prod"], p)
    BY <1>0, <1>2 DEF Sleep
  <2>2. Pending' = Pending
    <3>1. Sleepers("prod")' = Sleepers("prod") \cup {p} /\ p \notin Sleepers("prod")
      BY <1>0, <2>1 DEF Sleepers, OnlyMoves, Members
    <3>2. Granted(sem["prod"], p)
      BY <3>1, <1>00 DEF Granted
    <3> QED BY <1>0, <1>00, <2>1, <3>1, <3>2, UnitsDown DEF Pending
  <2>3. Reason(p)' = Reason(p)
    BY <2>1 DEF Reason, Avail
  <2> QED BY <2>1, <2>2, <2>3, <1>00, <1>000 DEF Surplus, Takes, Decrements
<1>3. CASE Relock(p)
  <2>1. /\ at[p] = "sem" /\ Granted(sem["prod"], p) /\ at'[p] = "relock"
        /\ call' = call /\ sem' = sem /\ waiting' = waiting
    BY <1>0, <1>3 DEF Relock
  <2>2. Pending' = Pending - 1
    <3>1. Sleepers("prod")' = Sleepers("prod") \ {p} /\ p \in Sleepers("prod")
      BY <1>0, <2>1 DEF Sleepers, OnlyMoves, Members
    <3> QED BY <1>00, <2>1, <3>1, UnitsLeave DEF Pending
  <2> QED BY <2>1, <2>2, <1>00, <1>000 DEF Surplus, Takes, Decrements
<1>4. CASE InterruptSleep(p)
  <2>1. /\ at[p] = "sem" /\ p \in Waiting(sem["prod"]) /\ at'[p] = "eintr"
        /\ call' = call /\ waiting' = waiting /\ sem'["prod"] = Cancel(sem["prod"], p)
    BY <1>0, <1>4 DEF InterruptSleep, Granted
  <2>2. Pending' = Pending
    <3>1. Sleepers("prod")' = Sleepers("prod") \ {p}
      BY <1>0, <2>1 DEF Sleepers, OnlyMoves, Members
    <3> QED BY <1>00, <2>1, <3>1, UnitsCancel DEF Pending
  <2> QED BY <2>1, <2>2, <1>00, <1>000 DEF Surplus, Takes, Decrements
<1>5. CASE UndoLock(p)
  <2>1. /\ at[p] = "eintr" /\ at'[p] = "undo" /\ call' = call /\ sem' = sem
        /\ waiting' = waiting
    BY <1>0, <1>5 DEF UndoLock
  <2>2. Pending' = Pending
    BY <1>0, <2>1, PendingStays
  <2> QED BY <2>1, <2>2, <1>00, <1>000 DEF Surplus, Takes, Decrements
<1>6. CASE InterruptMtx(p)
  <2>1. at[p] \in {"mtx", "relock"} /\ at'[p] = "out" /\ sem' = sem /\ waiting' = waiting
    BY <1>0, <1>6 DEF InterruptMtx, Return
  <2>2. Pending' = Pending
    BY <1>0, <2>1, PendingStays
  <2> QED BY <2>1, <2>2, <1>00, <1>000 DEF Surplus, Takes, Decrements
<1>7. CASE Open(p) \/ RecheckOpen(p)
  <2>1. /\ call[p] = "open" /\ AwaitOther(p) /\ count'["cons"] = count["cons"]
        /\ \/ Open(p) /\ at[p] = "mtx" /\ sem'["prod"] = Up(sem["prod"])
           \/ RecheckOpen(p) /\ at[p] = "relock" /\ sem' = sem
    BY <1>0, <1>7 DEF Open, RecheckOpen, Owns
  <2>2. \/ /\ at'[p] = "sleep" /\ call' = call /\ count["cons"] = 0
           /\ waiting'["prod"] = waiting["prod"] + 1
        \/ at'[p] = "out" /\ waiting'["prod"] = waiting["prod"] - 1
    BY <1>0, <2>1 DEF AwaitOther, GoToSleep, Return
  <2>3. Surplus(p)' >= Surplus(p)
    <3>1. CASE Open(p) /\ at[p] = "mtx" /\ sem'["prod"] = Up(sem["prod"])
      <4>1. Pending' = Pending + 1
        BY <1>0, <2>2, <3>1, PendingUp
      <4> QED BY <2>1, <2>2, <3>1, <4>1, <1>00, <1>000 DEF Surplus, Takes, Decrements
    <3>2. CASE RecheckOpen(p) /\ at[p] = "relock" /\ sem' = sem
      <4>1. Pending' = Pending
        BY <1>0, <2>2, <3>2, PendingStays
      <4> QED BY <2>1, <2>2, <3>2, <4>1, <1>00, <1>000 DEF Surplus, Takes, Decrements
    <3> QED BY <2>1, <3>1, <3>2
  <2>4. at'[p] \in {"sleep", "sem"} => Reason(p)'
    BY <2>1, <2>2 DEF Reason
  <2> QED BY <2>3, <2>4
<1>8. CASE UndoOpen(p) \/ UndoWrite(p)
  <2>1. /\ at[p] = "undo" /\ at'[p] = "out" /\ sem'["prod"] = sem["prod"]
        /\ waiting'["prod"] = waiting["prod"] - 1
    BY <1>0, <1>8 DEF UndoOpen, UndoWrite, Return, Owns
  <2>2. Pending' = Pending
    BY <1>0, <2>1, PendingStays
  <2> QED BY <2>1, <2>2, <1>00, <1>000 DEF Surplus, Takes, Decrements
<1>9. CASE WriteWaits(p)
  <2>1. /\ call[p] = "transfer" /\ at[p] \in {"mtx", "relock"} /\ at'[p] = "sleep"
        /\ call' = call /\ len' = len /\ UNCHANGED <<fill, count>>
        /\ sem'["prod"] = sem["prod"] /\ waiting'["prod"] = waiting["prod"] + 1
        /\ MustWaitForRoom(p)
    BY <1>0, <1>9 DEF WriteWaits, GoToSleep, OwnsWrite, Owns
  <2>2. Pending' = Pending
    BY <1>0, <2>1, PendingStays
  <2>3. Reason(p)'
    BY <2>1 DEF Reason, MustWaitForRoom, Avail
  <2> QED BY <2>1, <2>2, <2>3, <1>00, <1>000 DEF Surplus, Takes, Decrements
<1>10. CASE WriteBroken(p) \/ WriteInserts(p) \/ Release(p)
  <2>1. /\ call[p] \in {"transfer", "release"} /\ at[p] \in {"mtx", "relock"}
        /\ at'[p] = "out" /\ sem'["prod"] = sem["prod"]
        /\ waiting'["prod"] = waiting["prod"]
    BY <1>0, <1>10 DEF WriteBroken, WriteInserts, WakeCounted, Release, Return,
                       OwnsWrite, Owns
  <2>2. Pending' = Pending
    BY <1>0, <2>1, PendingStays
  <2> QED BY <2>1, <2>2, <1>00, <1>000 DEF Surplus, Takes, Decrements
<1>11. p \notin Consumers
  BY FifoAssumption
<1> QED BY <1>1, <1>2, <1>3, <1>4, <1>5, <1>6, <1>7, <1>8, <1>9, <1>10, <1>11
        DEF StepOf, Step, ReadWaits, ReadEnds, ReadExtracts, ReadFaults, Extract,
            UndoRead, OwnsRead

(* The account holds after every step, whoever takes it. *)
LEMMA StepWoken ==
    ASSUME OneProducer, Inv, WakesOwed, Reasons, NEW p \in Proc, StepOf(p)
    PROVE  WakesOwed' /\ Reasons'
<1>0. /\ Types /\ QueuesOK /\ QueuesOK' /\ OnlyMoves(p)
      /\ waiting["prod"] \in Int /\ Pending \in Nat
      /\ waiting'["prod"] \in Int /\ Pending' \in Nat
  <2>1. Types /\ QueuesOK /\ Types' /\ QueuesOK' /\ OnlyMoves(p)
    BY StepTypes, StepQueues DEF Inv
  <2>2. Pending \in Nat
    BY <2>1, PendingType
  <2>3. Pending' \in Nat
    BY <2>1, PendingTypeNext
  <2> QED BY <2>1, <2>2, <2>3 DEF Types, Roles
<1> SUFFICES ASSUME NEW q \in Producers
             PROVE  /\ waiting'["prod"] + Pending' >= Takes(q)' + Decrements(q)'
                    /\ at'[q] \in {"sleep", "sem"} /\ Pending' = 0 => Reason(q)'
  BY DEF WakesOwed, Reasons
<1>1. /\ waiting["prod"] + Pending >= Takes(q) + Decrements(q)
      /\ at[q] \in {"sleep", "sem"} /\ Pending = 0 => Reason(q)
      /\ Takes(q) \in Nat /\ Decrements(q) \in Nat
      /\ Takes(q)' \in Nat /\ Decrements(q)' \in Nat
  BY DEF WakesOwed, Reasons, Takes, Decrements
<1>2. CASE p \in Producers
  <2>1. p = q
    BY <1>2 DEF OneProducer
  <2>2. Surplus(q)' >= Surplus(q)
    BY <1>0, <1>2, <2>1, ProducerSteps
  <2>3. at'[q] \in {"sleep", "sem"} =>
          Reason(q)' \/ (at[q] = "sleep" /\ Pending' = Pending /\ Reason(q)' = Reason(q))
    BY <1>0, <1>2, <2>1, ProducerSteps
  <2>4. waiting'["prod"] + Pending' >= Takes(q)' + Decrements(q)'
    BY <1>0, <1>1, <2>2 DEF Surplus
  <2> QED BY <1>1, <2>3, <2>4
<1>3. CASE p \in Consumers
  <2>1. q # p /\ q \in Proc
    BY <1>3, FifoAssumption DEF Proc
  <2>2. at'[q] = at[q] /\ call'[q] = call[q] /\ len'[q] = len[q]
    <3>1. len'[q] = len[q]
      BY <1>0, <2>1 DEF Types, StepOf, Step, CallOpen, CallTransfer, CallRelease, Enter, Sleep,
                  Relock, UndoLock, InterruptSleep, InterruptMtx, Open, RecheckOpen,
                  UndoOpen, WriteWaits, WriteBroken, WriteInserts, UndoWrite,
                  ReadWaits, ReadEnds, ReadExtracts, ReadFaults, Extract, UndoRead,
                  Release, AwaitOther, GoToSleep, Return
    <3> QED BY <1>0, <2>1, <3>1 DEF OnlyMoves
  <2>3. Takes(q)' = Takes(q) /\ Decrements(q)' = Decrements(q)
    BY <2>2 DEF Takes, Decrements
  <2>4. CASE /\ Pending' = Pending + 1
             /\ waiting'["prod"] \in {waiting["prod"], waiting["prod"] - 1}
    BY <1>0, <1>1, <2>3, <2>4
  <2>5. CASE /\ Pending' = Pending
             /\ waiting'["prod"] = waiting["prod"] /\ count'["cons"] = count["cons"]
             /\ fill' = fill \/ waiting["prod"] <= 0
    <3>1. waiting'["prod"] + Pending' >= Takes(q)' + Decrements(q)'
      BY <1>1, <2>3, <2>5
    <3>2. CASE fill' = fill
      BY <1>1, <2>2, <2>5, <3>1, <3>2 DEF Reason, Avail
    <3>3. CASE waiting["prod"] <= 0
      <4>1. ~(at'[q] \in {"sleep", "sem"} /\ Pending' = 0)
        BY <1>0, <1>1, <2>2, <2>5, <3>3 DEF Takes
      <4> QED BY <3>1, <4>1
    <3> QED BY <2>5, <3>2, <3>3
  <2> QED BY <1>0, <1>3, <2>4, <2>5, ConsumerSteps
<1> QED BY <1>2, <1>3 DEF Proc

(* A single producer sleeps only beside too little room and a consumer that can
   make some, or in open while there is no consumer, whatever the consumers, the
   signals and the bad buffers. *)
THEOREM ProducerIsWoken == OneProducer /\ Spec => []ProducerWoken
<1>1. Init => WakesOwed /\ Reasons
  <2> SUFFICES ASSUME Init
               PROVE  WakesOwed /\ Reasons
    OBVIOUS
  <2>1. Pending \in Nat
    BY InitInv, PendingType DEF Inv
  <2> QED BY <2>1 DEF Init, WakesOwed, Reasons, Takes, Decrements, Proc, Roles
<1>2. OneProducer /\ Inv /\ WakesOwed /\ Reasons /\ [Next]_vars => WakesOwed' /\ Reasons'
  <2> SUFFICES ASSUME OneProducer, Inv, WakesOwed, Reasons, [Next]_vars
               PROVE  WakesOwed' /\ Reasons'
    OBVIOUS
  <2>1. CASE UNCHANGED vars
    BY <2>1 DEF vars, history, WakesOwed, Reasons, Pending, Sleepers, Members, Takes,
                Decrements, Reason, Avail
  <2>2. CASE Next
    BY <2>2, StepWoken DEF Next, StepOf
  <2> QED BY <2>1, <2>2
<1>3. OneProducer /\ Inv /\ Reasons => ProducerWoken
  <2> SUFFICES ASSUME OneProducer, Inv, Reasons, NEW p \in Producers, Asleep(p)
               PROVE  Reason(p)
    BY DEF ProducerWoken, Reason
  <2>1. /\ at[p] = "sem" /\ p \in Waiting(sem["prod"]) /\ Role(p) = "prod"
    <3>1. Role(p) = "prod"
      BY RoleType DEF Proc
    <3> QED BY <3>1 DEF Asleep, Granted
  <2>2. sem["prod"].count = 0
    <3>1. IsSemaphore(sem["prod"], Proc)
      BY PendingType DEF Inv
    <3>2. sem["prod"].queue # <<>>
      BY <2>1 DEF Waiting
    <3> QED BY <3>1, <3>2 DEF IsSemaphore
  <2>3. Sleepers("prod") \ Waiting(sem["prod"]) = {}
    <3>1. \A q \in Members("prod") : q \in Producers
      BY DEF Members, Proc, Role
    <3> QED BY <2>1, <3>1 DEF Sleepers, OneProducer
  <2>4. Pending = 0
    BY <2>2, <2>3, FS_EmptySet DEF Pending, Units
  <2> QED BY <2>1, <2>4 DEF Reasons
<1>4. OneProducer => []OneProducer
  OBVIOUS
<1> QED BY <1>1, <1>2, <1>3, <1>4, InvHolds, PTL DEF Spec
-----------------------------------------------------------------------------
(* A reader and a writer that lack each other's room                       *)

\* One process writes and one reads, and no signals come.
OnePair ==
    /\ \A p, q \in Producers : p = q
    /\ \A p, q \in Consumers : p = q
    /\ ~Signals

\* Without signals nothing is undone, and the counts are the truth.
Undisturbed ==
    /\ \A p \in Proc : at[p] \notin {"eintr", "undo"}
    /\ \A r \in Roles : drift[r] = 0

(* Without signals no process comes to the paths that undo. *)
LEMMA UndisturbedStays ==
    ASSUME ~Signals, Inv, Undisturbed, NEW p \in Proc, StepOf(p)
    PROVE  Undisturbed'
<1>1. Types /\ OnlyMoves(p)
  BY StepTypes DEF Inv
<1>2. at'[p] \notin {"eintr", "undo"} /\ UNCHANGED drift
  BY <1>1 DEF Undisturbed, Types, StepOf, Step, CallOpen, CallTransfer, CallRelease,
              Enter, Sleep, Relock, UndoLock, InterruptSleep, InterruptMtx, Open,
              RecheckOpen, UndoOpen, WriteWaits, WriteBroken, WriteInserts, UndoWrite,
              ReadWaits, ReadEnds, ReadExtracts, ReadFaults, Extract, UndoRead,
              Release, AwaitOther, GoToSleep, Return, Owns, OwnsWrite, OwnsRead,
              shared, history
<1> QED BY <1>1, <1>2 DEF Undisturbed, OnlyMoves

(* A process that is inside a transfer is counted. *)
LEMMA BothCounted ==
    ASSUME Inv, Undisturbed, NEW p \in Proc, call[p] = "transfer"
    PROVE  count[Role(p)] > 0
<1>1. Role(p) \in Roles /\ p \in RegisteredIn(Role(p))
  BY RoleType DEF RegisteredIn, Members, Registered
<1>2. Cardinality(RegisteredIn(Role(p))) \in Nat \ {0}
  BY <1>1, Finite, FS_EmptySet
<1>3. count[Role(p)] = Cardinality(RegisteredIn(Role(p))) + 0
  BY <1>1 DEF Inv, CountsExact, Undisturbed
<1> QED BY <1>2, <1>3

(* Neither of the two can leave its loop. *)
LEMMA StuckStays ==
    ASSUME OnePair, Inv, Undisturbed, Stuck, NEW p \in Proc, StepOf(p)
    PROVE  Stuck'
<1>1. PICK w \in Producers, c \in Consumers :
          /\ call[w] = "transfer" /\ Avail < len[w]
          /\ call[c] = "transfer" /\ fill < len[c]
  BY DEF Stuck
<1>2. /\ w \in Proc /\ c \in Proc /\ w # c /\ w \notin Consumers /\ c \notin Producers
      /\ Role(w) = "prod" /\ Role(c) = "cons" /\ (p = w \/ p = c)
  BY RoleType, FifoAssumption DEF OnePair, Proc
<1>3. count["prod"] > 0 /\ count["cons"] > 0
  BY <1>1, <1>2, BothCounted
<1>4. MustWaitForRoom(w) /\ MustWaitForData(c)
  BY <1>1, <1>3 DEF MustWaitForRoom, MustWaitForData
<1>5. at[p] \notin {"eintr", "undo"} /\ call[p] = "transfer"
  BY <1>1, <1>2 DEF Undisturbed
<1>6. UNCHANGED <<call, len, fill>>
  <2>1. CASE p = w
    BY <2>1, <1>2, <1>4, <1>5
       DEF OnePair, StepOf, Step, CallOpen, CallTransfer, CallRelease, Enter, Sleep, Relock,
           UndoLock, InterruptSleep, InterruptMtx, Open, RecheckOpen, UndoOpen,
           WriteWaits, WriteBroken, WriteInserts, UndoWrite, ReadWaits, ReadEnds,
           ReadExtracts, ReadFaults, Extract, UndoRead, Release, GoToSleep, Owns,
           OwnsWrite, OwnsRead, shared
  <2>2. CASE p = c
    BY <2>2, <1>2, <1>4, <1>5
       DEF OnePair, StepOf, Step, CallOpen, CallTransfer, CallRelease, Enter, Sleep, Relock,
           UndoLock, InterruptSleep, InterruptMtx, Open, RecheckOpen, UndoOpen,
           WriteWaits, WriteBroken, WriteInserts, UndoWrite, ReadWaits, ReadEnds,
           ReadExtracts, ReadFaults, Extract, UndoRead, Release, GoToSleep, Owns,
           OwnsWrite, OwnsRead, shared
  <2> QED BY <2>1, <2>2, <1>2
<1> QED BY <1>1, <1>6 DEF Stuck, Avail

(* A reader and a writer that lack each other's room never return, whatever the
   size of the buffer and the lengths, as nothing refuses a long read (155-166). *)
THEOREM NeverUnstuck == OnePair /\ Spec => StuckForGood
<1>1. OnePair /\ Init => Undisturbed
  BY DEF Init, Undisturbed, Roles
<1>2. OnePair /\ Inv /\ Undisturbed /\ [Next]_vars => Undisturbed'
  <2> SUFFICES ASSUME OnePair, Inv, Undisturbed, [Next]_vars
               PROVE  Undisturbed'
    OBVIOUS
  <2>1. CASE UNCHANGED vars
    BY <2>1 DEF vars, history, Undisturbed
  <2>2. CASE Next
    BY <2>2, UndisturbedStays DEF Next, StepOf, OnePair
  <2> QED BY <2>1, <2>2
<1>3. OnePair /\ Inv /\ Undisturbed /\ [Next]_vars => [Stuck => Stuck']_vars
  BY StuckStays DEF Next, StepOf
<1>4. OnePair => []OnePair
  OBVIOUS
<1> QED BY <1>1, <1>2, <1>3, <1>4, InvHolds, PTL DEF Spec, StuckForGood
=============================================================================
