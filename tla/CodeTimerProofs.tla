--------------------------- MODULE CodeTimerProofs ---------------------------
(***************************************************************************)
(* Proofs about codetimer.c, for any number of readers that share the      *)
(* file, codes of any length, any threshold and any size of the ring.      *)
(*                                                                         *)
(* Three arguments.  A code in the list has a unit of sem_coderead that    *)
(* stands for it, in the count or with a reader that no signal can turn    *)
(* away any more; so a reader that sleeps beside it does not sleep for     *)
(* good.  A release that the timer does not overtake counts down the       *)
(* executions of the work that it found.  And each step of the code is a   *)
(* step of LossyStream: the codes that the ring, the work item and the     *)
(* list hold are, put together, one queue.                                 *)
(*                                                                         *)
(* The second half is about the optional codetimer and its two readers:    *)
(* the first and the third argument for each of its two lists, and who can *)
(* lose sem_num.                                                           *)
(***************************************************************************)
EXTENDS CodeTimer, CommonLemmas

Parties == Readers \cup {Worker}

\* Those who called down on sem_list and owe it an up.
ListUsers == {u \in Parties : IF u = Worker THEN work = "list" ELSE at[u] = "list"}

Types ==
    /\ file \in {"closed", "listing", "timing", "open", "flush", "free", "stop", "clean"}
    /\ timer \in {"idle", "armed", "hidden"}
    /\ size \in {1, CBUF_SIZE}
    /\ ring \in Seq(Formats) /\ hand \in Seq(Formats) /\ list \in Seq(Formats)
    /\ used \in 0..size
    /\ queued \in BOOLEAN /\ awaited \in 0..2 /\ overtaken \in BOOLEAN
    /\ work \in {"idle", "adding", "list"}
    /\ at \in [Readers -> {"out", "list", "unlocked", "wait", "copy"}]
    /\ got \in [Readers -> Seq(Formats)]
    /\ code_format \in Formats /\ emergency_threshold \in Thresholds

\* What the work item and the readers have in hand, and when.
Hands ==
    /\ work = "idle" => hand = <<>>
    /\ work = "list" => hand # <<>>
    /\ \A r \in Readers : at[r] # "copy" => got[r] = <<>>

\* sem_list is one unit; only readers that wait do so on sem_coderead.
ListOK == Ledger(sem_list, Parties, ListUsers, ListUsers, 1)
CodeReadOK ==
    /\ IsSemaphore(sem_coderead, Readers)
    /\ Waiting(sem_coderead) \subseteq {r \in Readers : at[r] = "wait"}

\* r will reach the list, whatever happens.
Active(r) ==
    \/ at[r] = "list" /\ Granted(sem_list, r)
    \/ at[r] = "wait" /\ Granted(sem_coderead, r)

\* Once the work item has told of the codes in the list, somebody knows.
Told ==
    work = "idle" /\ list # <<>> =>
        sem_coderead.count > 0 \/ \E r \in Readers : Active(r)

\* How far a release that is not overtaken has come.
Releasing ==
    /\ file = "stop" => size = 1 /\ used = 0
    /\ ~overtaken =>
       /\ file = "flush" => awaited = Executions
       /\ file \in {"free", "stop", "clean", "closed"} => ~queued /\ work = "idle"
       /\ file \in {"stop", "clean", "closed"} => ring = <<>>
       /\ file \in {"clean", "closed"} => timer = "idle"
       /\ file = "closed" => list = <<>>

\* The inductive invariant.
Inv ==
    /\ Types
    /\ Hands
    /\ ListOK
    /\ CodeReadOK
    /\ Told
    /\ Releasing
-----------------------------------------------------------------------------
(* Types                                                                   *)

\* The steps of a reader.
ReaderStep(r) == CallRead(r) \/ ReadStep(r) \/ InterruptList(r) \/ InterruptWait(r)

(* Codes that fit take no more bytes than the ring has. *)
LEMMA TickFits ==
    ASSUME Types
    PROVE  /\ Filled \in Seq(Formats) /\ FilledTo \in 0..size
           /\ code_format \in Nat \ {0}
           /\ size = 1 => Filled = ring /\ FilledTo = used
<1>1. code_format \in Nat \ {0} /\ CBUF_SIZE \in Nat /\ code_format \in Formats
  BY CodeAssumption DEF Types
<1>2. FilledTo \in 0..size
  BY <1>1 DEF FilledTo, Fits, Avail, Types
<1>3. Filled \in Seq(Formats)
  BY <1>1 DEF Filled, Types
<1>4. size = 1 => ~Fits
  BY <1>1 DEF Fits, Avail, Types
<1> QED BY <1>1, <1>2, <1>3, <1>4 DEF Filled, FilledTo

LEMMA StepTypes ==
    ASSUME Types, Hands, Next
    PROVE  Types' /\ Hands'
<1> USE CodeAssumption DEF Types, Hands, handler, config, cbuffer, worker, reader, sems
<1>0. CBUF_SIZE \in Nat /\ CBUF_SIZE > 1
  OBVIOUS
<1>1. CASE ConfigWrite
  BY <1>1 DEF ConfigWrite
<1>2. CASE Generate
  <2>1. queued' \in BOOLEAN
    BY <1>2 DEF Generate, Wanted
  <2>2. overtaken' \in BOOLEAN
    BY <1>2 DEF Generate
  <2>3. ring' \in Seq(Formats) /\ used' \in 0..size
    BY <1>2, TickFits DEF Generate
  <2> QED BY <1>2, <2>1, <2>2, <2>3 DEF Generate
<1>3. CASE BeginWork
  <2>1. ring' \in Seq(Formats) /\ used' \in 0..size
    BY <1>0, <1>3, EmptySeq DEF BeginWork
  <2> QED BY <1>3, <2>1 DEF BeginWork
<1>4. CASE AskToAdd
  BY <1>4 DEF AskToAdd
<1>5. CASE AddCode
  <2>1. /\ Head(hand) \in Formats /\ Tail(hand) \in Seq(Formats)
    BY <1>5, HeadTailProperties DEF AddCode
  <2>2. list' \in Seq(Formats) /\ hand' \in Seq(Formats)
    BY <1>5, <2>1, AppendProperties DEF AddCode
  <2> QED BY <1>5, <2>2 DEF AddCode
<1>6. CASE EndWork
  BY <1>6 DEF EndWork
<1>7. CASE Open
  BY <1>0, <1>7 DEF Open
<1>8. CASE OpenStep
  <2>1. CASE InitList
    BY <2>1 DEF InitList
  <2>2. CASE InitTimer
    BY <2>2 DEF InitTimer
  <2> QED BY <1>8, <2>1, <2>2 DEF OpenStep
<1>9. CASE CallRelease
  BY <1>9 DEF CallRelease, Executions
<1>10. CASE ReleaseStep
  <2>1. CASE Flush
    BY <2>1 DEF Flush
  <2>2. CASE FreeRing
    BY <1>0, <2>2 DEF FreeRing
  <2>3. CASE StopTimer
    BY <2>3 DEF StopTimer
  <2>4. CASE CleanUp
    BY <2>4 DEF CleanUp
  <2> QED BY <1>10, <2>1, <2>2, <2>3, <2>4 DEF ReleaseStep
<1>11. ASSUME NEW r \in Readers, ReaderStep(r)
       PROVE  Types' /\ Hands'
  <2>1. CASE Drain(r)
    BY <2>1 DEF Drain, OwnsList
  <2>2. CASE Return(r)
    BY <2>2 DEF Return
  <2>3. CASE CallRead(r) \/ FindEmpty(r) \/ Sleep(r) \/ Relock(r)
             \/ InterruptList(r) \/ InterruptWait(r)
    <3>1. /\ UNCHANGED <<handler, cbuffer, list, worker, got, config>>
          /\ at[r] # "copy"
          /\ \E place \in {"out", "list", "unlocked", "wait"} :
                at' = [at EXCEPT ![r] = place]
      BY <2>3 DEF CallRead, FindEmpty, OwnsList, Sleep, Relock, InterruptList, InterruptWait
    <3> QED BY <3>1
  <2> QED BY <1>11, <2>1, <2>2, <2>3 DEF ReaderStep, ReadStep
<1> QED BY <1>1, <1>2, <1>3, <1>4, <1>5, <1>6, <1>7, <1>8, <1>9, <1>10, <1>11
        DEF Next, WorkStep, ReaderStep
-----------------------------------------------------------------------------
(* A release                                                               *)

LEMMA StepReleasing ==
    ASSUME Types, Hands, Releasing, Next
    PROVE  Releasing'
<1> USE DEF Types, Hands, Releasing, Executions, handler, config, cbuffer, worker, reader,
            sems
<1>1. CASE ConfigWrite
  BY <1>1 DEF ConfigWrite
<1>2. CASE Generate
  <2>1. file = "stop" => ring' = ring /\ used' = used
    BY <1>2, TickFits DEF Generate
  <2>2. ~overtaken' => ~overtaken /\ (file \in {"flush", "free", "stop"} => queued' = queued)
    BY <1>2 DEF Generate, Overtakes, Wanted
  <2>3. ~overtaken' => file \notin {"clean", "closed"}
    BY <1>2, <2>2 DEF Generate
  <2> QED BY <1>2, <2>1, <2>2, <2>3 DEF Generate
<1>3. CASE BeginWork
  BY <1>3 DEF BeginWork
<1>4. CASE AskToAdd
  BY <1>4 DEF AskToAdd
<1>5. CASE AddCode
  BY <1>5 DEF AddCode
<1>6. CASE EndWork
  BY <1>6 DEF EndWork
<1>7. CASE Open
  BY <1>7 DEF Open
<1>8. CASE OpenStep
  BY <1>8 DEF OpenStep, InitList, InitTimer
<1>9. CASE CallRelease
  BY <1>9 DEF CallRelease
<1>10. CASE Flush \/ FreeRing
  BY <1>10 DEF Flush, FreeRing
<1>11. CASE StopTimer \/ CleanUp
  <2>1. CASE StopTimer
    BY <2>1 DEF StopTimer
  <2>2. CASE CleanUp
    BY <2>2 DEF CleanUp
  <2> QED BY <1>11, <2>1, <2>2
<1>12. ASSUME NEW r \in Readers, ReaderStep(r)
       PROVE  Releasing'
  <2>1. UNCHANGED <<handler, cbuffer, worker>> /\ (list' = list \/ list' = <<>>)
    BY <1>12 DEF ReaderStep, ReadStep, CallRead, FindEmpty, OwnsList, Sleep, Relock,
                 Drain, Return, InterruptList, InterruptWait
  <2> QED BY <2>1
<1> QED BY <1>1, <1>2, <1>3, <1>4, <1>5, <1>6, <1>7, <1>8, <1>9, <1>10, <1>11, <1>12
        DEF Next, WorkStep, ReaderStep, ReleaseStep
-----------------------------------------------------------------------------
(* The semaphores                                                          *)

LEMMA PartiesFinite ==
    /\ IsFiniteSet(Parties) /\ Worker \in Parties /\ Readers \subseteq Parties
    /\ \A r \in Readers : r # Worker
<1>1. IsFiniteSet(Readers \cup {Worker})
  BY CodeAssumption, FS_AddElement
<1> QED BY <1>1, CodeAssumption DEF Parties

(* u calls down on sem_list; u has it and calls up; u gives up waiting. *)
LEMMA ListMoves ==
    ASSUME ListOK, NEW u \in Parties
    PROVE  /\ u \notin ListUsers /\ ListUsers' = ListUsers \cup {u}
                /\ sem_list' = Down(sem_list, u) => ListOK'
           /\ u \in ListUsers /\ Granted(sem_list, u) /\ ListUsers' = ListUsers \ {u}
                /\ sem_list' = Up(sem_list) => ListOK'
           /\ u \in ListUsers /\ ~Granted(sem_list, u) /\ ListUsers' = ListUsers \ {u}
                /\ sem_list' = Cancel(sem_list, u) => ListOK'
<1>1. ASSUME u \notin ListUsers
      PROVE  Ledger(Down(sem_list, u), Parties, ListUsers \cup {u}, ListUsers \cup {u}, 1)
  BY <1>1, PartiesFinite, LedgerDown DEF ListOK
<1>2. ASSUME u \in ListUsers, Granted(sem_list, u)
      PROVE  Ledger(Up(sem_list), Parties, ListUsers \ {u}, ListUsers \ {u}, 1)
  <2>1. Ledger(sem_list, Parties, ListUsers \ {u}, ListUsers, 1)
    BY <1>2, LedgerPass DEF ListOK
  <2> QED BY <1>2, <2>1, PartiesFinite, LedgerUp
<1>3. ASSUME u \in ListUsers, ~Granted(sem_list, u)
      PROVE  Ledger(Cancel(sem_list, u), Parties, ListUsers \ {u}, ListUsers \ {u}, 1)
  BY <1>3, LedgerCancel DEF ListOK
<1> QED BY <1>1, <1>2, <1>3 DEF ListOK

(* The books of sem_list balance after every step. *)
LEMMA StepList ==
    ASSUME Types, ListOK, Next
    PROVE  ListOK'
<1> USE DEF handler, config, cbuffer, worker, reader, sems
<1>0. /\ at \in [Readers -> {"out", "list", "unlocked", "wait", "copy"}]
      /\ work \in {"idle", "adding", "list"}
  BY DEF Types
<1>1. CASE UNCHANGED <<sem_list, at>> /\ (work' = "list" <=> work = "list")
  <2>1. ListUsers' = ListUsers
    BY <1>1 DEF ListUsers
  <2> QED BY <1>1, <2>1 DEF ListOK
<1>2. CASE ConfigWrite \/ Generate \/ BeginWork \/ EndWork
  BY <1>1, <1>2 DEF ConfigWrite, Generate, BeginWork, EndWork
<1>3. CASE Open \/ OpenStep \/ CallRelease \/ ReleaseStep
  BY <1>1, <1>3 DEF Open, OpenStep, InitList, InitTimer, CallRelease, ReleaseStep, Flush,
                    FreeRing, StopTimer, CleanUp
<1>4. CASE AskToAdd
  <2>1. Worker \notin ListUsers /\ ListUsers' = ListUsers \cup {Worker}
    BY <1>4, PartiesFinite DEF AskToAdd, ListUsers
  <2> QED BY <1>4, <2>1, ListMoves, PartiesFinite DEF AskToAdd
<1>5. CASE AddCode
  <2>1. Worker \in ListUsers /\ ListUsers' = ListUsers \ {Worker}
    BY <1>5, PartiesFinite DEF AddCode, ListUsers
  <2> QED BY <1>5, <2>1, ListMoves, PartiesFinite DEF AddCode
<1>6. ASSUME NEW r \in Readers, ReaderStep(r)
      PROVE  ListOK'
  <2>0. r \in Parties /\ r # Worker
    BY PartiesFinite
  <2>1. CASE CallRead(r) \/ Relock(r)
    <3>1. /\ at[r] # "list" /\ at' = [at EXCEPT ![r] = "list"] /\ work' = work
          /\ sem_list' = Down(sem_list, r)
      BY <2>1 DEF CallRead, Relock
    <3>2. r \notin ListUsers /\ ListUsers' = ListUsers \cup {r}
      BY <1>0, <2>0, <3>1 DEF ListUsers, Parties
    <3> QED BY <2>0, <3>1, <3>2, ListMoves
  <2>2. CASE FindEmpty(r) \/ Drain(r)
    <3>1. /\ at[r] = "list" /\ at'[r] # "list" /\ at' = [at EXCEPT ![r] = at'[r]]
          /\ work' = work /\ Granted(sem_list, r) /\ sem_list' = Up(sem_list)
      BY <1>0, <2>2 DEF FindEmpty, Drain, OwnsList
    <3>2. r \in ListUsers /\ ListUsers' = ListUsers \ {r}
      BY <1>0, <2>0, <3>1 DEF ListUsers, Parties
    <3> QED BY <2>0, <3>1, <3>2, ListMoves
  <2>3. CASE InterruptList(r)
    <3>1. /\ at[r] = "list" /\ at' = [at EXCEPT ![r] = "out"] /\ work' = work
          /\ ~Granted(sem_list, r) /\ sem_list' = Cancel(sem_list, r)
      BY <2>3 DEF InterruptList
    <3>2. r \in ListUsers /\ ListUsers' = ListUsers \ {r}
      BY <1>0, <2>0, <3>1 DEF ListUsers, Parties
    <3> QED BY <2>0, <3>1, <3>2, ListMoves
  <2>4. CASE Sleep(r) \/ Return(r) \/ InterruptWait(r)
    <3>1. /\ at[r] # "list" /\ at'[r] # "list" /\ at' = [at EXCEPT ![r] = at'[r]]
          /\ work' = work /\ sem_list' = sem_list
      BY <1>0, <2>4 DEF Sleep, Return, InterruptWait
    <3>2. ListUsers' = ListUsers
      BY <1>0, <2>0, <3>1 DEF ListUsers, Parties
    <3> QED BY <3>1, <3>2 DEF ListOK
  <2> QED BY <1>6, <2>1, <2>2, <2>3, <2>4 DEF ReaderStep, ReadStep
<1> QED BY <1>2, <1>3, <1>4, <1>5, <1>6 DEF Next, WorkStep, ReaderStep

(* Only readers wait on sem_coderead, where they called down. *)
LEMMA StepCodeRead ==
    ASSUME Types, CodeReadOK, Next
    PROVE  CodeReadOK'
<1> USE DEF handler, config, cbuffer, worker, reader, sems
<1>0. at \in [Readers -> {"out", "list", "unlocked", "wait", "copy"}]
  BY DEF Types
<1>1. CASE UNCHANGED sem_coderead
           /\ \A r \in Waiting(sem_coderead) : at[r] = "wait" => at'[r] = "wait"
  BY <1>1 DEF CodeReadOK
<1>2. CASE ConfigWrite \/ Generate \/ BeginWork \/ AskToAdd \/ AddCode
  BY <1>1, <1>2 DEF ConfigWrite, Generate, BeginWork, AskToAdd, AddCode
<1>3. CASE Open \/ OpenStep \/ CallRelease \/ ReleaseStep
  BY <1>1, <1>3 DEF Open, OpenStep, InitList, InitTimer, CallRelease, ReleaseStep, Flush,
                    FreeRing, StopTimer, CleanUp
<1>4. CASE EndWork
  <2>1. sem_coderead' = Up(sem_coderead) /\ at' = at
    BY <1>4 DEF EndWork
  <2>2. CASE Waiting(sem_coderead) = {}
    BY <2>1, <2>2, UpEffect DEF CodeReadOK
  <2>3. CASE Waiting(sem_coderead) # {}
    <3>1. IsSemaphore(Up(sem_coderead), Readers)
      BY <2>3, UpEffect DEF CodeReadOK
    <3>2. PICK h \in Waiting(sem_coderead) :
             Waiting(Up(sem_coderead)) = Waiting(sem_coderead) \ {h}
      BY <2>3, UpEffect DEF CodeReadOK
    <3> QED BY <2>1, <3>1, <3>2 DEF CodeReadOK
  <2> QED BY <2>2, <2>3
<1>5. ASSUME NEW r \in Readers, ReaderStep(r)
      PROVE  CodeReadOK'
  <2>1. CASE CallRead(r) \/ FindEmpty(r) \/ Drain(r) \/ Return(r) \/ InterruptList(r)
    <3>1. /\ at[r] # "wait" /\ at' = [at EXCEPT ![r] = at'[r]]
          /\ sem_coderead' = sem_coderead
      BY <1>0, <2>1 DEF CallRead, FindEmpty, Drain, OwnsList, Return, InterruptList
    <3>2. \A q \in Readers : at[q] = "wait" => at'[q] = "wait"
      BY <1>0, <3>1
    <3>3. Waiting(sem_coderead) \subseteq Readers
      BY DEF CodeReadOK
    <3> QED BY <1>1, <3>1, <3>2, <3>3
  <2>2. CASE Relock(r)
    <3>1. /\ Granted(sem_coderead, r) /\ at' = [at EXCEPT ![r] = "list"]
          /\ sem_coderead' = sem_coderead
      BY <2>2 DEF Relock
    <3> QED BY <1>0, <1>1, <3>1 DEF Granted
  <2>3. CASE Sleep(r)
    <3>1. /\ at' = [at EXCEPT ![r] = "wait"] /\ at[r] = "unlocked"
          /\ sem_coderead' = Down(sem_coderead, r)
      BY <2>3 DEF Sleep
    <3>2. IsSemaphore(sem_coderead, Readers) /\ Granted(sem_coderead, r)
      BY <3>1 DEF CodeReadOK, Granted
    <3>3. sem_coderead.count > 0 \/ sem_coderead.count = 0
      BY <3>2 DEF IsSemaphore
    <3>4. /\ IsSemaphore(Down(sem_coderead, r), Readers)
          /\ Waiting(Down(sem_coderead, r)) \subseteq Waiting(sem_coderead) \cup {r}
      BY <3>2, <3>3, DownEffect
    <3> QED BY <1>0, <3>1, <3>4 DEF CodeReadOK
  <2>4. CASE InterruptWait(r)
    <3>1. /\ at' = [at EXCEPT ![r] = "out"] /\ r \in Waiting(sem_coderead)
          /\ sem_coderead' = Cancel(sem_coderead, r)
      BY <2>4 DEF InterruptWait, Granted
    <3>2. /\ IsSemaphore(Cancel(sem_coderead, r), Readers)
          /\ Waiting(Cancel(sem_coderead, r)) = Waiting(sem_coderead) \ {r}
      BY <3>1, CancelEffect DEF CodeReadOK
    <3> QED BY <1>0, <3>1, <3>2 DEF CodeReadOK
  <2> QED BY <1>5, <2>1, <2>2, <2>3, <2>4 DEF ReaderStep, ReadStep
<1> QED BY <1>2, <1>3, <1>4, <1>5 DEF Next, WorkStep, ReaderStep
-----------------------------------------------------------------------------
(* What the readers know                                                   *)

(* A step that adds no code, takes no unit and turns nobody away. *)
LEMMA ToldStays ==
    ASSUME Told, sem_coderead' = sem_coderead,
           work' = "idle" => work = "idle",
           list' = list \/ list' = <<>>,
           \A r \in Readers : Active(r) => Active(r)'
    PROVE  Told'
BY DEF Told

(* A call of down on sem_list makes nobody wait but the caller. *)
LEMMA CallerWaits ==
    ASSUME ListOK, NEW u \in Parties, Granted(sem_list, u)
    PROVE  Waiting(Down(sem_list, u)) \subseteq Waiting(sem_list) \cup {u}
<1>1. IsSemaphore(sem_list, Parties)
  BY DEF ListOK, Ledger
<1>2. sem_list.count > 0 \/ sem_list.count = 0
  BY <1>1 DEF IsSemaphore
<1> QED BY <1>1, <1>2, DownEffect

(* What another reader knows does not change with that. *)
LEMMA OthersStay ==
    ASSUME NEW u, NEW r \in Readers, r # u,
           Waiting(sem_list') \subseteq Waiting(sem_list) \cup {u},
           sem_coderead' = sem_coderead, at'[r] = at[r], Active(r)
    PROVE  Active(r)'
BY DEF Active, Granted

(* If the unit of sem_list is taken, somebody has it. *)
LEMMA ListTaken ==
    ASSUME ListOK, sem_list.count = 0
    PROVE  \E u \in ListUsers : Granted(sem_list, u)
<1>1. Cardinality(ListUsers \ Waiting(sem_list)) = 1
  <2>1. IsFiniteSet(ListUsers \ Waiting(sem_list))
    BY PartiesFinite, FS_Subset DEF ListUsers
  <2>2. Cardinality(ListUsers \ Waiting(sem_list)) \in Nat
    BY <2>1, FS_CardinalityType
  <2> QED BY <2>2 DEF ListOK, Ledger, Units
<1>2. ListUsers \ Waiting(sem_list) # {}
  BY <1>1, FS_EmptySet
<1> QED BY <1>2 DEF Granted

LEMMA RelockTold ==
    ASSUME Types, ListOK, CodeReadOK, Told, NEW r \in Readers, Relock(r)
    PROVE  Told'
<1> SUFFICES ASSUME work = "idle"
             PROVE  \E q \in Readers : Active(q)'
  BY DEF Told, Relock, worker
<1>0. /\ at[r] = "wait" /\ at' = [at EXCEPT ![r] = "list"] /\ sem_coderead' = sem_coderead
      /\ sem_list' = Down(sem_list, r) /\ r \in Parties /\ r # Worker
      /\ at \in [Readers -> {"out", "list", "unlocked", "wait", "copy"}]
  BY PartiesFinite DEF Relock, Types
<1>1. IsSemaphore(sem_list, Parties) /\ sem_list.count \in Nat
  BY DEF ListOK, Ledger, IsSemaphore
<1>2. Granted(sem_list, r)
  BY <1>0 DEF ListOK, Ledger, Granted, ListUsers
<1>3. CASE sem_list.count > 0
  <2>1. Waiting(sem_list') = Waiting(sem_list)
    BY <1>0, <1>1, <1>2, <1>3, DownEffect
  <2>2. Active(r)'
    BY <1>0, <1>2, <2>1 DEF Active, Granted
  <2> QED BY <2>2
<1>4. CASE sem_list.count = 0
  <2>1. PICK u \in ListUsers : Granted(sem_list, u)
    BY <1>4, ListTaken
  <2>2. u \in Readers /\ at[u] = "list" /\ u # r
    BY <1>0, <2>1 DEF ListUsers, Parties
  <2>3. Active(u)
    BY <2>1, <2>2 DEF Active
  <2>4. Active(u)'
    BY <1>0, <1>2, <2>2, <2>3, CallerWaits, OthersStay
  <2> QED BY <2>2, <2>4
<1> QED BY <1>1, <1>3, <1>4

LEMMA SleepTold ==
    ASSUME Types, CodeReadOK, Told, NEW r \in Readers, Sleep(r)
    PROVE  Told'
<1>0. /\ at[r] = "unlocked" /\ at' = [at EXCEPT ![r] = "wait"] /\ sem_list' = sem_list
      /\ sem_coderead' = Down(sem_coderead, r) /\ list' = list /\ work' = work
      /\ at \in [Readers -> {"out", "list", "unlocked", "wait", "copy"}]
  BY DEF Sleep, Types, worker
<1>1. /\ IsSemaphore(sem_coderead, Readers) /\ sem_coderead.count \in Nat
      /\ Granted(sem_coderead, r)
  BY <1>0 DEF CodeReadOK, Granted, IsSemaphore
<1>2. CASE sem_coderead.count > 0
  <2>1. Waiting(sem_coderead') = Waiting(sem_coderead)
    BY <1>0, <1>1, <1>2, DownEffect
  <2>2. Active(r)'
    BY <1>0, <1>1, <2>1 DEF Active, Granted
  <2> QED BY <2>2 DEF Told
<1>3. CASE sem_coderead.count = 0
  <2>1. Waiting(sem_coderead') = Waiting(sem_coderead) \cup {r}
    BY <1>0, <1>1, <1>3, DownEffect
  <2>2. \A q \in Readers : Active(q) => Active(q)'
    BY <1>0, <2>1 DEF Active, Granted
  <2>3. work' = "idle" /\ list' # <<>> => \E q \in Readers : Active(q)
    BY <1>0, <1>3 DEF Told
  <2> QED BY <2>2, <2>3 DEF Told
<1> QED BY <1>1, <1>2, <1>3

LEMMA EndWorkTold ==
    ASSUME CodeReadOK, EndWork
    PROVE  Told'
<1>1. IsSemaphore(sem_coderead, Readers) /\ sem_coderead' = Up(sem_coderead) /\ at' = at
  BY DEF CodeReadOK, EndWork, reader
<1>2. CASE Waiting(sem_coderead) = {}
  <2>1. sem_coderead'.count = sem_coderead.count + 1 /\ sem_coderead.count \in Nat
    BY <1>1, <1>2, UpEffect DEF IsSemaphore
  <2> QED BY <2>1 DEF Told
<1>3. CASE Waiting(sem_coderead) # {}
  <2>1. PICK h \in Waiting(sem_coderead) :
           Waiting(sem_coderead') = Waiting(sem_coderead) \ {h}
    BY <1>1, <1>3, UpEffect
  <2>2. h \in Readers /\ at[h] = "wait"
    BY <2>1 DEF CodeReadOK
  <2>3. Active(h)'
    BY <1>1, <2>1, <2>2 DEF Active, Granted
  <2> QED BY <2>2, <2>3 DEF Told
<1> QED BY <1>2, <1>3

LEMMA StepTold ==
    ASSUME Types, ListOK, CodeReadOK, Told, Next
    PROVE  Told'
<1> USE DEF handler, config, cbuffer, worker, reader, sems
<1>0. at \in [Readers -> {"out", "list", "unlocked", "wait", "copy"}]
  BY DEF Types
<1>1. CASE /\ UNCHANGED <<sem_list, sem_coderead, at>> /\ (work' = "idle" => work = "idle")
           /\ list' = list \/ list' = <<>>
  <2>1. \A r \in Readers : Active(r) => Active(r)'
    BY <1>1 DEF Active
  <2> QED BY <1>1, <2>1, ToldStays
<1>2. CASE ConfigWrite \/ Generate \/ BeginWork
  BY <1>1, <1>2 DEF ConfigWrite, Generate, BeginWork
<1>3. CASE OpenStep \/ ReleaseStep
  BY <1>1, <1>3 DEF OpenStep, InitList, InitTimer, ReleaseStep, Flush, FreeRing,
                    StopTimer, CleanUp
<1>4. CASE Open \/ CallRelease
  BY <1>1, <1>4 DEF Open, CallRelease
<1>5. CASE AskToAdd \/ AddCode
  BY <1>5 DEF AskToAdd, AddCode, Told
<1>6. CASE EndWork
  BY <1>6, EndWorkTold
<1>7. ASSUME NEW r \in Readers, ReaderStep(r)
      PROVE  Told'
  <2>0. r \in Parties
    BY PartiesFinite
  <2>1. CASE CallRead(r) \/ InterruptList(r)
    <3>1. /\ sem_list' \in {Down(sem_list, r), Cancel(sem_list, r)} /\ ~Active(r)
          /\ sem_coderead' = sem_coderead /\ list' = list /\ work' = work
          /\ \A q \in Readers \ {r} : at'[q] = at[q]
      BY <1>0, <2>1 DEF CallRead, InterruptList, Active
    <3>2. /\ CallRead(r) => Granted(sem_list, r) /\ sem_list' = Down(sem_list, r)
          /\ InterruptList(r) => ~Granted(sem_list, r) /\ sem_list' = Cancel(sem_list, r)
      BY <2>0, PartiesFinite
         DEF CallRead, InterruptList, ListOK, Ledger, ListUsers, Granted
    <3>3. Waiting(sem_list') \subseteq Waiting(sem_list) \cup {r}
      <4>1. CASE CallRead(r)
        BY <2>0, <3>2, <4>1, CallerWaits
      <4>2. CASE InterruptList(r)
        BY <3>2, <4>2, CancelEffect DEF Granted, ListOK, Ledger
      <4> QED BY <2>1, <4>1, <4>2
    <3>4. \A q \in Readers : Active(q) => Active(q)'
      BY <3>1, <3>3, OthersStay
    <3> QED BY <3>1, <3>4, ToldStays
  <2>2. CASE FindEmpty(r) \/ Drain(r)
    <3>1. list' = <<>>
      BY <2>2 DEF FindEmpty, Drain
    <3> QED BY <3>1 DEF Told
  <2>3. CASE Relock(r)
    BY <2>3, RelockTold
  <2>4. CASE Sleep(r)
    BY <2>4, SleepTold
  <2>5. CASE Return(r)
    <3>1. /\ at[r] = "copy" /\ UNCHANGED <<sem_list, sem_coderead, list, work>>
          /\ \A q \in Readers \ {r} : at'[q] = at[q]
      BY <1>0, <2>5 DEF Return
    <3>2. \A q \in Readers : Active(q) => Active(q)'
      BY <3>1 DEF Active
    <3> QED BY <3>1, <3>2, ToldStays
  <2>6. CASE InterruptWait(r)
    <3>1. /\ r \in Waiting(sem_coderead) /\ sem_coderead' = Cancel(sem_coderead, r)
          /\ UNCHANGED <<sem_list, list, work>>
          /\ at[r] = "wait" /\ \A q \in Readers \ {r} : at'[q] = at[q]
      BY <1>0, <2>6 DEF InterruptWait, Granted
    <3>2. /\ sem_coderead'.count = sem_coderead.count
          /\ Waiting(sem_coderead') = Waiting(sem_coderead) \ {r}
      BY <3>1, CancelEffect DEF CodeReadOK
    <3>3. \A q \in Readers : Active(q) => Active(q)'
      BY <3>1, <3>2 DEF Active, Granted
    <3> QED BY <3>1, <3>2, <3>3 DEF Told
  <2> QED BY <1>7, <2>1, <2>2, <2>3, <2>4, <2>5, <2>6 DEF ReaderStep, ReadStep
<1> QED BY <1>2, <1>3, <1>4, <1>5, <1>6, <1>7 DEF Next, WorkStep, ReaderStep
-----------------------------------------------------------------------------
(* The invariant                                                           *)

LEMMA InitInv == Init => Inv
<1> SUFFICES ASSUME Init
             PROVE  Inv
  OBVIOUS
<1> USE CodeAssumption DEF Init
<1>1. Types
  <2>1. ring \in Seq(Formats) /\ list \in Seq(Formats) /\ hand \in Seq(Formats)
    BY EmptySeq
  <2>2. got \in [Readers -> Seq(Formats)]
    BY EmptySeq
  <2>3. used \in 0..size /\ size \in {1, CBUF_SIZE}
    OBVIOUS
  <2>4. at \in [Readers -> {"out", "list", "unlocked", "wait", "copy"}]
    OBVIOUS
  <2>5. awaited \in 0..2
    OBVIOUS
  <2> QED BY <2>1, <2>2, <2>3, <2>4, <2>5 DEF Types
<1>2. Hands /\ Releasing
  BY DEF Hands, Releasing
<1>3. ListOK
  <2>1. IsSemaphore(sem_list, Parties) /\ Waiting(sem_list) = {} /\ sem_list.count = 1
    BY NewSemaphoreIsOne
  <2>2. ListUsers = {}
    BY PartiesFinite DEF ListUsers, Parties
  <2>3. Units(sem_list, {}) = 1
    BY <2>1, FS_EmptySet DEF Units
  <2> QED BY <2>1, <2>2, <2>3 DEF ListOK, Ledger
<1>4. CodeReadOK
  BY NewSemaphoreIsOne DEF CodeReadOK
<1>5. Told
  BY DEF Told
<1> QED BY <1>1, <1>2, <1>3, <1>4, <1>5 DEF Inv

LEMMA NextInv == Inv /\ [Next]_vars => Inv'
<1> SUFFICES ASSUME Inv, [Next]_vars
             PROVE  Inv'
  OBVIOUS
<1>1. CASE UNCHANGED vars
  BY <1>1 DEF Inv, vars, handler, config, cbuffer, worker, reader, sems, Types, Hands,
              ListOK, ListUsers, Ledger, CodeReadOK, Told, Active, Releasing, Executions
<1>2. CASE Next
  BY <1>2, StepTypes, StepList, StepCodeRead, StepTold, StepReleasing DEF Inv
<1> QED BY <1>1, <1>2

(* Inv holds in every state the codetimer reaches. *)
THEOREM InvHolds == Spec => []Inv
<1> QED BY InitInv, NextInv, PTL DEF Spec
-----------------------------------------------------------------------------
(* The properties                                                          *)

(* Every variable keeps its type; the ring never holds more bytes than it has. *)
THEOREM TypeCorrect == Spec => []TypeOK
<1>1. Inv => TypeOK
  <2> SUFFICES ASSUME Inv
               PROVE  TypeOK
    OBVIOUS
  <2>1. CBUF_SIZE \in Nat /\ CBUF_SIZE > 1
    <3>1. code_format \in Nat \ {0} /\ code_format < CBUF_SIZE
      BY CodeAssumption DEF Inv, Types
    <3> QED BY <3>1, CodeAssumption
  <2>2. used \in Nat /\ Avail \in 0..CBUF_SIZE
    BY <2>1 DEF Inv, Types, Avail
  <2>3. IsSemaphore(sem_list, Readers \cup {Worker}) /\ IsSemaphore(sem_coderead, Readers)
    BY DEF Inv, ListOK, Ledger, CodeReadOK, Parties
  <2> QED BY <2>2, <2>3 DEF Inv, Types, TypeOK
<1> QED BY <1>1, InvHolds, PTL

(* No reader is left asleep beside codes it could read. *)
THEOREM Woken == Spec => []ReaderWoken
<1>1. Inv => ReaderWoken
  <2> SUFFICES ASSUME Inv, work = "idle",
                      \A r \in Readers : at[r] = "out" \/ Asleep(r),
                      NEW q \in Readers, Asleep(q)
               PROVE  list = <<>>
    BY DEF ReaderWoken
  <2>1. sem_coderead.count = 0
    <3>1. IsSemaphore(sem_coderead, Readers) /\ q \in Waiting(sem_coderead)
      BY DEF Inv, CodeReadOK, Asleep, Granted
    <3>2. sem_coderead.queue # <<>>
      BY <3>1 DEF Waiting
    <3> QED BY <3>1, <3>2 DEF IsSemaphore
  <2>2. \A r \in Readers : ~Active(r)
    BY DEF Asleep, Active
  <2> QED BY <2>1, <2>2 DEF Inv, Told
<1> QED BY <1>1, InvHolds, PTL

(* A release that the timer does not overtake leaves nothing behind. *)
THEOREM CleanRelease == Spec => []ReleaseClean
<1>1. Inv => ReleaseClean
  BY DEF Inv, Hands, Releasing, ReleaseClean
<1> QED BY <1>1, InvHolds, PTL
-----------------------------------------------------------------------------
(* The stream                                                              *)

\* The queue that the stream sees.
Codes == list \o hand \o ring

(* What is left of a queue made of two parts when one of them is thrown away. *)
LEMMA FrontOf ==
    ASSUME NEW S, NEW s \in Seq(S), NEW t \in Seq(S)
    PROVE  SubSeq(s \o t, 1, Len(s)) = s
<1>1. Len(s) \in Nat /\ Len(t) \in Nat
  BY LenProperties
<1>2. CASE Len(s) = 0
  BY <1>2, EmptySeq, SubSeqEmpty
<1>3. CASE Len(s) > 0
  <2>1. SubSeq(s \o t, 1, Len(s)) = SubSeq(s, 1, Len(s))
    BY <1>1, <1>3, SubSeqOfConcat1
  <2> QED BY <2>1, SubSeqFull
<1> QED BY <1>1, <1>2, <1>3

LEMMA BackOf ==
    ASSUME NEW S, NEW s \in Seq(S), NEW t \in Seq(S)
    PROVE  SubSeq(s \o t, Len(s) + 1, Len(s \o t)) = t
<1>1. Len(s) \in Nat /\ Len(t) \in Nat /\ Len(s \o t) = Len(s) + Len(t)
  BY LenProperties, ConcatProperties
<1>2. CASE Len(t) = 0
  BY <1>1, <1>2, EmptySeq, SubSeqEmpty
<1>3. CASE Len(t) > 0
  <2>1. SubSeq(s \o t, Len(s) + 1, Len(s) + Len(t))
          = SubSeq(t, Len(s) + 1 - Len(s), Len(s) + Len(t) - Len(s))
    BY <1>1, <1>3, SubSeqOfConcat2
  <2>2. Len(s) + 1 - Len(s) = 1 /\ Len(s) + Len(t) - Len(s) = Len(t)
    BY <1>1
  <2> QED BY <1>1, <2>1, <2>2, SubSeqFull
<1> QED BY <1>1, <1>2, <1>3

(* A code goes from the head of one part to the end of the part before it. *)
LEMMA HeadMoves ==
    ASSUME NEW S, NEW s \in Seq(S), NEW t \in Seq(S), t # <<>>
    PROVE  Append(s, Head(t)) \o Tail(t) = s \o t
<1>1. Head(t) \in S /\ Tail(t) \in Seq(S) /\ Append(s, Head(t)) \in Seq(S)
  BY HeadTailProperties, AppendProperties
<1>2. /\ Len(t) \in Nat /\ Len(s) \in Nat /\ Len(t) > 0 /\ Len(Tail(t)) = Len(t) - 1
      /\ \A i \in 1..(Len(t) - 1) : Tail(t)[i] = t[i + 1]
      /\ Len(Append(s, Head(t))) = Len(s) + 1
      /\ \A i \in 1..Len(s) : Append(s, Head(t))[i] = s[i]
      /\ Append(s, Head(t))[Len(s) + 1] = t[1]
  BY <1>1, LenProperties, EmptySeq, HeadTailProperties, AppendProperties
<1> DEFINE a == Append(s, Head(t))
           b == Tail(t)
<1>3. /\ a \o b \in Seq(S) /\ Len(a \o b) = Len(a) + Len(b)
      /\ \A i \in 1..(Len(a) + Len(b)) :
            (a \o b)[i] = IF i <= Len(a) THEN a[i] ELSE b[i - Len(a)]
  BY <1>1, ConcatProperties
<1>4. /\ s \o t \in Seq(S) /\ Len(s \o t) = Len(s) + Len(t)
      /\ \A i \in 1..(Len(s) + Len(t)) :
            (s \o t)[i] = IF i <= Len(s) THEN s[i] ELSE t[i - Len(s)]
  BY ConcatProperties
<1>5. Len(a \o b) = Len(s \o t)
  BY <1>2, <1>3, <1>4
<1>6. ASSUME NEW i \in 1..Len(a \o b)
      PROVE  (a \o b)[i] = (s \o t)[i]
  <2> HIDE DEF a, b
  <2>1. i \in 1..(Len(s) + Len(t)) /\ i \in 1..(Len(a) + Len(b)) /\ Len(a) = Len(s) + 1
    BY <1>2, <1>3, <1>4, <1>5 DEF a, b
  <2>2. CASE i <= Len(s)
    BY <1>2, <1>3, <1>4, <2>1, <2>2 DEF a
  <2>3. CASE i = Len(s) + 1
    BY <1>2, <1>3, <1>4, <2>1, <2>3 DEF a
  <2>4. CASE i > Len(s) + 1
    <3>1. i - Len(a) \in 1..(Len(t) - 1) /\ (i - Len(a)) + 1 = i - Len(s)
      BY <1>2, <2>1, <2>4
    <3>2. b[i - Len(a)] = t[i - Len(s)]
      BY <1>2, <3>1 DEF b
    <3> QED BY <1>2, <1>3, <1>4, <2>1, <2>4, <3>2
  <2> QED BY <1>2, <2>1, <2>2, <2>3, <2>4
<1> QED BY <1>3, <1>4, <1>5, <1>6, SeqEqual

(* The two ways to see the queue in two parts. *)
LEMMA CodesType ==
    ASSUME Types
    PROVE  /\ list \o hand \in Seq(Formats) /\ hand \o ring \in Seq(Formats)
           /\ Codes \in Seq(Formats)
           /\ Codes = list \o (hand \o ring)
<1>1. list \o hand \in Seq(Formats) /\ hand \o ring \in Seq(Formats)
  BY ConcatProperties DEF Types
<1> QED BY <1>1, ConcatProperties, ConcatAssociative DEF Types, Codes

(* The ring is lost. *)
LEMMA RingLost ==
    ASSUME Types, ring' = <<>>, UNCHANGED <<list, hand, got>>
    PROVE  Stream!Lose
<1> DEFINE s == list \o hand
<1>1. s \in Seq(Formats) /\ ring \in Seq(Formats) /\ Codes = s \o ring
  BY CodesType DEF Types, Codes
<1>2. Codes' = s
  BY <1>1, ConcatEmptySeq DEF Codes
<1>3. Codes' = SubSeq(Codes, 1, Len(s))
  BY <1>1, <1>2, FrontOf
<1>4. Len(s) \in 0..Len(Codes) /\ 1 \in 1..(Len(Codes) + 1)
  BY <1>1, ConcatProperties, LenProperties
<1> QED BY <1>3, <1>4 DEF Stream!Lose, Codes

(* The list is lost. *)
LEMMA ListLost ==
    ASSUME Types, list' = <<>>, UNCHANGED <<ring, hand, got>>
    PROVE  Stream!Lose
<1> DEFINE t == hand \o ring
<1>1. t \in Seq(Formats) /\ list \in Seq(Formats) /\ Codes = list \o t
  BY CodesType DEF Types
<1>2. Codes' = t
  BY <1>1, ConcatEmptySeq DEF Codes, Types
<1>3. Codes' = SubSeq(Codes, Len(list) + 1, Len(Codes))
  BY <1>1, <1>2, BackOf
<1>4. Len(list) + 1 \in 1..(Len(Codes) + 1) /\ Len(Codes) \in 0..Len(Codes)
  BY <1>1, ConcatProperties, LenProperties
<1> QED BY <1>3, <1>4 DEF Stream!Lose, Codes

(* A reader takes the whole list. *)
LEMMA DrainTakes ==
    ASSUME Types, Hands, NEW r \in Readers, Drain(r)
    PROVE  Stream!Take(r)
<1> DEFINE t == hand \o ring
<1>1. t \in Seq(Formats) /\ list \in Seq(Formats) /\ Codes = list \o t
  BY CodesType DEF Types
<1>2. /\ got[r] = <<>> /\ got' = [got EXCEPT ![r] = list] /\ list # <<>>
      /\ list' = <<>> /\ UNCHANGED <<hand, ring>>
  BY DEF Drain, OwnsList, Hands, cbuffer, worker
<1>3. Codes' = t
  BY <1>1, <1>2, ConcatEmptySeq DEF Codes, Types
<1>4. /\ list = SubSeq(Codes, 1, Len(list))
      /\ Codes' = SubSeq(Codes, Len(list) + 1, Len(Codes))
  BY <1>1, <1>3, FrontOf, BackOf
<1>5. Len(list) \in 1..Len(Codes)
  <2>1. /\ Len(list) \in Nat \ {0} /\ Len(t) \in Nat
        /\ Len(Codes) = Len(list) + Len(t)
    BY <1>1, <1>2, EmptySeq, LenProperties, ConcatProperties
  <2> HIDE DEF t
  <2> QED BY <2>1
<1> QED BY <1>2, <1>4, <1>5 DEF Stream!Take, Codes

(* Every step of the code is a step of the stream, or changes nothing in it. *)
LEMMA StepStream ==
    ASSUME Types, Hands, Next
    PROVE  Stream!Next \/ UNCHANGED <<Codes, got>>
<1> USE DEF handler, config, cbuffer, worker, reader, sems
<1>1. CASE UNCHANGED <<list, hand, ring, got>>
  BY <1>1 DEF Codes
<1>2. CASE ConfigWrite \/ AskToAdd \/ EndWork \/ InitTimer \/ CallRelease \/ Flush
           \/ StopTimer
  BY <1>1, <1>2 DEF ConfigWrite, AskToAdd, EndWork, InitTimer, CallRelease, Flush,
                    StopTimer
<1>3. CASE Generate
  <2>1. CASE Fits
    <3>1. /\ ring' = Append(ring, code_format) /\ UNCHANGED <<list, hand, got>>
          /\ code_format \in Formats
      BY <1>3, <2>1 DEF Generate, Filled, Types
    <3>2. Codes' = Append(Codes, code_format)
      BY <3>1, CodesType, LastOfLast DEF Codes, Types
    <3>3. Stream!Put(code_format)
      BY <3>1, <3>2 DEF Stream!Put, Codes
    <3> QED BY <3>1, <3>3 DEF Stream!Next
  <2>2. CASE ~Fits
    BY <1>1, <1>3, <2>2 DEF Generate, Filled
  <2> QED BY <2>1, <2>2
<1>4. CASE BeginWork
  <2>1. /\ hand = <<>> /\ hand' = ring /\ ring' = <<>> /\ UNCHANGED <<list, got>>
    BY <1>4 DEF BeginWork, Hands
  <2>2. Codes = list \o ring /\ Codes' = list \o ring
    <3>1. list \in Seq(Formats) /\ ring \in Seq(Formats) /\ list \o ring \in Seq(Formats)
      BY ConcatProperties DEF Types
    <3>2. list \o <<>> = list /\ (list \o ring) \o <<>> = list \o ring
      BY <3>1, ConcatEmptySeq
    <3> QED BY <2>1, <3>2 DEF Codes
  <2> QED BY <2>1, <2>2
<1>5. CASE AddCode
  <2>1. /\ hand # <<>> /\ list' = Append(list, Head(hand)) /\ hand' = Tail(hand)
        /\ UNCHANGED <<ring, got>>
    BY <1>5 DEF AddCode, Hands
  <2>2. Append(list, Head(hand)) \o Tail(hand) = list \o hand
    BY <2>1, HeadMoves DEF Types
  <2>3. Codes' = Codes
    BY <2>1, <2>2 DEF Codes
  <2> QED BY <2>1, <2>3
<1>6. CASE Open \/ FreeRing
  <2>1. ring' = <<>> /\ UNCHANGED <<list, hand, got>>
    BY <1>6 DEF Open, FreeRing
  <2> QED BY <2>1, RingLost DEF Stream!Next
<1>7. CASE InitList \/ CleanUp
  <2>1. list' = <<>> /\ UNCHANGED <<ring, hand, got>>
    BY <1>7 DEF InitList, CleanUp
  <2> QED BY <2>1, ListLost DEF Stream!Next
<1>8. ASSUME NEW r \in Readers, ReaderStep(r)
      PROVE  Stream!Next \/ UNCHANGED <<Codes, got>>
  <2>1. CASE Drain(r)
    BY <2>1, DrainTakes DEF Stream!Next
  <2>2. CASE Return(r)
    <3>1. UNCHANGED <<list, hand, ring>> /\ got' = [got EXCEPT ![r] = <<>>]
      BY <2>2 DEF Return
    <3>2. Stream!Return(r)
      BY <3>1 DEF Stream!Return
    <3> QED BY <3>2 DEF Stream!Next
  <2>3. CASE CallRead(r) \/ FindEmpty(r) \/ Sleep(r) \/ Relock(r) \/ InterruptList(r)
             \/ InterruptWait(r)
    BY <1>1, <2>3 DEF CallRead, FindEmpty, Sleep, Relock, InterruptList, InterruptWait
  <2> QED BY <1>8, <2>1, <2>2, <2>3 DEF ReaderStep, ReadStep
<1> QED BY <1>2, <1>3, <1>4, <1>5, <1>6, <1>7, <1>8
        DEF Next, WorkStep, OpenStep, ReleaseStep, ReaderStep

(* The codetimer implements the stream: codes reach the readers in the order of
   their generation and each at most once. *)
THEOREM IsStream == Spec => ImplementsStream
<1>1. Init => Stream!Init
  <2> SUFFICES ASSUME Init
               PROVE  Stream!Init
    OBVIOUS
  <2>1. <<>> \o <<>> \o <<>> = <<>>
    BY EmptySeq, ConcatEmptySeq
  <2> QED BY <2>1 DEF Init, Stream!Init
<1>2. Inv /\ [Next]_vars => [Stream!Next]_(Stream!vars)
  <2> SUFFICES ASSUME Inv, [Next]_vars
               PROVE  Stream!Next \/ UNCHANGED <<Codes, got>>
    BY DEF Stream!vars, Codes
  <2>1. CASE UNCHANGED vars
    BY <2>1 DEF vars, cbuffer, worker, reader, Codes
  <2>2. CASE Next
    BY <2>2, StepStream DEF Inv
  <2> QED BY <2>1, <2>2
<1> QED BY <1>1, <1>2, InvHolds, PTL DEF Spec, ImplementsStream, Stream!Spec
-----------------------------------------------------------------------------
(* Two readers                                                             *)

CONSTANTS Procs, Lengths, AllocFails, Signals, NumWrap, MaxReaders
VARIABLES num_readers, even_odd, sem_num, sem_reader, loaded, private, robbed

\* The optional codetimer; what both have under one name is shared.
Opt == INSTANCE CodeTimerOpt

(* Its semaphores are the semaphores above. *)
LEMMA SameSemaphores ==
    /\ \A s, p : Opt!Down(s, p) = Down(s, p)
    /\ \A s : Opt!Up(s) = Up(s)
    /\ \A s, p : Opt!Cancel(s, p) = Cancel(s, p)
    /\ \A s, p : Opt!Granted(s, p) <=> Granted(s, p)
    /\ \A s, P : Opt!IsSemaphore(s, P) <=> IsSemaphore(s, P)
    /\ \A n : Opt!NewSemaphore(n) = NewSemaphore(n)
BY DEF Opt!Down, Down, Opt!Up, Up, Opt!Cancel, Cancel, Opt!Place, Place, Opt!Granted, Granted,
   Opt!Waiting, Waiting, Opt!IsSemaphore, IsSemaphore, Opt!NewSemaphore, NewSemaphore

Places ==
    {"opened", "list", "unlocked", "wait", "copy",
     "out", "num", "count", "alloc", "first", "check", "queue", "recheck",
     "arm", "dead", "assign", "bump", "undo", "uncount",
     "leave", "leaving", "flush", "stop", "left"}

OptTypes ==
    /\ at \in [Procs -> Places]
    /\ num_readers \in 0..(NumWrap - 1) /\ even_odd \in 0..2
    /\ loaded \in [Procs -> 0..(NumWrap - 1)] /\ private \in [Procs -> 0..2]
    /\ timer \in {"idle", "armed", "hidden"} /\ size \in {1, CBUF_SIZE}
    /\ ring \in Seq(Lengths) /\ hand \in Seq(Lengths)
    /\ queued \in BOOLEAN /\ work \in {"idle", "adding", "list"}
    /\ awaited \in [Procs -> 0..2]
    /\ list \in [0..1 -> Seq(Lengths)] /\ got \in [Procs -> Seq(Lengths)]
    /\ robbed \subseteq 0..1

\* What the work item and the readers have in hand, and when.
OptHands ==
    /\ work = "idle" => hand = <<>>
    /\ work = "list" => hand # <<>>
    /\ \A p \in Procs : at[p] # "copy" => got[p] = <<>>

\* Each list has codes of its parity.
ListParity == \A i \in 0..1 : \A n \in 1..Len(list[i]) : list[i][n] % 2 = i

\* Only processes of W wait on sem.
Queued(sem, P, W) == IsSemaphore(sem, P) /\ Waiting(sem) \subseteq W

AskedNum == {p \in Procs : at[p] \in {"num", "recheck", "undo", "leave"}}
AskedReader == {p \in Procs : at[p] \in {"first", "queue"}}
AskedCode == {p \in Procs : at[p] = "wait"}

NumQueue == Queued(sem_num, Procs, AskedNum)
ReaderQueue == Queued(sem_reader, Procs, AskedReader)
CodeQueue == Queued(sem_coderead, Procs, AskedCode)

\* p will reach list i, or has a unit of sem_coderead and is not back yet.
Knows(p, i) ==
    \/ at[p] = "list" /\ Opt!Mine(p) = i
    \/ at[p] = "wait" /\ Granted(sem_coderead, p)

\* Once the work item has told of the codes in a list, somebody knows, unless
\* the list was robbed of what stood for them.
ToldOrRobbed ==
    work = "idle" => \A i \in 0..1 :
        list[i] # <<>> /\ i \notin robbed =>
            sem_coderead.count > 0 \/ \E p \in Procs : Knows(p, i)

\* The inductive invariant of the optional codetimer.
OptInv ==
    /\ OptTypes
    /\ OptHands
    /\ ListParity
    /\ NumQueue
    /\ ReaderQueue
    /\ CodeQueue
    /\ ToldOrRobbed

\* The steps of a process.
OptCall(p) ==
    \/ Opt!CallOpen(p) \/ Opt!OpenStep(p) \/ Opt!InterruptNum(p) \/ Opt!InterruptReader(p)
    \/ Opt!CallRead(p) \/ Opt!ReadStep(p) \/ Opt!InterruptRead(p)
    \/ Opt!CallRelease(p) \/ Opt!ReleaseStep(p)

(* What the assumption on the constants says of them. *)
LEMMA OptConstants ==
    ASSUME Opt!CodeOptAssumption
    PROVE  /\ Worker \notin Procs
           /\ Lengths \subseteq Nat \ {0} /\ CBUF_SIZE \in Nat
           /\ NumWrap \in Nat \ {0}
<1>1. NumWrap \in Nat /\ MaxReaders \in Nat /\ MaxReaders + 1 < NumWrap
  BY DEF Opt!CodeOptAssumption
<1>2. NumWrap \in Nat \ {0}
  BY <1>1
<1>3. Worker \notin Procs
  BY DEF Opt!CodeOptAssumption, Opt!Worker, Worker
<1> QED BY <1>2, <1>3 DEF Opt!CodeOptAssumption

(* A counter below NumWrap stays there when it wraps. *)
LEMMA Wraps ==
    ASSUME NEW W \in Nat \ {0}, NEW n \in Int
    PROVE  n % W \in 0..(W - 1)
  OBVIOUS

LEMMA ParityIs ==
    ASSUME Opt!CodeOptAssumption, NEW c \in Lengths
    PROVE  c % 2 \in 0..1
<1>1. c \in Int
  BY OptConstants
<1> QED BY <1>1

(* Steps that are not a process's keep the types. *)
LEMMA OptTypesTimer ==
    ASSUME Opt!CodeOptAssumption, OptTypes, OptHands,
           Opt!WorkStep \/ \E l \in Lengths, t \in Thresholds : Opt!Generate(l, t)
    PROVE  OptTypes' /\ OptHands'
<1> USE OptConstants DEF OptTypes, OptHands, Opt!entry, Opt!buffer, Opt!worker, Opt!lists
<1>1. CASE \E l \in Lengths, t \in Thresholds : Opt!Generate(l, t)
  <2>1. PICK l \in Lengths, t \in Thresholds : Opt!Generate(l, t)
    BY <1>1
  <2>2. Opt!Filled(l) \in Seq(Lengths)
    BY AppendProperties DEF Opt!Filled
  <2>3. ring' \in Seq(Lengths) /\ timer' = "armed" /\ queued' \in BOOLEAN
    BY <2>1, <2>2 DEF Opt!Generate
  <2> QED BY <2>1, <2>3 DEF Opt!Generate
<1>2. CASE Opt!BeginWork
  <2>1. ring' \in Seq(Lengths)
    BY <1>2, EmptySeq DEF Opt!BeginWork
  <2> QED BY <1>2, <2>1 DEF Opt!BeginWork
<1>3. CASE Opt!AskToAdd
  BY <1>3 DEF Opt!AskToAdd
<1>4. CASE Opt!AddCode
  <2>1. /\ Head(hand) \in Lengths /\ Tail(hand) \in Seq(Lengths)
    BY <1>4, HeadTailProperties DEF Opt!AddCode
  <2>2. Head(hand) % 2 \in 0..1
    BY <2>1, ParityIs
  <2>3. Append(list[Head(hand) % 2], Head(hand)) \in Seq(Lengths)
    BY <2>1, <2>2, AppendProperties
  <2>4. list' \in [0..1 -> Seq(Lengths)] /\ hand' \in Seq(Lengths)
    BY <1>4, <2>1, <2>2, <2>3 DEF Opt!AddCode
  <2> QED BY <1>4, <2>4 DEF Opt!AddCode
<1>5. CASE Opt!EndWork
  <2>1. awaited' \in [Procs -> 0..2]
    BY <1>5 DEF Opt!EndWork
  <2> QED BY <1>5, <2>1 DEF Opt!EndWork
<1> QED BY <1>1, <1>2, <1>3, <1>4, <1>5 DEF Opt!WorkStep

(* The steps of open keep the types. *)
LEMMA OptTypesOpen ==
    ASSUME Opt!CodeOptAssumption, OptTypes, OptHands, NEW p \in Procs,
           Opt!CallOpen(p) \/ Opt!OpenStep(p) \/ Opt!InterruptNum(p) \/ Opt!InterruptReader(p)
    PROVE  OptTypes' /\ OptHands'
<1> USE OptConstants DEF OptTypes, OptHands, Places, Opt!Goto, Opt!entry, Opt!buffer,
            Opt!worker, Opt!lists
<1>1. CASE Opt!CallOpen(p)
  BY <1>1 DEF Opt!CallOpen
<1>2. CASE Opt!LoadNum(p)
  BY <1>2 DEF Opt!LoadNum
<1>3. CASE Opt!Count(p)
  <2>1. num_readers' \in 0..(NumWrap - 1)
    <3>1. loaded[p] + 1 \in Int /\ num_readers' = (loaded[p] + 1) % NumWrap
      BY <1>3 DEF Opt!Count
    <3> QED BY <3>1, Wraps
  <2>2. 0 \in 0..(NumWrap - 1)
    OBVIOUS
  <2>3. /\ at[p] = "count" /\ \E place \in Places : at' = [at EXCEPT ![p] = place] /\ place # "copy"
        /\ loaded' = [loaded EXCEPT ![p] = 0]
        /\ UNCHANGED <<even_odd, private, timer, size, ring, queued, work, hand, awaited,
                       list, got, robbed>>
    BY <1>3 DEF Opt!Count
  <2> QED BY <2>1, <2>2, <2>3
<1>4. CASE Opt!FailToAlloc(p)
  BY <1>4, EmptySeq DEF Opt!FailToAlloc
<1>5. CASE Opt!Alloc(p)
  BY <1>5, EmptySeq DEF Opt!Alloc
<1>6. CASE Opt!Check(p)
  BY <1>6 DEF Opt!Check
<1>7. CASE Opt!Recheck(p)
  BY <1>7 DEF Opt!Recheck
<1>8. CASE Opt!Arm(p)
  BY <1>8 DEF Opt!Arm
<1>9. CASE Opt!Assign(p)
  BY <1>9 DEF Opt!Assign
<1>10. CASE Opt!Bump(p)
  <2>1. even_odd' \in 0..2
    <3>1. PICK n \in {private[p], even_odd} : even_odd' = Opt!AtMost2(n + 1)
      BY <1>10 DEF Opt!Bump
    <3>2. private[p] \in 0..2 /\ even_odd \in 0..2
      OBVIOUS
    <3>3. n \in 0..2
      BY <3>1, <3>2
    <3> QED BY <3>1, <3>3 DEF Opt!AtMost2
  <2> QED BY <1>10, <2>1 DEF Opt!Bump
<1>11. CASE Opt!Undo(p)
  <2>1. num_readers' \in 0..(NumWrap - 1)
    <3>1. loaded[p] - 1 \in Int /\ num_readers' = (loaded[p] - 1) % NumWrap
      BY <1>11 DEF Opt!Undo, Opt!OneLess
    <3> QED BY <3>1, Wraps
  <2>2. 0 \in 0..(NumWrap - 1)
    OBVIOUS
  <2> QED BY <1>11, <2>1, <2>2 DEF Opt!Undo
<1>12. CASE Opt!InterruptNum(p)
  BY <1>12 DEF Opt!InterruptNum
<1>13. CASE Opt!InterruptReader(p)
  BY <1>13 DEF Opt!InterruptReader
<1> QED BY <1>1, <1>2, <1>3, <1>4, <1>5, <1>6, <1>7, <1>8, <1>9, <1>10, <1>11, <1>12, <1>13
        DEF Opt!OpenStep

(* The steps of read and release keep the types. *)
LEMMA OptTypesRead ==
    ASSUME Opt!CodeOptAssumption, OptTypes, OptHands, NEW p \in Procs,
           \/ Opt!CallRead(p) \/ Opt!ReadStep(p) \/ Opt!InterruptRead(p)
           \/ Opt!CallRelease(p) \/ Opt!ReleaseStep(p)
    PROVE  OptTypes' /\ OptHands'
<1> USE OptConstants DEF OptTypes, OptHands, Places, Opt!Goto, Opt!entry, Opt!buffer,
            Opt!worker, Opt!lists
<1>0. Opt!Mine(p) \in 0..1 /\ \A i \in 0..1 : Opt!Listed(i) \subseteq 0..1
  BY DEF Opt!Mine, Opt!Listed
<1>1. CASE Opt!CallRead(p) \/ Opt!FindEmpty(p) \/ Opt!Sleep(p) \/ Opt!CallRelease(p)
  <2>1. CASE Opt!CallRead(p)
    BY <2>1 DEF Opt!CallRead
  <2>2. CASE Opt!FindEmpty(p)
    BY <2>2 DEF Opt!FindEmpty, Opt!OwnsList
  <2>3. CASE Opt!Sleep(p)
    BY <2>3 DEF Opt!Sleep
  <2>4. CASE Opt!CallRelease(p)
    BY <2>4 DEF Opt!CallRelease
  <2> QED BY <1>1, <2>1, <2>2, <2>3, <2>4
<1>2. CASE Opt!Relock(p)
  <2>1. 1 - Opt!Mine(p) \in 0..1
    BY <1>0
  <2>2. robbed' \subseteq 0..1
    BY <1>0, <1>2, <2>1 DEF Opt!Relock
  <2> QED BY <1>2, <2>2 DEF Opt!Relock
<1>3. CASE Opt!Drain(p)
  <2>1. list' \in [0..1 -> Seq(Lengths)] /\ got' \in [Procs -> Seq(Lengths)]
    BY <1>0, <1>3, EmptySeq DEF Opt!Drain
  <2>2. \A q \in Procs : at'[q] # "copy" => got'[q] = <<>>
    BY <1>3 DEF Opt!Drain
  <2> QED BY <1>3, <2>1, <2>2 DEF Opt!Drain
<1>4. CASE Opt!Return(p)
  <2>1. got' \in [Procs -> Seq(Lengths)]
    BY <1>4, EmptySeq DEF Opt!Return
  <2> QED BY <1>4, <2>1 DEF Opt!Return
<1>5. CASE Opt!InterruptRead(p)
  <2>1. robbed' \subseteq 0..1
    BY <1>0, <1>5 DEF Opt!InterruptRead
  <2> QED BY <1>5, <2>1 DEF Opt!InterruptRead
<1>6. CASE Opt!Uncount(p)
  <2>1. num_readers' \in 0..(NumWrap - 1)
    <3>1. loaded[p] - 1 \in Int /\ num_readers' = (loaded[p] - 1) % NumWrap
      BY <1>6 DEF Opt!Uncount, Opt!OneLess
    <3> QED BY <3>1, Wraps
  <2>2. 0 \in 0..(NumWrap - 1) /\ Opt!Executions \in 0..2
    BY DEF Opt!Executions
  <2>4. even_odd' \in 0..2
    BY <1>6 DEF Opt!Uncount, Opt!Mine
  <2>3. /\ \E place \in Places : at' = [at EXCEPT ![p] = place] /\ place # "copy"
        /\ at[p] = "leaving" /\ loaded' = [loaded EXCEPT ![p] = 0]
        /\ awaited' = [awaited EXCEPT ![p] = IF num_readers' = 0 THEN Opt!Executions ELSE 0]
        /\ UNCHANGED <<private, timer, size, ring, queued, work, hand, list, got, robbed>>
    <3>1. CASE num_readers' = 0
      BY <1>6, <3>1 DEF Opt!Uncount
    <3>2. CASE num_readers' = 1
      BY <1>6, <3>2 DEF Opt!Uncount
    <3>3. CASE num_readers' # 0 /\ num_readers' # 1
      BY <1>6, <3>3 DEF Opt!Uncount
    <3> QED BY <3>1, <3>2, <3>3
  <2>5. awaited' \in [Procs -> 0..2]
    <3> HIDE DEF Opt!Executions
    <3> QED BY <2>2, <2>3
  <2> QED BY <2>1, <2>2, <2>3, <2>4, <2>5
<1>7. CASE Opt!StopTimer(p)
  BY <1>7 DEF Opt!StopTimer
<1>8. CASE Opt!FreeAll(p)
  BY <1>8, EmptySeq DEF Opt!FreeAll
<1>9. CASE Opt!Leave(p)
  BY <1>9 DEF Opt!Leave
<1> QED BY <1>1, <1>2, <1>3, <1>4, <1>5, <1>6, <1>7, <1>8, <1>9
        DEF Opt!ReadStep, Opt!ReleaseStep

LEMMA StepOptTypes ==
    ASSUME Opt!CodeOptAssumption, OptTypes, OptHands, Opt!Next
    PROVE  OptTypes' /\ OptHands'
  BY OptTypesTimer, OptTypesOpen, OptTypesRead DEF Opt!Next

(* down() puts at most the caller in the queue. *)
LEMMA QueuedDown ==
    ASSUME NEW P, NEW p \in P, NEW sem, NEW W, NEW V,
           Queued(sem, P, W), p \notin W, W \cup {p} \subseteq V
    PROVE  /\ Queued(Down(sem, p), P, V)
           /\ sem.count \in Nat
           /\ sem.count > 0 => Waiting(Down(sem, p)) = Waiting(sem)
           /\ sem.count = 0 => /\ Down(sem, p).count = 0
                               /\ Waiting(Down(sem, p)) = Waiting(sem) \cup {p}
<1>1. IsSemaphore(sem, P) /\ Granted(sem, p) /\ sem.count \in Nat
  BY DEF Queued, Granted, IsSemaphore
<1> QED BY <1>1, DownEffect DEF Queued

(* up() lets a waiter go or leaves a unit in the count, and queues nobody. *)
LEMMA QueuedUp ==
    ASSUME NEW P, NEW sem, NEW W, NEW V, Queued(sem, P, W), W \subseteq V
    PROVE  /\ Queued(Up(sem), P, V)
           /\ Waiting(Up(sem)) \subseteq Waiting(sem)
           /\ Up(sem).count > 0 \/ \E h \in Waiting(sem) : Granted(Up(sem), h)
<1>1. IsSemaphore(sem, P) /\ sem.count \in Nat
  BY DEF Queued, IsSemaphore
<1>2. CASE Waiting(sem) = {}
  BY <1>1, <1>2, UpEffect DEF Queued
<1>3. CASE Waiting(sem) # {}
  <2>1. PICK h \in Waiting(sem) : Waiting(Up(sem)) = Waiting(sem) \ {h}
    BY <1>1, <1>3, UpEffect
  <2>2. Granted(Up(sem), h) /\ Waiting(Up(sem)) \subseteq Waiting(sem)
    BY <2>1 DEF Granted
  <2> QED BY <1>1, <2>2, UpEffect DEF Queued
<1> QED BY <1>2, <1>3

(* A signal takes one out of the queue. *)
LEMMA QueuedCancel ==
    ASSUME NEW P, NEW sem, NEW p, NEW W, NEW V,
           Queued(sem, P, W), ~Granted(sem, p), W \ {p} \subseteq V
    PROVE  /\ Queued(Cancel(sem, p), P, V)
           /\ Cancel(sem, p).count = sem.count
           /\ Waiting(Cancel(sem, p)) = Waiting(sem) \ {p}
  BY CancelEffect DEF Queued, Granted

(* Whoever has its unit leaves those who asked without a trace in the queue. *)
LEMMA QueuedGone ==
    ASSUME NEW P, NEW sem, NEW p, NEW W, NEW V,
           Queued(sem, P, W), p \notin W \/ Granted(sem, p), W \ {p} \subseteq V
    PROVE  Queued(sem, P, V)
  BY DEF Queued, Granted

\* What a step of p may make of a semaphore, seen from those who asked for it:
\* sem and W before the step, t and V after it.
Asks(sem, t, p, W, V) == t = Down(sem, p) /\ p \notin W /\ p \in V
Gives(sem, t, p, W, V) == t = Up(sem) /\ (p \notin W \/ Granted(sem, p)) /\ p \notin V
GivesUp(sem, t, p, W, V) == t = Cancel(sem, p) /\ ~Granted(sem, p) /\ p \notin V
Passes(sem, t, p, W, V) == t = sem /\ (p \notin W \/ Granted(sem, p)) /\ p \notin V

Uses(sem, t, p, W, V) ==
    \/ Asks(sem, t, p, W, V)
    \/ Gives(sem, t, p, W, V)
    \/ GivesUp(sem, t, p, W, V)
    \/ Passes(sem, t, p, W, V)

(* Whatever it does, only those who asked wait. *)
LEMMA StaysQueued ==
    ASSUME NEW P, NEW p \in P, NEW sem, NEW t, NEW W, NEW V,
           Queued(sem, P, W), W \ {p} = V \ {p}, Uses(sem, t, p, W, V)
    PROVE  Queued(t, P, V)
<1>1. CASE Asks(sem, t, p, W, V)
  <2>1. t = Down(sem, p) /\ p \notin W /\ W \cup {p} \subseteq V
    BY <1>1 DEF Asks
  <2> QED BY <2>1, QueuedDown
<1>2. CASE Gives(sem, t, p, W, V)
  <2>1. t = Up(sem) /\ Queued(sem, P, V)
    BY <1>2, QueuedGone DEF Gives
  <2> QED BY <2>1, QueuedUp
<1>3. CASE GivesUp(sem, t, p, W, V)
  BY <1>3, QueuedCancel DEF GivesUp
<1>4. CASE Passes(sem, t, p, W, V)
  BY <1>4, QueuedGone DEF Passes
<1> QED BY <1>1, <1>2, <1>3, <1>4 DEF Uses

(* A step of one process leaves the others where they are. *)
LEMMA OthersAt ==
    ASSUME OptTypes, NEW p \in Procs, OptCall(p)
    PROVE  \E place \in Places : at' = [at EXCEPT ![p] = place]
<1> USE DEF OptTypes, Places, Opt!Goto
<1>1. CASE Opt!CallOpen(p) \/ Opt!InterruptNum(p) \/ Opt!InterruptReader(p)
  BY <1>1 DEF Opt!CallOpen, Opt!InterruptNum, Opt!InterruptReader
<1>2. CASE Opt!OpenStep(p)
  BY <1>2 DEF Opt!OpenStep, Opt!LoadNum, Opt!Count, Opt!FailToAlloc, Opt!Alloc, Opt!Check,
              Opt!Recheck, Opt!Arm, Opt!Assign, Opt!Bump, Opt!Undo
<1>3. CASE Opt!CallRead(p) \/ Opt!ReadStep(p) \/ Opt!InterruptRead(p) \/ Opt!CallRelease(p)
  BY <1>3 DEF Opt!CallRead, Opt!ReadStep, Opt!InterruptRead, Opt!CallRelease, Opt!FindEmpty,
              Opt!Sleep, Opt!Relock, Opt!Drain, Opt!Return
<1>4. CASE Opt!StopTimer(p) \/ Opt!FreeAll(p) \/ Opt!Leave(p)
  BY <1>4 DEF Opt!StopTimer, Opt!FreeAll, Opt!Leave
<1>5. CASE Opt!Uncount(p)
  <2>1. CASE num_readers' = 0
    BY <1>5, <2>1 DEF Opt!Uncount
  <2>2. CASE num_readers' = 1
    BY <1>5, <2>2 DEF Opt!Uncount
  <2>3. CASE num_readers' # 0 /\ num_readers' # 1
    BY <1>5, <2>3 DEF Opt!Uncount
  <2> QED BY <2>1, <2>2, <2>3
<1> QED BY <1>1, <1>2, <1>3, <1>4, <1>5 DEF OptCall, Opt!ReleaseStep

(* What each step does to sem_num. *)
LEMMA NumSteps ==
    ASSUME OptTypes, NEW p \in Procs, OptCall(p)
    PROVE  Uses(sem_num, sem_num', p, AskedNum, AskedNum')
<1> USE SameSemaphores DEF OptTypes, Opt!Goto, AskedNum, Uses, Opt!entry
<1>1. CASE \/ Opt!CallOpen(p) \/ Opt!Recheck(p) \/ Opt!InterruptReader(p)
           \/ Opt!CallRelease(p)
  <2>1. Asks(sem_num, sem_num', p, AskedNum, AskedNum')
    BY <1>1 DEF Asks, Opt!CallOpen, Opt!Recheck, Opt!InterruptReader, Opt!CallRelease
  <2> QED BY <2>1
<1>2. CASE Opt!Alloc(p) \/ Opt!Bump(p) \/ Opt!Undo(p) \/ Opt!Leave(p)
  <2>1. Gives(sem_num, sem_num', p, AskedNum, AskedNum')
    BY <1>2 DEF Gives, Opt!Alloc, Opt!Bump, Opt!Undo, Opt!Leave
  <2> QED BY <2>1
<1>3. CASE Opt!Check(p)
  <2>1. CASE num_readers = 2
    <3>1. Passes(sem_num, sem_num', p, AskedNum, AskedNum')
      BY <1>3, <2>1 DEF Passes, Opt!Check
    <3> QED BY <3>1
  <2>2. CASE num_readers # 2
    <3>1. Gives(sem_num, sem_num', p, AskedNum, AskedNum')
      BY <1>3, <2>2 DEF Gives, Opt!Check
    <3> QED BY <3>1
  <2> QED BY <2>1, <2>2
<1>4. CASE Opt!InterruptNum(p)
  <2>1. GivesUp(sem_num, sem_num', p, AskedNum, AskedNum')
    BY <1>4 DEF GivesUp, Opt!InterruptNum
  <2> QED BY <2>1
<1>5. CASE Opt!LoadNum(p) \/ Opt!Count(p) \/ Opt!FailToAlloc(p) \/ Opt!Arm(p) \/ Opt!Assign(p)
  <2>1. Passes(sem_num, sem_num', p, AskedNum, AskedNum')
    BY <1>5 DEF Passes, Opt!LoadNum, Opt!Count, Opt!FailToAlloc, Opt!Arm, Opt!Assign
  <2> QED BY <2>1
<1>6. CASE Opt!CallRead(p) \/ Opt!ReadStep(p) \/ Opt!InterruptRead(p)
  <2>1. Passes(sem_num, sem_num', p, AskedNum, AskedNum')
    BY <1>6 DEF Passes, Opt!CallRead, Opt!ReadStep, Opt!InterruptRead, Opt!FindEmpty,
                Opt!OwnsList, Opt!Sleep, Opt!Relock, Opt!Drain, Opt!Return
  <2> QED BY <2>1
<1>7. CASE Opt!StopTimer(p) \/ Opt!FreeAll(p)
  <2>1. Passes(sem_num, sem_num', p, AskedNum, AskedNum')
    BY <1>7 DEF Passes, Opt!StopTimer, Opt!FreeAll
  <2> QED BY <2>1
<1>8. CASE Opt!Uncount(p)
  <2>1. /\ at[p] = "leaving" /\ sem_num' = sem_num
        /\ at'[p] \in {"flush", "stop", "left"}
    <3>1. CASE num_readers' = 0
      BY <1>8, <3>1 DEF Opt!Uncount
    <3>2. CASE num_readers' = 1
      BY <1>8, <3>2 DEF Opt!Uncount
    <3>3. CASE num_readers' # 0 /\ num_readers' # 1
      BY <1>8, <3>3 DEF Opt!Uncount
    <3> QED BY <3>1, <3>2, <3>3
  <2>2. Passes(sem_num, sem_num', p, AskedNum, AskedNum')
    BY <2>1 DEF Passes
  <2> QED BY <2>2
<1> QED BY <1>1, <1>2, <1>3, <1>4, <1>5, <1>6, <1>7, <1>8
        DEF OptCall, Opt!OpenStep, Opt!ReleaseStep

(* What each step does to sem_reader. *)
LEMMA ReaderSteps ==
    ASSUME OptTypes, NEW p \in Procs, OptCall(p)
    PROVE  Uses(sem_reader, sem_reader', p, AskedReader, AskedReader')
<1> USE SameSemaphores DEF OptTypes, Opt!Goto, AskedReader, Uses, Opt!entry
<1>1. CASE Opt!Alloc(p)
  <2>1. Asks(sem_reader, sem_reader', p, AskedReader, AskedReader')
    BY <1>1 DEF Asks, Opt!Alloc
  <2> QED BY <2>1
<1>2. CASE Opt!Check(p)
  <2>1. CASE num_readers = 2
    <3>1. Passes(sem_reader, sem_reader', p, AskedReader, AskedReader')
      BY <1>2, <2>1 DEF Passes, Opt!Check
    <3> QED BY <3>1
  <2>2. CASE num_readers # 2
    <3>1. Asks(sem_reader, sem_reader', p, AskedReader, AskedReader')
      BY <1>2, <2>2 DEF Asks, Opt!Check
    <3> QED BY <3>1
  <2> QED BY <2>1, <2>2
<1>3. CASE Opt!Count(p)
  <2>1. CASE loaded[p] = 0
    <3>1. Passes(sem_reader, sem_reader', p, AskedReader, AskedReader')
      BY <1>3, <2>1 DEF Passes, Opt!Count
    <3> QED BY <3>1
  <2>2. CASE loaded[p] # 0
    <3>1. Gives(sem_reader, sem_reader', p, AskedReader, AskedReader')
      BY <1>3, <2>2 DEF Gives, Opt!Count
    <3> QED BY <3>1
  <2> QED BY <2>1, <2>2
<1>4. CASE Opt!Leave(p)
  <2>1. Gives(sem_reader, sem_reader', p, AskedReader, AskedReader')
    BY <1>4 DEF Gives, Opt!Leave
  <2> QED BY <2>1
<1>5. CASE Opt!InterruptReader(p)
  <2>1. GivesUp(sem_reader, sem_reader', p, AskedReader, AskedReader')
    BY <1>5 DEF GivesUp, Opt!InterruptReader
  <2> QED BY <2>1
<1>6. CASE \/ Opt!CallOpen(p) \/ Opt!LoadNum(p) \/ Opt!FailToAlloc(p) \/ Opt!Recheck(p)
           \/ Opt!Arm(p) \/ Opt!Assign(p) \/ Opt!Bump(p) \/ Opt!Undo(p) \/ Opt!InterruptNum(p)
  <2>1. Passes(sem_reader, sem_reader', p, AskedReader, AskedReader')
    BY <1>6 DEF Passes, Opt!CallOpen, Opt!LoadNum, Opt!FailToAlloc, Opt!Recheck, Opt!Arm,
                Opt!Assign, Opt!Bump, Opt!Undo, Opt!InterruptNum
  <2> QED BY <2>1
<1>7. CASE Opt!CallRead(p) \/ Opt!ReadStep(p) \/ Opt!InterruptRead(p) \/ Opt!CallRelease(p)
  <2>1. Passes(sem_reader, sem_reader', p, AskedReader, AskedReader')
    BY <1>7 DEF Passes, Opt!CallRead, Opt!ReadStep, Opt!InterruptRead, Opt!CallRelease,
                Opt!FindEmpty, Opt!OwnsList, Opt!Sleep, Opt!Relock, Opt!Drain, Opt!Return
  <2> QED BY <2>1
<1>8. CASE Opt!StopTimer(p) \/ Opt!FreeAll(p)
  <2>1. Passes(sem_reader, sem_reader', p, AskedReader, AskedReader')
    BY <1>8 DEF Passes, Opt!StopTimer, Opt!FreeAll
  <2> QED BY <2>1
<1>9. CASE Opt!Uncount(p)
  <2>1. /\ at[p] = "leaving" /\ sem_reader' = sem_reader
        /\ at'[p] \in {"flush", "stop", "left"}
    <3>1. CASE num_readers' = 0
      BY <1>9, <3>1 DEF Opt!Uncount
    <3>2. CASE num_readers' = 1
      BY <1>9, <3>2 DEF Opt!Uncount
    <3>3. CASE num_readers' # 0 /\ num_readers' # 1
      BY <1>9, <3>3 DEF Opt!Uncount
    <3> QED BY <3>1, <3>2, <3>3
  <2>2. Passes(sem_reader, sem_reader', p, AskedReader, AskedReader')
    BY <2>1 DEF Passes
  <2> QED BY <2>2
<1> QED BY <1>1, <1>2, <1>3, <1>4, <1>5, <1>6, <1>7, <1>8, <1>9
        DEF OptCall, Opt!OpenStep, Opt!ReleaseStep

(* What each step does to sem_coderead. *)
LEMMA CodeSteps ==
    ASSUME OptTypes, NEW p \in Procs, OptCall(p)
    PROVE  Uses(sem_coderead, sem_coderead', p, AskedCode, AskedCode')
<1> USE SameSemaphores DEF OptTypes, Opt!Goto, AskedCode, Uses, Opt!lists
<1>1. CASE Opt!Sleep(p)
  <2>1. Asks(sem_coderead, sem_coderead', p, AskedCode, AskedCode')
    BY <1>1 DEF Asks, Opt!Sleep
  <2> QED BY <2>1
<1>2. CASE Opt!InterruptRead(p)
  <2>1. CASE at[p] = "list"
    <3>1. Passes(sem_coderead, sem_coderead', p, AskedCode, AskedCode')
      BY <1>2, <2>1 DEF Passes, Opt!InterruptRead
    <3> QED BY <3>1
  <2>2. CASE at[p] = "wait"
    <3>1. GivesUp(sem_coderead, sem_coderead', p, AskedCode, AskedCode')
      BY <1>2, <2>2 DEF GivesUp, Opt!InterruptRead
    <3> QED BY <3>1
  <2> QED BY <1>2, <2>1, <2>2 DEF Opt!InterruptRead
<1>3. CASE \/ Opt!CallOpen(p) \/ Opt!OpenStep(p) \/ Opt!InterruptNum(p)
           \/ Opt!InterruptReader(p)
  <2>1. Passes(sem_coderead, sem_coderead', p, AskedCode, AskedCode')
    BY <1>3 DEF Passes, Opt!CallOpen, Opt!OpenStep, Opt!InterruptNum, Opt!InterruptReader,
                Opt!LoadNum, Opt!Count, Opt!FailToAlloc, Opt!Alloc, Opt!Check, Opt!Recheck,
                Opt!Arm, Opt!Assign, Opt!Bump, Opt!Undo
  <2> QED BY <2>1
<1>4. CASE Opt!CallRead(p) \/ Opt!FindEmpty(p) \/ Opt!Relock(p) \/ Opt!Drain(p) \/ Opt!Return(p)
  <2>1. Passes(sem_coderead, sem_coderead', p, AskedCode, AskedCode')
    BY <1>4 DEF Passes, Opt!CallRead, Opt!FindEmpty, Opt!OwnsList, Opt!Relock, Opt!Drain,
                Opt!Return
  <2> QED BY <2>1
<1>5. CASE Opt!CallRelease(p) \/ Opt!StopTimer(p) \/ Opt!FreeAll(p) \/ Opt!Leave(p)
  <2>1. Passes(sem_coderead, sem_coderead', p, AskedCode, AskedCode')
    BY <1>5 DEF Passes, Opt!CallRelease, Opt!StopTimer, Opt!FreeAll, Opt!Leave
  <2> QED BY <2>1
<1>6. CASE Opt!Uncount(p)
  <2>1. /\ at[p] = "leaving" /\ sem_coderead' = sem_coderead
        /\ at'[p] \in {"flush", "stop", "left"}
    <3>1. CASE num_readers' = 0
      BY <1>6, <3>1 DEF Opt!Uncount
    <3>2. CASE num_readers' = 1
      BY <1>6, <3>2 DEF Opt!Uncount
    <3>3. CASE num_readers' # 0 /\ num_readers' # 1
      BY <1>6, <3>3 DEF Opt!Uncount
    <3> QED BY <3>1, <3>2, <3>3
  <2>2. Passes(sem_coderead, sem_coderead', p, AskedCode, AskedCode')
    BY <2>1 DEF Passes
  <2> QED BY <2>2
<1> QED BY <1>1, <1>2, <1>3, <1>4, <1>5, <1>6
        DEF OptCall, Opt!ReadStep, Opt!ReleaseStep

LEMMA StepQueues ==
    ASSUME OptTypes, NumQueue, ReaderQueue, CodeQueue, Opt!Next
    PROVE  NumQueue' /\ ReaderQueue' /\ CodeQueue'
<1> USE SameSemaphores DEF NumQueue, ReaderQueue, CodeQueue
<1>1. CASE \E l \in Lengths, t \in Thresholds : Opt!Generate(l, t)
  BY <1>1 DEF Opt!Generate, Opt!entry, Opt!lists, AskedNum, AskedReader, AskedCode
<1>2. CASE Opt!BeginWork \/ Opt!AskToAdd \/ Opt!AddCode
  BY <1>2 DEF Opt!BeginWork, Opt!AskToAdd, Opt!AddCode, Opt!entry, Opt!lists,
              AskedNum, AskedReader, AskedCode
<1>3. CASE Opt!EndWork
  <2>1. sem_coderead' = Up(sem_coderead) /\ UNCHANGED <<at, sem_num, sem_reader>>
    BY <1>3 DEF Opt!EndWork, Opt!entry
  <2>2. Queued(sem_coderead', Procs, AskedCode)
    BY <2>1, QueuedUp
  <2> QED BY <2>1, <2>2 DEF AskedNum, AskedReader, AskedCode
<1>4. ASSUME NEW p \in Procs, OptCall(p)
      PROVE  NumQueue' /\ ReaderQueue' /\ CodeQueue'
  <2>1. \A q \in Procs \ {p} : at'[q] = at[q]
    BY <1>4, OthersAt DEF OptTypes
  <2>2. /\ AskedNum \ {p} = AskedNum' \ {p}
        /\ AskedReader \ {p} = AskedReader' \ {p}
        /\ AskedCode \ {p} = AskedCode' \ {p}
    BY <2>1 DEF AskedNum, AskedReader, AskedCode
  <2>3. NumQueue'
    BY <1>4, <2>2, NumSteps, StaysQueued
  <2>4. ReaderQueue'
    BY <1>4, <2>2, ReaderSteps, StaysQueued
  <2>5. CodeQueue'
    BY <1>4, <2>2, CodeSteps, StaysQueued
  <2> QED BY <2>3, <2>4, <2>5
<1> QED BY <1>1, <1>2, <1>3, <1>4 DEF Opt!Next, Opt!WorkStep, OptCall

(* A process that neither asks for the list nor waits may go anywhere. *)
LEMMA StrangersKeepTold ==
    ASSUME OptTypes, ToldOrRobbed, NEW p \in Procs, at[p] \notin {"list", "wait"},
           \E place \in Places : at' = [at EXCEPT ![p] = place],
           \A q \in Procs \ {p} : private'[q] = private[q],
           UNCHANGED <<work, sem_coderead, robbed>>,
           \A i \in 0..1 : list'[i] \in {list[i], <<>>}
    PROVE  ToldOrRobbed'
<1>1. \A q \in Procs \ {p} : at'[q] = at[q] /\ Opt!Mine(q)' = Opt!Mine(q)
  BY DEF OptTypes, Opt!Mine
<1>2. ASSUME NEW q \in Procs, NEW i \in 0..1, Knows(q, i)
      PROVE  Knows(q, i)'
  <2>1. q # p
    BY <1>2 DEF Knows
  <2> QED BY <1>1, <1>2, <2>1 DEF Knows, Granted
<1>3. \A i \in 0..1 : list'[i] # <<>> => list'[i] = list[i]
  OBVIOUS
<1> QED BY <1>2, <1>3 DEF ToldOrRobbed

(* No step of open or of release takes a unit of sem_coderead or adds a code. *)
LEMMA OpenKeepsTold ==
    ASSUME OptTypes, ToldOrRobbed, NEW p \in Procs,
           \/ Opt!CallOpen(p) \/ Opt!OpenStep(p) \/ Opt!InterruptNum(p)
           \/ Opt!InterruptReader(p) \/ Opt!CallRelease(p) \/ Opt!ReleaseStep(p)
    PROVE  ToldOrRobbed'
<1> USE DEF Opt!entry, Opt!buffer, Opt!worker, Opt!lists
<1>1. \E place \in Places : at' = [at EXCEPT ![p] = place]
  BY OthersAt DEF OptCall
<1>2. CASE \/ Opt!CallOpen(p) \/ Opt!LoadNum(p) \/ Opt!Count(p) \/ Opt!FailToAlloc(p)
           \/ Opt!Check(p) \/ Opt!Recheck(p) \/ Opt!Arm(p) \/ Opt!Assign(p) \/ Opt!Bump(p)
           \/ Opt!Undo(p) \/ Opt!InterruptNum(p) \/ Opt!InterruptReader(p)
  <2>1. /\ at[p] \notin {"list", "wait"}
        /\ UNCHANGED <<work, sem_coderead, list, robbed>>
    BY <1>2 DEF Opt!CallOpen, Opt!LoadNum, Opt!Count, Opt!FailToAlloc, Opt!Check, Opt!Recheck,
                Opt!Arm, Opt!Assign, Opt!Bump, Opt!Undo, Opt!InterruptNum, Opt!InterruptReader
  <2>2. \A q \in Procs \ {p} : private'[q] = private[q]
    BY <1>2 DEF OptTypes, Opt!CallOpen, Opt!LoadNum, Opt!Count, Opt!FailToAlloc, Opt!Check,
                Opt!Recheck, Opt!Arm, Opt!Assign, Opt!Bump, Opt!Undo, Opt!InterruptNum,
                Opt!InterruptReader
  <2> QED BY <1>1, <2>1, <2>2, StrangersKeepTold
<1>3. CASE Opt!CallRelease(p) \/ Opt!Uncount(p) \/ Opt!StopTimer(p) \/ Opt!Leave(p)
  <2>1. /\ at[p] \notin {"list", "wait"}
        /\ UNCHANGED <<work, sem_coderead, list, robbed>>
    BY <1>3 DEF Opt!CallRelease, Opt!Uncount, Opt!StopTimer, Opt!Leave
  <2>2. \A q \in Procs \ {p} : private'[q] = private[q]
    BY <1>3 DEF OptTypes, Opt!CallRelease, Opt!Uncount, Opt!StopTimer, Opt!Leave
  <2> QED BY <1>1, <2>1, <2>2, StrangersKeepTold
<1>4. CASE Opt!Alloc(p) \/ Opt!FreeAll(p)
  <2>1. \A i \in 0..1 : list'[i] = <<>>
    BY <1>4 DEF Opt!Alloc, Opt!FreeAll
  <2> QED BY <2>1 DEF ToldOrRobbed
<1> QED BY <1>2, <1>3, <1>4 DEF Opt!OpenStep, Opt!ReleaseStep

(* A reader that takes a unit, or gives up, leaves the knowledge to another or
   is noted as a robber. *)
LEMMA ReadKeepsTold ==
    ASSUME OptTypes, CodeQueue, ToldOrRobbed, NEW p \in Procs,
           Opt!CallRead(p) \/ Opt!ReadStep(p) \/ Opt!InterruptRead(p)
    PROVE  ToldOrRobbed'
<1> USE SameSemaphores DEF Opt!entry, Opt!buffer, Opt!worker, Opt!lists
<1>0. \E place \in Places : at' = [at EXCEPT ![p] = place]
  BY OthersAt DEF OptCall
<1>1. CASE Opt!CallRead(p) \/ Opt!Return(p)
  <2>1. /\ at[p] \notin {"list", "wait"}
        /\ UNCHANGED <<work, sem_coderead, list, robbed, private>>
    BY <1>1 DEF Opt!CallRead, Opt!Return
  <2> QED BY <1>0, <2>1, StrangersKeepTold
<1>2. /\ \A q \in Procs \ {p} : at'[q] = at[q]
      /\ UNCHANGED <<work, private>>
      /\ \A q \in Procs : Opt!Mine(q)' = Opt!Mine(q)
      /\ Opt!Mine(p) \in 0..1
  <2>1. UNCHANGED <<work, private>>
    BY DEF Opt!CallRead, Opt!ReadStep, Opt!InterruptRead, Opt!FindEmpty, Opt!Sleep, Opt!Relock,
           Opt!Drain, Opt!Return
  <2> QED BY <1>0, <2>1 DEF OptTypes, Opt!Mine
<1>3. CASE Opt!FindEmpty(p) \/ Opt!Drain(p)
  <2>1. /\ at[p] = "list" /\ sem_coderead' = sem_coderead /\ list'[Opt!Mine(p)] = <<>>
        /\ \A i \in 0..1 : i # Opt!Mine(p) =>
              list'[i] = list[i] /\ (i \in robbed <=> i \in robbed')
    BY <1>2, <1>3 DEF Opt!FindEmpty, Opt!Drain, Opt!OwnsList, OptTypes
  <2>2. ASSUME NEW q \in Procs, NEW i \in 0..1, i # Opt!Mine(p), Knows(q, i)
        PROVE  Knows(q, i)'
    BY <1>2, <2>1, <2>2 DEF Knows, Granted
  <2> QED BY <1>2, <2>1, <2>2 DEF ToldOrRobbed
<1>4. CASE Opt!Sleep(p)
  <2>1. /\ at[p] = "unlocked" /\ sem_coderead' = Down(sem_coderead, p)
        /\ at'[p] = "wait" /\ UNCHANGED <<list, robbed>>
    BY <1>4 DEF Opt!Sleep, Opt!Goto, OptTypes
  <2>2. p \notin AskedCode /\ Waiting(sem_coderead) \subseteq AskedCode
    BY <2>1 DEF AskedCode, CodeQueue, Queued
  <2>3. /\ sem_coderead.count \in Nat
        /\ sem_coderead.count > 0 => Waiting(sem_coderead') = Waiting(sem_coderead)
        /\ sem_coderead.count = 0 => Waiting(sem_coderead') = Waiting(sem_coderead) \cup {p}
    <3>1. IsSemaphore(sem_coderead, Procs) /\ Granted(sem_coderead, p)
      BY <2>2 DEF CodeQueue, Queued, Granted
    <3>2. sem_coderead.count \in Nat
      BY <3>1 DEF IsSemaphore
    <3> QED BY <2>1, <3>1, <3>2, DownEffect
  <2>4. CASE sem_coderead.count > 0
    <3>1. \A i \in 0..1 : Knows(p, i)'
      BY <2>1, <2>2, <2>3, <2>4 DEF Knows, Granted
    <3> QED BY <3>1 DEF ToldOrRobbed
  <2>5. CASE sem_coderead.count = 0
    <3>1. ASSUME NEW q \in Procs, NEW i \in 0..1, Knows(q, i)
          PROVE  Knows(q, i)'
      <4>1. q # p
        BY <2>1, <3>1 DEF Knows
      <4> QED BY <1>2, <2>3, <2>5, <3>1, <4>1 DEF Knows, Granted
    <3> QED BY <1>2, <2>1, <2>5, <3>1 DEF ToldOrRobbed
  <2> QED BY <2>3, <2>4, <2>5
<1>5. CASE Opt!Relock(p)
  <2>1. /\ at[p] = "wait" /\ at'[p] = "list" /\ UNCHANGED <<list, sem_coderead>>
        /\ robbed' = robbed \cup Opt!Listed(1 - Opt!Mine(p))
    BY <1>5 DEF Opt!Relock, Opt!Goto, OptTypes
  <2>2. ASSUME NEW i \in 0..1, i # Opt!Mine(p), list[i] # <<>>
        PROVE  i \in robbed'
    <3>1. i = 1 - Opt!Mine(p)
      BY <1>2, <2>2
    <3> QED BY <2>1, <2>2, <3>1 DEF Opt!Listed
  <2>3. \A i \in 0..1 : i = Opt!Mine(p) => Knows(p, i)'
    BY <1>2, <2>1 DEF Knows
  <2> QED BY <2>1, <2>2, <2>3 DEF ToldOrRobbed
<1>6. CASE Opt!InterruptRead(p) /\ at[p] = "list"
  <2>1. /\ UNCHANGED <<list, sem_coderead>> /\ robbed' = robbed \cup Opt!Listed(Opt!Mine(p))
    BY <1>6 DEF Opt!InterruptRead
  <2>2. \A i \in 0..1 : i \notin robbed' /\ list[i] # <<>> => i # Opt!Mine(p) /\ i \notin robbed
    BY <2>1 DEF Opt!Listed
  <2>3. ASSUME NEW q \in Procs, NEW i \in 0..1, i # Opt!Mine(p), Knows(q, i)
        PROVE  Knows(q, i)'
    BY <1>2, <1>6, <2>1, <2>3 DEF Knows, Granted
  <2> QED BY <1>2, <2>1, <2>2, <2>3 DEF ToldOrRobbed
<1>7. CASE Opt!InterruptRead(p) /\ at[p] = "wait"
  <2>1. /\ ~Granted(sem_coderead, p) /\ sem_coderead' = Cancel(sem_coderead, p)
        /\ UNCHANGED <<list, robbed>>
    BY <1>7 DEF Opt!InterruptRead
  <2>2. /\ sem_coderead'.count = sem_coderead.count
        /\ Waiting(sem_coderead') = Waiting(sem_coderead) \ {p}
    BY <2>1, QueuedCancel DEF CodeQueue, AskedCode
  <2>3. ASSUME NEW q \in Procs, NEW i \in 0..1, Knows(q, i)
        PROVE  Knows(q, i)'
    <3>1. q # p
      BY <1>7, <2>1, <2>3 DEF Knows
    <3> QED BY <1>2, <2>2, <2>3, <3>1 DEF Knows, Granted
  <2> QED BY <1>2, <2>1, <2>2, <2>3 DEF ToldOrRobbed
<1> QED BY <1>1, <1>3, <1>4, <1>5, <1>6, <1>7 DEF Opt!ReadStep, Opt!InterruptRead

LEMMA StepToldOrRobbed ==
    ASSUME OptTypes, CodeQueue, ToldOrRobbed, Opt!Next
    PROVE  ToldOrRobbed'
<1> USE SameSemaphores DEF Opt!entry, Opt!lists
<1>1. CASE \E l \in Lengths, t \in Thresholds : Opt!Generate(l, t)
  <2>1. UNCHANGED <<at, private, work, list, sem_coderead, robbed>>
    BY <1>1 DEF Opt!Generate, Opt!worker
  <2> QED BY <2>1 DEF ToldOrRobbed, Knows, Opt!Mine
<1>2. CASE Opt!BeginWork \/ Opt!AskToAdd \/ Opt!AddCode
  <2>1. work' # "idle"
    BY <1>2 DEF Opt!BeginWork, Opt!AskToAdd, Opt!AddCode
  <2> QED BY <2>1 DEF ToldOrRobbed
<1>3. CASE Opt!EndWork
  <2>1. sem_coderead' = Up(sem_coderead) /\ UNCHANGED at
    BY <1>3 DEF Opt!EndWork
  <2>2. CASE sem_coderead'.count > 0
    BY <2>2 DEF ToldOrRobbed
  <2>3. CASE \E h \in Waiting(sem_coderead) : Granted(sem_coderead', h)
    <3>1. PICK h \in Procs : at[h] = "wait" /\ Granted(sem_coderead', h)
      BY <2>3 DEF CodeQueue, Queued, AskedCode
    <3>2. \A i \in 0..1 : Knows(h, i)'
      BY <2>1, <3>1 DEF Knows
    <3> QED BY <3>2 DEF ToldOrRobbed
  <2> QED BY <2>1, <2>2, <2>3, QueuedUp DEF CodeQueue
<1> QED BY <1>1, <1>2, <1>3, OpenKeepsTold, ReadKeepsTold DEF Opt!Next, Opt!WorkStep

(* Only the work item adds codes to a list; whoever else changes it empties it. *)
LEMMA ListsShrink ==
    ASSUME OptTypes, Opt!Next, ~Opt!AddCode
    PROVE  \A i \in 0..1 : list'[i] \in {list[i], <<>>}
<1> USE DEF OptTypes, Opt!lists
<1>1. CASE \E l \in Lengths, t \in Thresholds : Opt!Generate(l, t)
  BY <1>1 DEF Opt!Generate
<1>2. CASE Opt!WorkStep
  BY <1>2 DEF Opt!WorkStep, Opt!BeginWork, Opt!AskToAdd, Opt!EndWork
<1>3. ASSUME NEW p \in Procs, OptCall(p)
      PROVE  \A i \in 0..1 : list'[i] \in {list[i], <<>>}
  <2>1. CASE \/ Opt!CallOpen(p) \/ Opt!OpenStep(p) \/ Opt!InterruptNum(p)
             \/ Opt!InterruptReader(p)
    BY <2>1 DEF Opt!CallOpen, Opt!OpenStep, Opt!InterruptNum, Opt!InterruptReader, Opt!LoadNum,
                Opt!Count, Opt!FailToAlloc, Opt!Alloc, Opt!Check, Opt!Recheck, Opt!Arm,
                Opt!Assign, Opt!Bump, Opt!Undo
  <2>2. CASE Opt!CallRead(p) \/ Opt!ReadStep(p) \/ Opt!InterruptRead(p)
    BY <2>2 DEF Opt!CallRead, Opt!ReadStep, Opt!InterruptRead, Opt!FindEmpty, Opt!Sleep,
                Opt!Relock, Opt!Drain, Opt!Return
  <2>3. CASE Opt!CallRelease(p) \/ Opt!ReleaseStep(p)
    BY <2>3 DEF Opt!CallRelease, Opt!ReleaseStep, Opt!Uncount, Opt!StopTimer, Opt!FreeAll,
                Opt!Leave
  <2> QED BY <1>3, <2>1, <2>2, <2>3 DEF OptCall
<1> QED BY <1>1, <1>2, <1>3 DEF Opt!Next, OptCall

LEMMA StepParity ==
    ASSUME Opt!CodeOptAssumption, OptTypes, OptHands, ListParity, Opt!Next
    PROVE  ListParity'
<1>1. CASE ~Opt!AddCode
  <2>1. \A i \in 0..1 : list'[i] \in {list[i], <<>>}
    BY <1>1, ListsShrink
  <2>2. Len(<<>>) = 0
    BY EmptySeq
  <2> QED BY <2>1, <2>2 DEF ListParity
<1>2. CASE Opt!AddCode
  <2> DEFINE h == Head(hand)
  <2>1. /\ h \in Lengths /\ h % 2 \in 0..1
        /\ list' = [list EXCEPT ![h % 2] = Append(@, h)]
    <3>1. h \in Lengths
      BY <1>2, HeadTailProperties DEF Opt!AddCode, OptTypes, OptHands
    <3> QED BY <1>2, <3>1, ParityIs DEF Opt!AddCode
  <2> HIDE DEF h
  <2>2. ASSUME NEW i \in 0..1, i # h % 2
        PROVE  list'[i] = list[i]
    BY <2>1, <2>2 DEF OptTypes
  <2>3. ASSUME NEW i \in 0..1, i = h % 2, NEW n \in 1..Len(list'[i])
        PROVE  list'[i][n] % 2 = i
    <3>1. list'[i] = Append(list[i], h) /\ list[i] \in Seq(Lengths)
      BY <2>1, <2>3 DEF OptTypes
    <3>2. /\ Len(list[i]) \in Nat /\ Len(Append(list[i], h)) = Len(list[i]) + 1
          /\ \A k \in 1..Len(list[i]) : Append(list[i], h)[k] = list[i][k]
          /\ Append(list[i], h)[Len(list[i]) + 1] = h
      BY <2>1, <3>1, AppendProperties, LenProperties
    <3>3. n \in 1..Len(list[i]) \/ n = Len(list[i]) + 1
      BY <2>3, <3>1, <3>2
    <3> QED BY <2>3, <3>1, <3>2, <3>3 DEF ListParity
  <2> QED BY <2>2, <2>3 DEF ListParity
<1> QED BY <1>1, <1>2

LEMMA InitOptInv ==
    ASSUME Opt!CodeOptAssumption, Opt!Init
    PROVE  OptInv
<1> USE SameSemaphores, OptConstants DEF Opt!Init
<1>1. OptTypes
  <2>1. ring \in Seq(Lengths) /\ hand \in Seq(Lengths) /\ <<>> \in Seq(Lengths)
    BY EmptySeq
  <2>2. list \in [0..1 -> Seq(Lengths)] /\ got \in [Procs -> Seq(Lengths)]
    BY <2>1
  <2>3. at \in [Procs -> Places]
    BY DEF Places
  <2>4. 0 \in 0..(NumWrap - 1)
    OBVIOUS
  <2>5. /\ num_readers \in 0..(NumWrap - 1) /\ loaded \in [Procs -> 0..(NumWrap - 1)]
        /\ even_odd \in 0..2 /\ private \in [Procs -> 0..2] /\ awaited \in [Procs -> 0..2]
    BY <2>4
  <2> QED BY <2>1, <2>2, <2>3, <2>5 DEF OptTypes
<1>2. OptHands /\ ListParity
  <2>1. \A i \in 0..1 : Len(list[i]) = 0
    BY EmptySeq
  <2> QED BY <2>1 DEF OptHands, ListParity
<1>3. NumQueue /\ ReaderQueue /\ CodeQueue
  BY NewSemaphoreIsOne DEF NumQueue, ReaderQueue, CodeQueue, Queued
<1>4. ToldOrRobbed
  BY DEF ToldOrRobbed
<1> QED BY <1>1, <1>2, <1>3, <1>4 DEF OptInv

LEMMA NextOptInv ==
    ASSUME Opt!CodeOptAssumption, OptInv, [Opt!Next]_(Opt!vars)
    PROVE  OptInv'
<1>1. CASE UNCHANGED Opt!vars
  BY <1>1 DEF OptInv, Opt!vars, Opt!entry, Opt!buffer, Opt!worker, Opt!lists, OptTypes, OptHands,
              ListParity, NumQueue, ReaderQueue, CodeQueue, AskedNum, AskedReader, AskedCode,
              ToldOrRobbed,
              Knows, Opt!Mine
<1>2. CASE Opt!Next
  BY <1>2, StepOptTypes, StepParity, StepQueues, StepToldOrRobbed DEF OptInv
<1> QED BY <1>1, <1>2

(* OptInv holds in every state the codetimer for two readers reaches. *)
THEOREM OptInvHolds == Opt!CodeOptAssumption /\ Opt!Spec => []OptInv
<1>1. Opt!CodeOptAssumption /\ Opt!Init => OptInv
  BY InitOptInv
<1>2. Opt!CodeOptAssumption /\ OptInv /\ [Opt!Next]_(Opt!vars) => OptInv'
  BY NextOptInv
<1>3. Opt!CodeOptAssumption => []Opt!CodeOptAssumption
  OBVIOUS
<1> QED BY <1>1, <1>2, <1>3, PTL DEF Opt!Spec

(* A reader sleeps beside codes of its own list only if its unit of sem_coderead
   was taken by a reader of the other list or by an interrupted one (103, 310). *)
THEOREM WokenOrRobbed == Opt!CodeOptAssumption /\ Opt!Spec => []Opt!WokenUnlessRobbed
<1>1. OptInv => Opt!WokenUnlessRobbed
  <2> SUFFICES ASSUME OptInv, work = "idle",
                      \A q \in Procs : at[q] \in {"list", "unlocked", "wait"} => Opt!Asleep(q),
                      NEW p \in Procs, Opt!Asleep(p), list[Opt!Mine(p)] # <<>>
               PROVE  Opt!Mine(p) \in robbed
    BY DEF Opt!WokenUnlessRobbed
  <2>1. sem_coderead.count = 0
    <3>1. IsSemaphore(sem_coderead, Procs) /\ p \in Waiting(sem_coderead)
      BY SameSemaphores DEF OptInv, CodeQueue, Queued, Opt!Asleep, Granted
    <3>2. sem_coderead.queue # <<>>
      BY <3>1 DEF Waiting
    <3> QED BY <3>1, <3>2 DEF IsSemaphore
  <2>2. \A q \in Procs, i \in 0..1 : ~Knows(q, i)
    BY SameSemaphores DEF Opt!Asleep, Knows
  <2>3. Opt!Mine(p) \in 0..1
    BY DEF Opt!Mine
  <2> QED BY <2>1, <2>2, <2>3 DEF OptInv, ToldOrRobbed
<1> QED BY <1>1, OptInvHolds, PTL

(* Who holds sem_num, or gives it back without having it, moves on. *)
LEMMA HolderMoves ==
    ASSUME OptTypes, NumQueue, NEW p \in Procs, OptCall(p), Opt!WillGiveNum(p)
    PROVE  \/ Opt!WillGiveNum(p)'
           \/ sem_num' = Up(sem_num) /\ at[p] \notin {"num", "undo", "leave"}
           \/ at[p] = "alloc" /\ at'[p] = "out"
           \/ at'[p] = "dead"
<1> USE SameSemaphores DEF OptTypes, Opt!Goto, Opt!WillGiveNum
<1>1. CASE Opt!Alloc(p) \/ Opt!Bump(p) \/ Opt!Undo(p) \/ Opt!Leave(p)
  BY <1>1 DEF Opt!Alloc, Opt!Bump, Opt!Undo, Opt!Leave
<1>2. CASE Opt!Check(p)
  BY <1>2 DEF Opt!Check
<1>3. CASE Opt!LoadNum(p) \/ Opt!Count(p) \/ Opt!FailToAlloc(p) \/ Opt!Arm(p) \/ Opt!Assign(p)
  BY <1>3 DEF Opt!LoadNum, Opt!Count, Opt!FailToAlloc, Opt!Arm, Opt!Assign
<1>4. CASE Opt!StopTimer(p) \/ Opt!FreeAll(p)
  BY <1>4 DEF Opt!StopTimer, Opt!FreeAll
<1>5. CASE Opt!Uncount(p)
  <2>1. CASE num_readers' = 0
    BY <1>5, <2>1 DEF Opt!Uncount
  <2>2. CASE num_readers' = 1
    BY <1>5, <2>2 DEF Opt!Uncount
  <2>3. CASE num_readers' # 0 /\ num_readers' # 1
    BY <1>5, <2>3 DEF Opt!Uncount
  <2> QED BY <2>1, <2>2, <2>3
<1>6. ~(\/ Opt!CallOpen(p) \/ Opt!Recheck(p) \/ Opt!InterruptNum(p) \/ Opt!InterruptReader(p)
        \/ Opt!CallRead(p) \/ Opt!ReadStep(p) \/ Opt!InterruptRead(p) \/ Opt!CallRelease(p))
  BY DEF Opt!CallOpen, Opt!Recheck, Opt!InterruptNum, Opt!InterruptReader, Opt!CallRead,
         Opt!ReadStep, Opt!InterruptRead, Opt!CallRelease, Opt!FindEmpty, Opt!OwnsList,
         Opt!Sleep, Opt!Relock, Opt!Drain, Opt!Return
<1> QED BY <1>1, <1>2, <1>3, <1>4, <1>5, <1>6 DEF OptCall, Opt!OpenStep, Opt!ReleaseStep

\* A step of p that leaves num_readers alone: p asks for sem_num, gives up asking
\* for it, or is about something else.
Quiet(p) ==
    /\ UNCHANGED <<num_readers, even_odd, size>>
    /\ \A q \in Procs \ {p} : at'[q] = at[q]
    /\ \/ sem_reader' = sem_reader
       \/ ~Granted(sem_reader, p) /\ sem_reader' = Cancel(sem_reader, p)
    /\ \/ /\ p \notin AskedNum /\ sem_num' = Down(sem_num, p)
          /\ at'[p] \in {"num", "recheck", "undo", "leave"}
       \/ ~Granted(sem_num, p) /\ sem_num' = Cancel(sem_num, p) /\ at'[p] = "out"
       \/ sem_num' = sem_num /\ at'[p] \in Opt!Inside

(* Who neither holds sem_num nor will give it back takes quiet steps only. *)
LEMMA OthersQuiet ==
    ASSUME OptTypes, NEW p \in Procs, OptCall(p), ~Opt!WillGiveNum(p)
    PROVE  Quiet(p)
<1> USE SameSemaphores DEF OptTypes, Opt!Goto, Opt!WillGiveNum, Quiet, Opt!entry, Opt!buffer,
            Opt!Inside, AskedNum
<1>1. \A q \in Procs \ {p} : at'[q] = at[q]
  BY OthersAt
<1>2. CASE \/ Opt!CallOpen(p) \/ Opt!Recheck(p) \/ Opt!CallRelease(p)
  BY <1>1, <1>2 DEF Opt!CallOpen, Opt!Recheck, Opt!CallRelease
<1>3. CASE Opt!InterruptNum(p) \/ Opt!InterruptReader(p)
  BY <1>1, <1>3 DEF Opt!InterruptNum, Opt!InterruptReader
<1>4. CASE Opt!CallRead(p) \/ Opt!ReadStep(p) \/ Opt!InterruptRead(p)
  BY <1>1, <1>4 DEF Opt!CallRead, Opt!ReadStep, Opt!InterruptRead, Opt!FindEmpty, Opt!Sleep,
                    Opt!Relock, Opt!Drain, Opt!Return
<1>5. ~(\/ Opt!LoadNum(p) \/ Opt!Count(p) \/ Opt!FailToAlloc(p) \/ Opt!Alloc(p) \/ Opt!Check(p)
        \/ Opt!Arm(p) \/ Opt!Assign(p) \/ Opt!Bump(p) \/ Opt!Undo(p) \/ Opt!ReleaseStep(p))
  BY DEF Opt!LoadNum, Opt!Count, Opt!FailToAlloc, Opt!Alloc, Opt!Check, Opt!Arm, Opt!Assign,
         Opt!Bump, Opt!Undo, Opt!ReleaseStep, Opt!Uncount, Opt!StopTimer, Opt!FreeAll, Opt!Leave
<1> QED BY <1>2, <1>3, <1>4, <1>5 DEF OptCall, Opt!OpenStep

(* After a quiet step of p the others give sem_num back as before; p does so if
   it found it free. *)
LEMMA QuietEffect ==
    ASSUME OptTypes, NumQueue, ReaderQueue, NEW p \in Procs, Quiet(p)
    PROVE  /\ \A q \in Procs \ {p} : Opt!WillGiveNum(q)' <=> Opt!WillGiveNum(q)
           /\ sem_num.count = 0 => sem_num'.count = 0 /\ ~Opt!WillGiveNum(p)'
           /\ sem_num.count # 0 => sem_num'.count # 0 \/ Opt!WillGiveNum(p)'
<1> USE SameSemaphores
<1>1. /\ IsSemaphore(sem_num, Procs) /\ sem_num.count \in Nat
      /\ Waiting(sem_num) \subseteq AskedNum /\ IsSemaphore(sem_reader, Procs)
  BY DEF NumQueue, ReaderQueue, Queued, IsSemaphore
<1>2. \A q \in Procs \ {p} : Granted(sem_reader', q) <=> Granted(sem_reader, q)
  <2>1. CASE sem_reader' = sem_reader
    BY <2>1
  <2>2. CASE ~Granted(sem_reader, p) /\ sem_reader' = Cancel(sem_reader, p)
    <3>1. Waiting(sem_reader') = Waiting(sem_reader) \ {p}
      BY <1>1, <2>2, CancelEffect DEF Granted
    <3> QED BY <3>1 DEF Granted
  <2> QED BY <2>1, <2>2 DEF Quiet
<1>3. /\ \A q \in Procs \ {p} : Granted(sem_num', q) <=> Granted(sem_num, q)
      /\ sem_num.count = 0 => sem_num'.count = 0 /\ ~Opt!WillGiveNum(p)'
      /\ sem_num.count # 0 => sem_num'.count # 0 \/ Opt!WillGiveNum(p)'
  <2>1. CASE /\ p \notin AskedNum /\ sem_num' = Down(sem_num, p)
             /\ at'[p] \in {"num", "recheck", "undo", "leave"}
    <3>1. Granted(sem_num, p)
      BY <1>1, <2>1 DEF Granted
    <3>2. CASE sem_num.count = 0
      <4>1. sem_num'.count = 0 /\ Waiting(sem_num') = Waiting(sem_num) \cup {p}
        BY <1>1, <2>1, <3>1, <3>2, DownEffect
      <4> QED BY <2>1, <3>2, <4>1 DEF Granted, Opt!WillGiveNum
    <3>3. CASE sem_num.count # 0
      <4>1. sem_num.count > 0
        BY <1>1, <3>3
      <4>2. Waiting(sem_num') = Waiting(sem_num)
        BY <1>1, <2>1, <3>1, <4>1, DownEffect
      <4> QED BY <2>1, <3>1, <3>3, <4>2 DEF Granted, Opt!WillGiveNum
    <3> QED BY <3>2, <3>3
  <2>2. CASE ~Granted(sem_num, p) /\ sem_num' = Cancel(sem_num, p) /\ at'[p] = "out"
    <3>1. sem_num'.count = sem_num.count /\ Waiting(sem_num') = Waiting(sem_num) \ {p}
      BY <1>1, <2>2, CancelEffect DEF Granted
    <3> QED BY <2>2, <3>1 DEF Granted, Opt!WillGiveNum
  <2>3. CASE sem_num' = sem_num /\ at'[p] \in Opt!Inside
    BY <2>3 DEF Opt!WillGiveNum, Opt!Inside
  <2> QED BY <2>1, <2>2, <2>3 DEF Quiet
<1>4. \A q \in Procs \ {p} : at'[q] = at[q]
  BY DEF Quiet
<1>5. \A q \in Procs \ {p} : Opt!WillGiveNum(q)' <=> Opt!WillGiveNum(q)
  BY <1>2, <1>3, <1>4 DEF Opt!WillGiveNum
<1> QED BY <1>3, <1>5

(* An up() on sem_num leaves a unit or somebody who will give it back. *)
LEMMA GivenIsFound ==
    ASSUME OptTypes, NumQueue, NEW p \in Procs, OptCall(p), sem_num' = Up(sem_num),
           p \notin AskedNum \/ Granted(sem_num, p)
    PROVE  ~Opt!NumLost'
<1>1. CASE sem_num'.count > 0
  BY <1>1 DEF Opt!NumLost
<1>2. CASE \E h \in Waiting(sem_num) : Granted(sem_num', h)
  <2>1. PICK h \in AskedNum : h \in Waiting(sem_num) /\ Granted(sem_num', h)
    BY <1>2 DEF NumQueue, Queued
  <2>2. h \in Procs \ {p}
    BY <2>1 DEF AskedNum, Granted
  <2>3. at'[h] = at[h]
    BY <2>2, OthersAt DEF OptTypes
  <2>4. Opt!WillGiveNum(h)'
    BY SameSemaphores, <2>1, <2>3 DEF AskedNum, Opt!WillGiveNum
  <2> QED BY <2>2, <2>4 DEF Opt!NumLost
<1> QED BY <1>1, <1>2, QueuedUp DEF NumQueue

\* What NumLostForGood says of a step.
LosesNum ==
    /\ Opt!NumLost => Opt!NumLost' /\ UNCHANGED <<num_readers, even_odd, size>>
    /\ Opt!NumLost' => \/ Opt!NumLost
                       \/ \E p \in Procs :
                             \/ at[p] = "alloc" /\ at'[p] = "out"
                             \/ at'[p] = "dead"

LEMMA StepLosesNum ==
    ASSUME OptTypes, NumQueue, ReaderQueue, Opt!Next
    PROVE  LosesNum
<1>1. CASE Opt!WorkStep \/ \E l \in Lengths, t \in Thresholds : Opt!Generate(l, t)
  <2>1. UNCHANGED <<at, sem_num, sem_reader, num_readers, even_odd, size>>
    BY <1>1 DEF Opt!WorkStep, Opt!Generate, Opt!BeginWork, Opt!AskToAdd, Opt!AddCode, Opt!EndWork,
                Opt!entry, Opt!buffer
  <2> QED BY <2>1 DEF LosesNum, Opt!NumLost, Opt!WillGiveNum, Opt!Granted, Opt!Waiting
<1>2. ASSUME NEW p \in Procs, OptCall(p), Opt!WillGiveNum(p)
      PROVE  LosesNum
  <2>1. ~Opt!NumLost
    BY <1>2 DEF Opt!NumLost
  <2>2. CASE Opt!WillGiveNum(p)'
    BY <2>1, <2>2 DEF LosesNum, Opt!NumLost
  <2>3. CASE sem_num' = Up(sem_num) /\ at[p] \notin {"num", "undo", "leave"}
    <3>1. p \notin AskedNum \/ Granted(sem_num, p)
      BY SameSemaphores, <1>2, <2>3 DEF AskedNum, Opt!WillGiveNum
    <3> QED BY <1>2, <2>1, <2>3, <3>1, GivenIsFound DEF LosesNum
  <2>4. CASE (at[p] = "alloc" /\ at'[p] = "out") \/ at'[p] = "dead"
    BY <2>1, <2>4 DEF LosesNum
  <2> QED BY <1>2, <2>2, <2>3, <2>4, HolderMoves
<1>3. ASSUME NEW p \in Procs, OptCall(p), ~Opt!WillGiveNum(p)
      PROVE  LosesNum
  <2>1. Quiet(p)
    BY <1>3, OthersQuiet
  <2>2. /\ \A q \in Procs \ {p} : Opt!WillGiveNum(q)' <=> Opt!WillGiveNum(q)
        /\ sem_num.count = 0 => sem_num'.count = 0 /\ ~Opt!WillGiveNum(p)'
        /\ sem_num.count # 0 => sem_num'.count # 0 \/ Opt!WillGiveNum(p)'
    BY <2>1, QuietEffect
  <2>3. Opt!NumLost' <=> Opt!NumLost
    BY <1>3, <2>2 DEF Opt!NumLost
  <2> QED BY <2>1, <2>3 DEF LosesNum, Quiet
<1> QED BY <1>1, <1>2, <1>3 DEF Opt!Next, OptCall

(* sem_num is lost only by an open that cannot allocate (239) or that add_timer
   stops, and then nobody is counted in or out any more. *)
THEOREM NumIsLost == Opt!CodeOptAssumption /\ Opt!Spec => Opt!NumLostForGood
<1>1. OptInv /\ [Opt!Next]_(Opt!vars) => [LosesNum]_(Opt!vars)
  BY StepLosesNum DEF OptInv
<1> QED BY <1>1, OptInvHolds, PTL DEF Opt!Spec, Opt!NumLostForGood, LosesNum
-----------------------------------------------------------------------------
(* The two streams                                                         *)

\* The codes that go to list i, in their order.
Only(codes, i) == Opt!Among(codes, Opt!Parity(i))

(* Among is the same in both modules. *)
LEMMA OnlyIs == \A codes, i : Only(codes, i) = Among(codes, Opt!Parity(i))
  BY DEF Only, Opt!Among, Among

(* A code is among them by its parity. *)
LEMMA OwnParity ==
    ASSUME NEW l \in Lengths, NEW i \in 0..1
    PROVE  l \in Opt!Parity(i) <=> l % 2 = i
  BY DEF Opt!Parity

(* Of the codes of one parity all are among them, or none. *)
LEMMA OnlyOwn ==
    ASSUME NEW codes \in Seq(Lengths), NEW i \in 0..1, NEW j \in 0..1,
           \A k \in 1..Len(codes) : codes[k] % 2 = j
    PROVE  Only(codes, i) = IF i = j THEN codes ELSE <<>>
<1>1. \A k \in 1..Len(codes) : codes[k] \in Opt!Parity(i) <=> i = j
  <2> TAKE k \in 1..Len(codes)
  <2>1. codes[k] \in Lengths /\ codes[k] % 2 = j
    BY ElementOfSeq
  <2> QED BY <2>1, OwnParity
<1>2. CASE i = j
  BY <1>1, <1>2, AmongAll, OnlyIs
<1>3. CASE i # j
  BY <1>1, <1>3, AmongNone, OnlyIs
<1> QED BY <1>2, <1>3

\* The stream of the codes of parity i, and what may happen to it.
QueueOf(i) == list[i] \o Only(hand, i) \o Only(ring, i)
GotOf(i) == [p \in Procs |-> Only(got[p], i)]

Puts(i, c) == QueueOf(i)' = Append(QueueOf(i), c) /\ UNCHANGED GotOf(i)
Takes(i, p) ==
    /\ GotOf(i)[p] = <<>>
    /\ \E n \in 1..Len(QueueOf(i)) :
          /\ GotOf(i)' = [GotOf(i) EXCEPT ![p] = SubSeq(QueueOf(i), 1, n)]
          /\ QueueOf(i)' = SubSeq(QueueOf(i), n + 1, Len(QueueOf(i)))
Returns(i, p) == GotOf(i)' = [GotOf(i) EXCEPT ![p] = <<>>] /\ UNCHANGED QueueOf(i)
Loses(i) ==
    /\ \E j \in 1..(Len(QueueOf(i)) + 1), k \in 0..Len(QueueOf(i)) :
          QueueOf(i)' = SubSeq(QueueOf(i), j, k)
    /\ UNCHANGED GotOf(i)

StreamStep(i) ==
    \/ \E c \in Opt!Parity(i) : Puts(i, c)
    \/ \E p \in Procs : Takes(i, p) \/ Returns(i, p)
    \/ Loses(i)
    \/ UNCHANGED QueueOf(i) /\ UNCHANGED GotOf(i)

(* The parts of a queue and their sum are sequences of codes. *)
LEMMA QueueParts ==
    ASSUME OptTypes, NEW i \in 0..1
    PROVE  /\ list[i] \in Seq(Lengths)
           /\ Only(hand, i) \in Seq(Lengths) /\ Only(ring, i) \in Seq(Lengths)
           /\ list[i] \o Only(hand, i) \in Seq(Lengths)
           /\ Only(hand, i) \o Only(ring, i) \in Seq(Lengths)
           /\ QueueOf(i) \in Seq(Lengths)
           /\ QueueOf(i) = list[i] \o (Only(hand, i) \o Only(ring, i))
<1>1. /\ list[i] \in Seq(Lengths)
      /\ Only(hand, i) \in Seq(Lengths) /\ Only(ring, i) \in Seq(Lengths)
  BY AmongType, OnlyIs DEF OptTypes
<1>2. /\ list[i] \o Only(hand, i) \in Seq(Lengths)
      /\ Only(hand, i) \o Only(ring, i) \in Seq(Lengths)
  BY <1>1, ConcatProperties
<1>3. QueueOf(i) \in Seq(Lengths)
  BY <1>1, <1>2, ConcatProperties DEF QueueOf
<1>4. QueueOf(i) = list[i] \o (Only(hand, i) \o Only(ring, i))
  <2>1. \A a \in Seq(Lengths), b \in Seq(Lengths), c \in Seq(Lengths) :
           (a \o b) \o c = a \o (b \o c)
    BY ConcatAssociative
  <2> QED BY <1>1, <2>1, Zenon DEF QueueOf
<1> QED BY <1>1, <1>2, <1>3, <1>4

\* t is the sequence q, or what is left of it without some at either end.
IsPart(t, q) == \E j \in 1..(Len(q) + 1), k \in 0..Len(q) : t = SubSeq(q, j, k)

(* What a queue of three parts has in the middle. *)
LEMMA MiddleOf ==
    ASSUME NEW S, NEW a \in Seq(S), NEW b \in Seq(S), NEW c \in Seq(S)
    PROVE  IsPart(b, (a \o b) \o c)
<1> DEFINE q == (a \o b) \o c
<1> SUFFICES IsPart(b, q)
  OBVIOUS
<1> USE DEF IsPart
<1>1. /\ Len(a) \in Nat /\ Len(b) \in Nat /\ Len(c) \in Nat
      /\ a \o b \in Seq(S) /\ Len(a \o b) = Len(a) + Len(b)
  BY LenProperties, ConcatProperties
<1>2. q \in Seq(S) /\ Len(q) = Len(a) + Len(b) + Len(c)
  BY <1>1, ConcatProperties
<1>3. CASE Len(b) = 0
  <2>1. b = <<>> /\ SubSeq(q, 1, 0) = <<>>
    BY <1>3, EmptySeq, SubSeqEmpty
  <2>2. 1 \in 1..(Len(q) + 1) /\ 0 \in 0..Len(q)
    BY <1>1, <1>2
  <2> QED BY <2>1, <2>2
<1>4. CASE Len(b) > 0
  <2>1. SubSeq(q, Len(a) + 1, Len(a) + Len(b)) = SubSeq(a \o b, Len(a) + 1, Len(a) + Len(b))
    BY <1>1, <1>4, SubSeqOfConcat1
  <2>2. SubSeq(a \o b, Len(a) + 1, Len(a) + Len(b)) = b
    BY <1>1, BackOf
  <2>3. Len(a) + 1 \in 1..(Len(q) + 1) /\ Len(a) + Len(b) \in 0..Len(q)
    BY <1>1, <1>2
  <2>4. b = SubSeq(q, Len(a) + 1, Len(a) + Len(b))
    BY <2>1, <2>2
  <2> HIDE DEF q
  <2> QED BY <2>3, <2>4
<1>5. Len(b) = 0 \/ Len(b) > 0
  BY <1>1
<1> HIDE DEF q
<1> QED BY <1>3, <1>4, <1>5

(* The lists and the ring are freed together. *)
LEMMA AllLost ==
    ASSUME OptTypes, NEW i \in 0..1, list'[i] = <<>>, ring' = <<>>, UNCHANGED <<hand, got>>
    PROVE  Loses(i)
<1> DEFINE a == list[i]
           b == Only(hand, i)
           c == Only(ring, i)
<1>1. a \in Seq(Lengths) /\ b \in Seq(Lengths) /\ c \in Seq(Lengths) /\ QueueOf(i) = (a \o b) \o c
  BY QueueParts DEF QueueOf
<1>2. QueueOf(i)' = b
  <2>1. Only(hand, i)' = b /\ Only(ring, i)' = <<>>
    BY AmongEmpty, OnlyIs
  <2> HIDE DEF b
  <2>2. (<<>> \o b) \o <<>> = b
    BY <1>1, ConcatEmptySeq
  <2> QED BY <2>1, <2>2 DEF QueueOf
<1> HIDE DEF a, b, c
<1>3. IsPart(b, (a \o b) \o c)
  BY <1>1, MiddleOf
<1>4. IsPart(b, QueueOf(i))
  BY <1>1, <1>3
<1> QED BY <1>2, <1>4 DEF Loses, IsPart, GotOf

(* The ring alone is lost when it cannot be allocated. *)
LEMMA OptRingLost ==
    ASSUME OptTypes, NEW i \in 0..1, ring' = <<>>, UNCHANGED <<list, hand, got>>
    PROVE  Loses(i)
<1> DEFINE a == list[i] \o Only(hand, i)
           c == Only(ring, i)
<1>1. a \in Seq(Lengths) /\ c \in Seq(Lengths) /\ QueueOf(i) = a \o c
  BY QueueParts DEF QueueOf
<1>2. QueueOf(i)' = a
  <2>1. QueueOf(i)' = a \o <<>>
    BY AmongEmpty, OnlyIs DEF QueueOf
  <2> HIDE DEF a
  <2> QED BY <1>1, <2>1, ConcatEmptySeq
<1> HIDE DEF a, c
<1>3. a = SubSeq(QueueOf(i), 1, Len(a))
  BY <1>1, FrontOf
<1>4. Len(a) \in 0..Len(QueueOf(i)) /\ 1 \in 1..(Len(QueueOf(i)) + 1)
  BY <1>1, ConcatProperties, LenProperties
<1> QED BY <1>2, <1>3, <1>4 DEF Loses, GotOf

(* A reader takes the whole of its list, and nothing of the other. *)
LEMMA OptDrainTakes ==
    ASSUME OptTypes, OptHands, ListParity, NEW p \in Procs, Opt!Drain(p), NEW i \in 0..1
    PROVE  StreamStep(i)
<1> DEFINE m == Opt!Mine(p)
           t == Only(hand, i) \o Only(ring, i)
<1>1. /\ m \in 0..1 /\ at[p] = "list" /\ list[m] # <<>> /\ UNCHANGED <<hand, ring>>
      /\ got' = [got EXCEPT ![p] = list[m]] /\ list' = [list EXCEPT ![m] = <<>>]
  BY DEF Opt!Drain, Opt!OwnsList, Opt!Mine, Opt!buffer, Opt!worker
<1>2. got[p] = <<>> /\ list[m] \in Seq(Lengths)
  BY <1>1 DEF OptHands, OptTypes
<1>3. GotOf(i)[p] = <<>>
  BY <1>2, AmongEmpty, OnlyIs DEF GotOf
<1> HIDE DEF m
<1>4. Only(list[m], i) = IF i = m THEN list[m] ELSE <<>>
  BY <1>1, <1>2, OnlyOwn DEF ListParity
<1>5. GotOf(i)' = [GotOf(i) EXCEPT ![p] = IF i = m THEN list[m] ELSE <<>>]
  <2>1. \A q \in Procs : got'[q] = IF q = p THEN list[m] ELSE got[q]
    BY <1>1 DEF OptTypes
  <2>2. \A q \in Procs : Only(got[q], i)'
            = IF q = p THEN IF i = m THEN list[m] ELSE <<>> ELSE Only(got[q], i)
    BY <1>4, <2>1
  <2> QED BY <2>2 DEF GotOf
<1>6. CASE i # m
  <2>1. UNCHANGED QueueOf(i)
    BY <1>1, <1>6 DEF QueueOf, OptTypes
  <2>2. UNCHANGED GotOf(i)
    BY <1>3, <1>5, <1>6 DEF GotOf
  <2> QED BY <2>1, <2>2 DEF StreamStep
<1>7. CASE i = m
  <2>1. /\ list[i] \in Seq(Lengths) /\ t \in Seq(Lengths) /\ QueueOf(i) = list[i] \o t
    BY QueueParts
  <2>2. QueueOf(i)' = t
    <3>1. /\ Only(hand, i) \in Seq(Lengths) /\ list'[i] = <<>>
      BY <1>1, <1>7, QueueParts DEF OptTypes
    <3>2. <<>> \o Only(hand, i) = Only(hand, i)
      BY <3>1, ConcatEmptySeq
    <3> QED BY <1>1, <3>1, <3>2 DEF QueueOf
  <2> HIDE DEF t
  <2>3. /\ list[i] = SubSeq(QueueOf(i), 1, Len(list[i]))
        /\ t = SubSeq(QueueOf(i), Len(list[i]) + 1, Len(QueueOf(i)))
    BY <2>1, FrontOf, BackOf
  <2>4. Len(list[i]) \in 1..Len(QueueOf(i))
    <3>1. /\ Len(list[i]) \in Nat \ {0} /\ Len(t) \in Nat
          /\ Len(QueueOf(i)) = Len(list[i]) + Len(t)
      BY <1>1, <1>7, <2>1, EmptySeq, LenProperties, ConcatProperties
    <3> QED BY <3>1
  <2>5. Takes(i, p)
    BY <1>3, <1>5, <1>7, <2>2, <2>3, <2>4 DEF Takes
  <2> QED BY <2>5 DEF StreamStep
<1> QED BY <1>6, <1>7

(* A tick puts a code of parity i last in queue i, if the ring has room. *)
LEMMA GeneratePuts ==
    ASSUME Opt!CodeOptAssumption, OptTypes, NEW l \in Lengths, NEW t \in Thresholds,
           Opt!Generate(l, t), NEW i \in 0..1
    PROVE  StreamStep(i)
<1>1. UNCHANGED <<list, hand, got>> /\ ring' \in {ring, Append(ring, l)}
  BY DEF Opt!Generate, Opt!Filled, Opt!lists
<1>2. CASE ring' = ring
  <2>1. UNCHANGED QueueOf(i) /\ UNCHANGED GotOf(i)
    BY <1>1, <1>2 DEF QueueOf, GotOf
  <2> QED BY <2>1 DEF StreamStep
<1>3. CASE ring' = Append(ring, l)
  <2>1. Only(ring, i)' = Keep(Only(ring, i), l, Opt!Parity(i))
    BY <1>3, AmongAppend, OnlyIs DEF OptTypes
  <2>2. UNCHANGED GotOf(i)
    BY <1>1 DEF GotOf
  <2>3. CASE l % 2 = i
    <3>1. QueueOf(i)' = (list[i] \o Only(hand, i)) \o Append(Only(ring, i), l)
      BY <1>1, <2>1, <2>3, OwnParity DEF QueueOf, Keep
    <3>2. QueueOf(i)' = Append(QueueOf(i), l)
      <4>1. \A s \in Seq(Lengths), u \in Seq(Lengths), c \in Lengths :
               s \o Append(u, c) = Append(s \o u, c)
        BY LastOfLast
      <4>2. /\ list[i] \o Only(hand, i) \in Seq(Lengths)
            /\ Only(ring, i) \in Seq(Lengths)
        BY QueueParts
      <4> QED BY <3>1, <4>1, <4>2, Zenon DEF QueueOf
    <3> QED BY <2>2, <2>3, <3>2, OwnParity DEF StreamStep, Puts
  <2>4. CASE l % 2 # i
    <3>1. UNCHANGED QueueOf(i)
      BY <1>1, <2>1, <2>4, OwnParity DEF QueueOf, Keep
    <3> QED BY <2>2, <3>1 DEF StreamStep
  <2> QED BY <2>3, <2>4
<1> QED BY <1>1, <1>2, <1>3

(* The work item moves codes from part to part. *)
LEMMA WorkMoves ==
    ASSUME Opt!CodeOptAssumption, OptTypes, OptHands, Opt!WorkStep, NEW i \in 0..1
    PROVE  UNCHANGED QueueOf(i) /\ UNCHANGED GotOf(i)
<1>1. CASE Opt!AskToAdd \/ Opt!EndWork
  BY <1>1 DEF Opt!AskToAdd, Opt!EndWork, Opt!buffer, QueueOf, GotOf
<1>2. CASE Opt!BeginWork
  <2>1. /\ hand = <<>> /\ hand' = ring /\ ring' = <<>> /\ UNCHANGED <<list, got>>
    BY <1>2 DEF Opt!BeginWork, OptHands, Opt!lists
  <2>2. /\ Only(hand, i) = <<>> /\ Only(hand, i)' = Only(ring, i)
        /\ Only(ring, i)' = <<>>
    BY <2>1, AmongEmpty, OnlyIs
  <2>3. QueueOf(i) = (list[i] \o <<>>) \o Only(ring, i)
        /\ QueueOf(i)' = (list[i] \o Only(ring, i)) \o <<>>
    BY <2>1, <2>2 DEF QueueOf
  <2>4. /\ list[i] \o <<>> = list[i]
        /\ (list[i] \o Only(ring, i)) \o <<>> = list[i] \o Only(ring, i)
    <3>1. /\ list[i] \in Seq(Lengths) /\ Only(ring, i) \in Seq(Lengths)
          /\ list[i] \o Only(ring, i) \in Seq(Lengths)
      BY QueueParts, ConcatProperties
    <3> QED BY <3>1, ConcatEmptySeq
  <2> QED BY <2>1, <2>3, <2>4 DEF GotOf
<1>3. CASE Opt!AddCode
  <2> DEFINE h == Head(hand)
  <2>1. /\ hand # <<>> /\ hand' = Tail(hand) /\ UNCHANGED <<ring, got>>
        /\ list' = [list EXCEPT ![h % 2] = Append(@, h)]
    BY <1>3 DEF Opt!AddCode, OptHands, Opt!buffer
  <2>2. /\ h \in Lengths /\ Tail(hand) \in Seq(Lengths) /\ h % 2 \in 0..1
    <3>1. h \in Lengths /\ Tail(hand) \in Seq(Lengths)
      BY <2>1, HeadTailProperties DEF OptTypes
    <3> QED BY <3>1, ParityIs
  <2>3. /\ Only(hand, i) = Keep(<<>>, h, Opt!Parity(i)) \o Only(Tail(hand), i)
        /\ Only(Tail(hand), i) \in Seq(Lengths)
    BY <2>1, <2>2, AmongHead, AmongType, OnlyIs DEF OptTypes
  <2>4. Only(hand, i)' = Only(Tail(hand), i)
    BY <2>1
  <2> HIDE DEF h
  <2>5. list'[i] \o Only(Tail(hand), i) = list[i] \o Only(hand, i)
    <3>1. list[i] \in Seq(Lengths)
      BY DEF OptTypes
    <3>2. CASE h % 2 = i
      <4>1. list'[i] = Append(list[i], h) /\ Keep(<<>>, h, Opt!Parity(i)) = <<h>>
        <5>1. Keep(<<>>, h, Opt!Parity(i)) = Append(<<>>, h)
          BY <2>2, <3>2, OwnParity DEF Keep
        <5> QED BY <2>1, <3>2, <5>1 DEF OptTypes
      <4>2. Append(list[i], h) = list[i] \o <<h>> /\ <<h>> \in Seq(Lengths)
        BY <2>2, <3>1, AppendIsConcat
      <4>3. \A a \in Seq(Lengths), b \in Seq(Lengths), c \in Seq(Lengths) :
               (a \o b) \o c = a \o (b \o c)
        BY ConcatAssociative
      <4>4. (list[i] \o <<h>>) \o Only(Tail(hand), i)
               = list[i] \o (<<h>> \o Only(Tail(hand), i))
        BY <2>3, <3>1, <4>2, <4>3, Zenon
      <4> QED BY <2>3, <4>1, <4>2, <4>4, Zenon
    <3>3. CASE h % 2 # i
      <4>1. list'[i] = list[i] /\ Keep(<<>>, h, Opt!Parity(i)) = <<>>
        BY <2>1, <2>2, <3>3, OwnParity DEF OptTypes, Keep
      <4>2. <<>> \o Only(Tail(hand), i) = Only(Tail(hand), i)
        BY <2>3, ConcatEmptySeq
      <4> QED BY <2>3, <4>1, <4>2
    <3> QED BY <3>2, <3>3
  <2> QED BY <2>1, <2>4, <2>5 DEF QueueOf, GotOf
<1> QED BY <1>1, <1>2, <1>3 DEF Opt!WorkStep

(* Every step of the code is a step of each stream, or changes nothing in it. *)
LEMMA StepStreams ==
    ASSUME Opt!CodeOptAssumption, OptTypes, OptHands, ListParity, Opt!Next, NEW i \in 0..1
    PROVE  StreamStep(i)
<1> USE DEF Opt!entry, Opt!buffer, Opt!worker, Opt!lists
<1>1. CASE UNCHANGED <<list, hand, ring, got>>
  <2>1. UNCHANGED QueueOf(i) /\ UNCHANGED GotOf(i)
    BY <1>1 DEF QueueOf, GotOf
  <2> QED BY <2>1 DEF StreamStep
<1>2. ASSUME NEW p \in Procs, OptCall(p)
      PROVE  StreamStep(i)
  <2>1. CASE Opt!FailToAlloc(p)
    <3>1. ring' = <<>> /\ UNCHANGED <<list, hand, got>>
      BY <2>1 DEF Opt!FailToAlloc
    <3> QED BY <3>1, OptRingLost DEF StreamStep
  <2>2. CASE Opt!Alloc(p) \/ Opt!FreeAll(p)
    <3>1. list'[i] = <<>> /\ ring' = <<>> /\ UNCHANGED <<hand, got>>
      BY <2>2 DEF Opt!Alloc, Opt!FreeAll
    <3> QED BY <3>1, AllLost DEF StreamStep
  <2>3. CASE Opt!Drain(p)
    BY <2>3, OptDrainTakes
  <2>4. CASE Opt!Return(p)
    <3>1. got' = [got EXCEPT ![p] = <<>>] /\ UNCHANGED <<list, hand, ring>>
      BY <2>4 DEF Opt!Return
    <3>2. \A q \in Procs : Only(got[q], i)' = IF q = p THEN <<>> ELSE Only(got[q], i)
      BY <3>1, AmongEmpty, OnlyIs DEF OptTypes
    <3>3. GotOf(i)' = [GotOf(i) EXCEPT ![p] = <<>>] /\ UNCHANGED QueueOf(i)
      BY <3>1, <3>2 DEF GotOf, QueueOf
    <3> QED BY <3>3 DEF StreamStep, Returns
  <2>5. CASE \/ Opt!CallOpen(p) \/ Opt!LoadNum(p) \/ Opt!Count(p) \/ Opt!Check(p)
             \/ Opt!Recheck(p) \/ Opt!Arm(p) \/ Opt!Assign(p) \/ Opt!Bump(p) \/ Opt!Undo(p)
             \/ Opt!InterruptNum(p) \/ Opt!InterruptReader(p)
    BY <1>1, <2>5 DEF Opt!CallOpen, Opt!LoadNum, Opt!Count, Opt!Check, Opt!Recheck, Opt!Arm,
                      Opt!Assign, Opt!Bump, Opt!Undo, Opt!InterruptNum, Opt!InterruptReader
  <2>6. CASE \/ Opt!CallRead(p) \/ Opt!FindEmpty(p) \/ Opt!Sleep(p) \/ Opt!Relock(p)
             \/ Opt!InterruptRead(p) \/ Opt!CallRelease(p) \/ Opt!Uncount(p)
             \/ Opt!StopTimer(p) \/ Opt!Leave(p)
    BY <1>1, <2>6 DEF Opt!CallRead, Opt!FindEmpty, Opt!Sleep, Opt!Relock, Opt!InterruptRead,
                      Opt!CallRelease, Opt!Uncount, Opt!StopTimer, Opt!Leave
  <2> QED BY <1>2, <2>1, <2>2, <2>3, <2>4, <2>5, <2>6
          DEF OptCall, Opt!OpenStep, Opt!ReadStep, Opt!ReleaseStep
<1>3. CASE Opt!WorkStep
  BY <1>3, WorkMoves DEF StreamStep
<1>4. CASE \E l \in Lengths, t \in Thresholds : Opt!Generate(l, t)
  BY <1>4, GeneratePuts
<1> QED BY <1>2, <1>3, <1>4 DEF Opt!Next, OptCall

(* Each list is a stream of its own, whatever its readers do to each other. *)
THEOREM AreStreams == Opt!CodeOptAssumption /\ Opt!Spec => Opt!ImplementsStreams
<1> USE DEF QueueOf, GotOf, Only
<1>1. Opt!CodeOptAssumption /\ Opt!Init => Opt!Even!Init /\ Opt!Odd!Init
  <2> SUFFICES ASSUME Opt!Init
               PROVE  Opt!Even!Init /\ Opt!Odd!Init
    OBVIOUS
  <2>1. (<<>> \o <<>>) \o <<>> = <<>>
    BY EmptySeq, ConcatEmptySeq
  <2>2. Only(<<>>, 0) = <<>> /\ Only(<<>>, 1) = <<>>
    BY AmongEmpty, OnlyIs
  <2>3. QueueOf(0) = <<>> /\ QueueOf(1) = <<>>
    BY <2>1, <2>2 DEF Opt!Init
  <2>4. GotOf(0) = [p \in Procs |-> <<>>] /\ GotOf(1) = [p \in Procs |-> <<>>]
    BY <2>2 DEF Opt!Init
  <2> QED BY <2>3, <2>4 DEF Opt!Even!Init, Opt!Odd!Init
<1>2. StreamStep(0) => [Opt!Even!Next]_(Opt!Even!vars)
  BY DEF StreamStep, Puts, Takes, Returns, Loses, Opt!Even!Next, Opt!Even!Put, Opt!Even!Take,
         Opt!Even!Return, Opt!Even!Lose, Opt!Even!vars
<1>3. StreamStep(1) => [Opt!Odd!Next]_(Opt!Odd!vars)
  BY DEF StreamStep, Puts, Takes, Returns, Loses, Opt!Odd!Next, Opt!Odd!Put, Opt!Odd!Take,
         Opt!Odd!Return, Opt!Odd!Lose, Opt!Odd!vars
<1>4. Opt!CodeOptAssumption /\ OptInv /\ [Opt!Next]_(Opt!vars)
        => StreamStep(0) /\ StreamStep(1)
  <2>1. CASE UNCHANGED Opt!vars
    <3>1. UNCHANGED <<list, hand, ring, got>>
      BY <2>1 DEF Opt!vars, Opt!lists, Opt!buffer, Opt!worker
    <3>2. /\ UNCHANGED QueueOf(0) /\ UNCHANGED GotOf(0)
          /\ UNCHANGED QueueOf(1) /\ UNCHANGED GotOf(1)
      BY <3>1
    <3> HIDE DEF QueueOf, GotOf
    <3> QED BY <3>2 DEF StreamStep
  <2>2. CASE Opt!CodeOptAssumption /\ OptInv /\ Opt!Next
    BY <2>2, StepStreams DEF OptInv
  <2> QED BY <2>1, <2>2
<1>5. Opt!CodeOptAssumption => []Opt!CodeOptAssumption
  OBVIOUS
<1> QED BY <1>1, <1>2, <1>3, <1>4, <1>5, OptInvHolds, PTL
        DEF Opt!Spec, Opt!ImplementsStreams, Opt!Even!Spec, Opt!Odd!Spec
=============================================================================
