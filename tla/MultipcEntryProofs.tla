-------------------------- MODULE MultipcEntryProofs --------------------------
(***************************************************************************)
(* Proofs about one entry of /proc/multipc, for any number of processes,   *)
(* of blocks and of slots.                                                 *)
(*                                                                         *)
(* The argument keeps the books of the three semaphores.  Each statement   *)
(* of test_write and test_read decides which units the process that is     *)
(* about to execute it holds, so the label of a process is enough to know  *)
(* them, except while the process may still be queued.  The inductive      *)
(* invariant says that the books always balance: the free slots and the    *)
(* full ones add up to the ring's length, and mtx is one unit.             *)
(*                                                                         *)
(* A second invariant says who owns each block, a call or a slot between   *)
(* the ring's two indices; with it the contents of the ring are the queue  *)
(* of BoundedChannel, and every step is one of the channel's or none.      *)
(***************************************************************************)
EXTENDS MultipcEntry, CommonLemmas

\* The processes about to execute one of the statements L.
At(L) == {p \in Proc : pc[p] \in L}

\* The statements before which a unit of each semaphore is held, or awaited.
HuecoLabels == {"huecos", "wmtx", "wundo", "advance_in", "runlock", "rsignal"}
ElementoLabels ==
    {"elementos", "rmtx", "rundo", "advance_out", "wunlock", "wsignal"}
MtxLabels == {"wmtx", "rmtx", "advance_in", "wunlock", "advance_out", "runlock"}

DataOK ==
    /\ pc \in [Proc -> Labels]
    /\ val \in [Proc -> Pointers]
    /\ cbuf \in [in : Index, out : Index, data : [0..(max_size - 1) -> Pointers]]

HuecosBalance ==
    Ledger(huecos, Proc, At({"huecos"}), At(HuecoLabels), max_size - Used(cbuf))
ElementosBalance ==
    Ledger(elementos, Proc, At({"elementos"}), At(ElementoLabels), Used(cbuf))
MtxBalance ==
    Ledger(mtx, Proc, At({"wmtx", "rmtx"}), At(MtxLabels), 1)

\* The inductive invariant.
Inv ==
    /\ DataOK
    /\ HuecosBalance
    /\ ElementosBalance
    /\ MtxBalance
-----------------------------------------------------------------------------
(* The ring                                                                *)

Ring == [in : Index, out : Index, data : [0..(max_size - 1) -> Pointers]]

(* kfifo_len is between nothing and the range of the indices. *)
LEMMA UsedType ==
    ASSUME NEW f \in Ring
    PROVE  Used(f) \in Nat /\ Used(f) < IndexWrap
<1>1. f.in \in Index /\ f.out \in Index
  BY DEF Ring
<1> QED BY <1>1, RingAssumption DEF Used, Index

(* Copying an item into the ring does not change its length. *)
LEMMA CopyInEffect ==
    ASSUME NEW f \in Ring, NEW b \in Pointers
    PROVE  CopyIn(f, b) \in Ring /\ Used(CopyIn(f, b)) = Used(f)
<1>1. /\ CopyIn(f, b).in = f.in /\ CopyIn(f, b).out = f.out
      /\ CopyIn(f, b) \in Ring
  BY DEF Ring, CopyIn
<1> QED BY <1>1 DEF Used

(* Moving the index in makes a ring with room one item longer. *)
LEMMA AdvanceInEffect ==
    ASSUME NEW f \in Ring
    PROVE  /\ AdvanceIn(f) \in Ring
           /\ HasRoom(f) => Used(AdvanceIn(f)) = Used(f) + 1
<1>1. f.in \in Index /\ f.out \in Index
  BY DEF Ring
<1>2. NextIndex(f.in) \in Index
  BY <1>1, RingAssumption DEF Index, NextIndex
<1>3. AdvanceIn(f).in = NextIndex(f.in) /\ AdvanceIn(f).out = f.out
  BY DEF Ring, AdvanceIn
<1>4. AdvanceIn(f) \in Ring
  BY <1>2 DEF Ring, AdvanceIn
<1>5. HasRoom(f) => Used(AdvanceIn(f)) = Used(f) + 1
  BY <1>1, <1>3, RingAssumption DEF Index, NextIndex, Used, HasRoom
<1> QED BY <1>4, <1>5

(* Moving the index out makes a ring with an item one item shorter. *)
LEMMA AdvanceOutEffect ==
    ASSUME NEW f \in Ring
    PROVE  /\ AdvanceOut(f) \in Ring
           /\ HasItem(f) => Used(AdvanceOut(f)) = Used(f) - 1
<1>1. f.in \in Index /\ f.out \in Index
  BY DEF Ring
<1>2. NextIndex(f.out) \in Index
  BY <1>1, RingAssumption DEF Index, NextIndex
<1>3. AdvanceOut(f).in = f.in /\ AdvanceOut(f).out = NextIndex(f.out)
  BY DEF Ring, AdvanceOut
<1>4. AdvanceOut(f) \in Ring
  BY <1>2 DEF Ring, AdvanceOut
<1>5. HasItem(f) => Used(AdvanceOut(f)) = Used(f) - 1
  BY <1>1, <1>3, RingAssumption DEF Index, NextIndex, Used, HasItem
<1> QED BY <1>4, <1>5

(* The slot that kfifo_out reads holds a pointer. *)
LEMMA OldestItemType ==
    ASSUME NEW f \in Ring
    PROVE  OldestItem(f) \in Pointers
<1>1. f.out \in Nat
  BY RingAssumption DEF Ring, Index
<1>2. f.out % max_size \in 0..(max_size - 1)
  BY <1>1, RingAssumption
<1> QED BY <1>2 DEF Ring, OldestItem, Slot
-----------------------------------------------------------------------------
(* Moving from one statement to another                                    *)

(* A step of p moves p, and only p, in or out of the sets of labels. *)
LEMMA Moves ==
    ASSUME DataOK, NEW p \in Proc, NEW from, NEW to \in Labels,
           Goto(p, from, to), NEW L
    PROVE  /\ pc' \in [Proc -> Labels]
           /\ to \in L => At(L)' = At(L) \cup {p}
           /\ to \notin L => At(L)' = At(L) \ {p}
           /\ p \in At(L) <=> from \in L
<1>1. pc \in [Proc -> Labels] /\ pc[p] = from /\ pc' = [pc EXCEPT ![p] = to]
  BY DEF DataOK, Goto
<1>2. \A q \in Proc : pc'[q] = IF q = p THEN to ELSE pc[q]
  BY <1>1
<1>3. pc' \in [Proc -> Labels]
  BY <1>1
<1>4. At(L)' = {q \in Proc : pc'[q] \in L}
  BY DEF At
<1> QED BY <1>1, <1>2, <1>3, <1>4 DEF At

(* A process that stays in a set of labels, or out of it, leaves it alone. *)
LEMMA Stays ==
    ASSUME DataOK, NEW p \in Proc, NEW from, NEW to \in Labels,
           Goto(p, from, to), NEW L, from \in L <=> to \in L
    PROVE  At(L)' = At(L)
  BY Moves

(* The books of a semaphore stay as they are when the process that moves
   neither takes, waits for, nor gives back a unit of it. *)
LEMMA HuecosBalanceStays ==
    ASSUME Inv, NEW p \in Proc, NEW from, NEW to \in Labels, Goto(p, from, to),
           from \in {"huecos"} <=> to \in {"huecos"},
           from \in HuecoLabels <=> to \in HuecoLabels,
           huecos' = huecos, Used(cbuf') = Used(cbuf)
    PROVE  HuecosBalance'
<1>1. At({"huecos"})' = At({"huecos"}) /\ At(HuecoLabels)' = At(HuecoLabels)
  BY Stays DEF Inv
<1> QED BY <1>1 DEF Inv, HuecosBalance

LEMMA ElementosBalanceStays ==
    ASSUME Inv, NEW p \in Proc, NEW from, NEW to \in Labels, Goto(p, from, to),
           from \in {"elementos"} <=> to \in {"elementos"},
           from \in ElementoLabels <=> to \in ElementoLabels,
           elementos' = elementos, Used(cbuf') = Used(cbuf)
    PROVE  ElementosBalance'
<1>1. At({"elementos"})' = At({"elementos"}) /\ At(ElementoLabels)' = At(ElementoLabels)
  BY Stays DEF Inv
<1> QED BY <1>1 DEF Inv, ElementosBalance

LEMMA MtxBalanceStays ==
    ASSUME Inv, NEW p \in Proc, NEW from, NEW to \in Labels, Goto(p, from, to),
           from \in {"wmtx", "rmtx"} <=> to \in {"wmtx", "rmtx"},
           from \in MtxLabels <=> to \in MtxLabels,
           mtx' = mtx
    PROVE  MtxBalance'
<1>1. At({"wmtx", "rmtx"})' = At({"wmtx", "rmtx"}) /\ At(MtxLabels)' = At(MtxLabels)
  BY Stays DEF Inv
<1> QED BY <1>1 DEF Inv, MtxBalance

-----------------------------------------------------------------------------
(* Every statement keeps the books                                         *)

(* Every statement of test_write keeps the books. *)
LEMMA WriteCallKeepsInv ==
    ASSUME Inv, NEW p \in Proc,
           BeginWrite(p) \/ InterruptHuecos(p) \/ WriteLock(p)
             \/ InterruptWriteLock(p) \/ UndoHuecos(p)
             \/ KfifoInCopy(p) \/ KfifoInAdvance(p) \/ WriteUnlock(p)
             \/ SignalElementos(p)
    PROVE  Inv'
<1> USE EntryAssumption
<1>1. CASE BeginWrite(p)
  <2>1. Goto(p, "idle", "huecos") /\ "huecos" \in Labels /\ DataOK
    BY <1>1 DEF BeginWrite, Labels, WriteLabels, ReadLabels, Inv
  <2>2. DataOK'
    BY <1>1, <2>1, Moves DEF DataOK, BeginWrite, Pointers
  <2>3. HuecosBalance'
    <3>1. /\ At({"huecos"})' = At({"huecos"}) \cup {p}
          /\ At(HuecoLabels)' = At(HuecoLabels) \cup {p}
          /\ p \notin At(HuecoLabels)
      BY <2>1, Moves DEF HuecoLabels
    <3> QED BY <1>1, <3>1, LedgerDown DEF BeginWrite, Inv, HuecosBalance
  <2>4. ElementosBalance'
    BY <1>1, <2>1, ElementosBalanceStays DEF BeginWrite, ElementoLabels
  <2>5. MtxBalance'
    BY <1>1, <2>1, MtxBalanceStays DEF BeginWrite, MtxLabels
  <2> QED BY <2>2, <2>3, <2>4, <2>5 DEF Inv
<1>2. CASE InterruptHuecos(p)
  <2>1. Goto(p, "huecos", "idle") /\ "idle" \in Labels /\ DataOK
    BY <1>2 DEF InterruptHuecos, Labels, WriteLabels, ReadLabels, Inv
  <2>2. DataOK'
    BY <1>2, <2>1, Moves DEF DataOK, InterruptHuecos, Pointers
  <2>3. HuecosBalance'
    <3>1. /\ At({"huecos"})' = At({"huecos"}) \ {p}
          /\ At(HuecoLabels)' = At(HuecoLabels) \ {p}
      BY <2>1, Moves DEF HuecoLabels
    <3> QED BY <1>2, <3>1, LedgerCancel DEF InterruptHuecos, Inv, HuecosBalance
  <2>4. ElementosBalance'
    BY <1>2, <2>1, ElementosBalanceStays DEF InterruptHuecos, ElementoLabels
  <2>5. MtxBalance'
    BY <1>2, <2>1, MtxBalanceStays DEF InterruptHuecos, MtxLabels
  <2> QED BY <2>2, <2>3, <2>4, <2>5 DEF Inv
<1>3. CASE WriteLock(p)
  <2>1. Goto(p, "huecos", "wmtx") /\ "wmtx" \in Labels /\ DataOK
    BY <1>3 DEF WriteLock, Labels, WriteLabels, ReadLabels, Inv
  <2>2. DataOK'
    BY <1>3, <2>1, Moves DEF DataOK, WriteLock, Pointers
  <2>3. HuecosBalance'
    <3>1. /\ At({"huecos"})' = At({"huecos"}) \ {p}
          /\ At(HuecoLabels)' = At(HuecoLabels)
      BY <2>1, Moves, Stays DEF HuecoLabels
    <3> QED BY <1>3, <3>1, LedgerPass DEF WriteLock, Inv, HuecosBalance
  <2>4. ElementosBalance'
    BY <1>3, <2>1, ElementosBalanceStays DEF WriteLock, ElementoLabels
  <2>5. MtxBalance'
    <3>1. /\ At({"wmtx", "rmtx"})' = At({"wmtx", "rmtx"}) \cup {p}
          /\ At(MtxLabels)' = At(MtxLabels) \cup {p}
          /\ p \notin At(MtxLabels)
      BY <2>1, Moves DEF MtxLabels
    <3> QED BY <1>3, <3>1, LedgerDown DEF WriteLock, Inv, MtxBalance
  <2> QED BY <2>2, <2>3, <2>4, <2>5 DEF Inv
<1>4. CASE InterruptWriteLock(p)
  <2>1. Goto(p, "wmtx", "wundo") /\ "wundo" \in Labels /\ DataOK
    BY <1>4 DEF InterruptWriteLock, Labels, WriteLabels, ReadLabels, Inv
  <2>2. DataOK'
    BY <1>4, <2>1, Moves DEF DataOK, InterruptWriteLock, Pointers
  <2>3. HuecosBalance'
    BY <1>4, <2>1, HuecosBalanceStays DEF InterruptWriteLock, HuecoLabels
  <2>4. ElementosBalance'
    BY <1>4, <2>1, ElementosBalanceStays DEF InterruptWriteLock, ElementoLabels
  <2>5. MtxBalance'
    <3>1. /\ At({"wmtx", "rmtx"})' = At({"wmtx", "rmtx"}) \ {p}
          /\ At(MtxLabels)' = At(MtxLabels) \ {p}
      BY <2>1, Moves DEF MtxLabels
    <3> QED BY <1>4, <3>1, LedgerCancel DEF InterruptWriteLock, Inv, MtxBalance
  <2> QED BY <2>2, <2>3, <2>4, <2>5 DEF Inv
<1>5. CASE UndoHuecos(p)
  <2>1. Goto(p, "wundo", "idle") /\ "idle" \in Labels /\ DataOK
    BY <1>5 DEF UndoHuecos, Labels, WriteLabels, ReadLabels, Inv
  <2>2. DataOK'
    BY <1>5, <2>1, Moves DEF DataOK, UndoHuecos, Pointers
  <2>3. HuecosBalance'
    <3>1. /\ At({"huecos"})' = At({"huecos"})
          /\ At(HuecoLabels)' = At(HuecoLabels) \ {p}
          /\ p \in At(HuecoLabels) /\ p \notin At({"huecos"})
      BY <2>1, Moves, Stays DEF HuecoLabels
    <3> QED BY <1>5, <3>1, LedgerUp DEF UndoHuecos, Inv, HuecosBalance
  <2>4. ElementosBalance'
    BY <1>5, <2>1, ElementosBalanceStays DEF UndoHuecos, ElementoLabels
  <2>5. MtxBalance'
    BY <1>5, <2>1, MtxBalanceStays DEF UndoHuecos, MtxLabels
  <2> QED BY <2>2, <2>3, <2>4, <2>5 DEF Inv
<1>6. CASE KfifoInCopy(p)
  <2>1. HasRoom(cbuf)
    <3>1. p \in At(HuecoLabels) /\ Granted(huecos, p)
      BY <1>6 DEF KfifoInCopy, Goto, At, HuecoLabels, Inv, HuecosBalance, Ledger, Granted
    <3> QED BY <3>1, LedgerHolder, UsedType, RingAssumption
              DEF Inv, HuecosBalance, HasRoom, DataOK, Ring
  <2>2. Used(cbuf') = Used(cbuf) /\ cbuf' \in Ring
    BY <1>6, <2>1, CopyInEffect DEF KfifoInCopy, Inv, DataOK, Ring
  <2>3. Goto(p, "wmtx", "advance_in") /\ "advance_in" \in Labels /\ DataOK
    BY <1>6, <2>1 DEF KfifoInCopy, Labels, WriteLabels, ReadLabels, Inv
  <2>4. DataOK'
    BY <1>6, <2>3, Moves, <2>2 DEF DataOK, KfifoInCopy, Pointers, Ring
  <2>5. HuecosBalance'
    BY <1>6, <2>3, <2>2, HuecosBalanceStays DEF KfifoInCopy, HuecoLabels
  <2>6. ElementosBalance'
    BY <1>6, <2>3, <2>2, ElementosBalanceStays DEF KfifoInCopy, ElementoLabels
  <2>7. MtxBalance'
    <3>1. /\ At({"wmtx", "rmtx"})' = At({"wmtx", "rmtx"}) \ {p}
          /\ At(MtxLabels)' = At(MtxLabels)
      BY <2>3, Moves, Stays DEF MtxLabels
    <3> QED BY <1>6, <3>1, LedgerPass DEF KfifoInCopy, Inv, MtxBalance
  <2> QED BY <2>4, <2>5, <2>6, <2>7 DEF Inv
<1>7. CASE KfifoInAdvance(p)
  <2>1. HasRoom(cbuf)
    <3>1. p \in At(HuecoLabels) /\ Granted(huecos, p)
      BY <1>7 DEF KfifoInAdvance, Goto, At, HuecoLabels, Inv, HuecosBalance, Ledger, Granted
    <3> QED BY <3>1, LedgerHolder, UsedType, RingAssumption
              DEF Inv, HuecosBalance, HasRoom, DataOK, Ring
  <2>2. /\ Used(cbuf') = Used(cbuf) + 1 /\ cbuf' \in Ring
        /\ Used(cbuf) \in Nat
    BY <1>7, <2>1, AdvanceInEffect, UsedType DEF KfifoInAdvance, Inv, DataOK, Ring
  <2>3. Goto(p, "advance_in", "wunlock") /\ "wunlock" \in Labels /\ DataOK
    BY <1>7, <2>2 DEF KfifoInAdvance, Labels, WriteLabels, ReadLabels, Inv
  <2>4. DataOK'
    BY <1>7, <2>3, Moves, <2>2 DEF DataOK, KfifoInAdvance, Pointers, Ring
  <2>5. HuecosBalance'
    <3>1. /\ At({"huecos"})' = At({"huecos"})
          /\ At(HuecoLabels)' = At(HuecoLabels) \ {p}
          /\ p \in At(HuecoLabels) /\ p \notin At({"huecos"})
      BY <2>3, Moves, Stays DEF HuecoLabels
    <3>2. Ledger(huecos, Proc, At({"huecos"}), At(HuecoLabels) \ {p},
                 (max_size - Used(cbuf)) - 1)
      BY <3>1, LedgerLeave DEF Inv, HuecosBalance
    <3>3. (max_size - Used(cbuf)) - 1 = max_size - Used(cbuf')
      BY <2>2, RingAssumption
    <3> QED BY <1>7, <3>1, <3>2, <3>3 DEF KfifoInAdvance, HuecosBalance
  <2>6. ElementosBalance'
    <3>1. /\ At({"elementos"})' = At({"elementos"})
          /\ At(ElementoLabels)' = At(ElementoLabels) \cup {p}
          /\ p \notin At(ElementoLabels)
      BY <2>3, Moves, Stays DEF ElementoLabels
    <3>2. Ledger(elementos, Proc, At({"elementos"}), At(ElementoLabels) \cup {p},
                 (Used(cbuf)) + 1)
      BY <3>1, LedgerEnter DEF Inv, ElementosBalance
    <3>3. (Used(cbuf)) + 1 = Used(cbuf')
      BY <2>2, RingAssumption
    <3> QED BY <1>7, <3>1, <3>2, <3>3 DEF KfifoInAdvance, ElementosBalance
  <2>7. MtxBalance'
    BY <1>7, <2>3, MtxBalanceStays DEF KfifoInAdvance, MtxLabels
  <2> QED BY <2>4, <2>5, <2>6, <2>7 DEF Inv
<1>8. CASE WriteUnlock(p)
  <2>1. Goto(p, "wunlock", "wsignal") /\ "wsignal" \in Labels /\ DataOK
    BY <1>8 DEF WriteUnlock, Labels, WriteLabels, ReadLabels, Inv
  <2>2. DataOK'
    BY <1>8, <2>1, Moves DEF DataOK, WriteUnlock, Pointers
  <2>3. HuecosBalance'
    BY <1>8, <2>1, HuecosBalanceStays DEF WriteUnlock, HuecoLabels
  <2>4. ElementosBalance'
    BY <1>8, <2>1, ElementosBalanceStays DEF WriteUnlock, ElementoLabels
  <2>5. MtxBalance'
    <3>1. /\ At({"wmtx", "rmtx"})' = At({"wmtx", "rmtx"})
          /\ At(MtxLabels)' = At(MtxLabels) \ {p}
          /\ p \in At(MtxLabels) /\ p \notin At({"wmtx", "rmtx"})
      BY <2>1, Moves, Stays DEF MtxLabels
    <3> QED BY <1>8, <3>1, LedgerUp DEF WriteUnlock, Inv, MtxBalance
  <2> QED BY <2>2, <2>3, <2>4, <2>5 DEF Inv
<1>9. CASE SignalElementos(p)
  <2>1. Goto(p, "wsignal", "idle") /\ "idle" \in Labels /\ DataOK
    BY <1>9 DEF SignalElementos, Labels, WriteLabels, ReadLabels, Inv
  <2>2. DataOK'
    BY <1>9, <2>1, Moves DEF DataOK, SignalElementos, Pointers
  <2>3. HuecosBalance'
    BY <1>9, <2>1, HuecosBalanceStays DEF SignalElementos, HuecoLabels
  <2>4. ElementosBalance'
    <3>1. /\ At({"elementos"})' = At({"elementos"})
          /\ At(ElementoLabels)' = At(ElementoLabels) \ {p}
          /\ p \in At(ElementoLabels) /\ p \notin At({"elementos"})
      BY <2>1, Moves, Stays DEF ElementoLabels
    <3> QED BY <1>9, <3>1, LedgerUp DEF SignalElementos, Inv, ElementosBalance
  <2>5. MtxBalance'
    BY <1>9, <2>1, MtxBalanceStays DEF SignalElementos, MtxLabels
  <2> QED BY <2>2, <2>3, <2>4, <2>5 DEF Inv
<1> QED BY <1>1, <1>2, <1>3, <1>4, <1>5, <1>6, <1>7, <1>8, <1>9

(* Every statement of test_read keeps the books. *)
LEMMA ReadCallKeepsInv ==
    ASSUME Inv, NEW p \in Proc,
           BeginRead(p) \/ InterruptElementos(p) \/ ReadLock(p)
             \/ InterruptReadLock(p) \/ UndoElementos(p)
             \/ KfifoOutCopy(p) \/ KfifoOutAdvance(p) \/ ReadUnlock(p)
             \/ SignalHuecos(p) \/ FreeBlock(p)
    PROVE  Inv'
<1> USE EntryAssumption
<1>1. CASE BeginRead(p)
  <2>1. Goto(p, "idle", "elementos") /\ "elementos" \in Labels /\ DataOK
    BY <1>1 DEF BeginRead, Labels, WriteLabels, ReadLabels, Inv
  <2>2. DataOK'
    BY <1>1, <2>1, Moves DEF DataOK, BeginRead, Pointers
  <2>3. HuecosBalance'
    BY <1>1, <2>1, HuecosBalanceStays DEF BeginRead, HuecoLabels
  <2>4. ElementosBalance'
    <3>1. /\ At({"elementos"})' = At({"elementos"}) \cup {p}
          /\ At(ElementoLabels)' = At(ElementoLabels) \cup {p}
          /\ p \notin At(ElementoLabels)
      BY <2>1, Moves DEF ElementoLabels
    <3> QED BY <1>1, <3>1, LedgerDown DEF BeginRead, Inv, ElementosBalance
  <2>5. MtxBalance'
    BY <1>1, <2>1, MtxBalanceStays DEF BeginRead, MtxLabels
  <2> QED BY <2>2, <2>3, <2>4, <2>5 DEF Inv
<1>2. CASE InterruptElementos(p)
  <2>1. Goto(p, "elementos", "idle") /\ "idle" \in Labels /\ DataOK
    BY <1>2 DEF InterruptElementos, Labels, WriteLabels, ReadLabels, Inv
  <2>2. DataOK'
    BY <1>2, <2>1, Moves DEF DataOK, InterruptElementos, Pointers
  <2>3. HuecosBalance'
    BY <1>2, <2>1, HuecosBalanceStays DEF InterruptElementos, HuecoLabels
  <2>4. ElementosBalance'
    <3>1. /\ At({"elementos"})' = At({"elementos"}) \ {p}
          /\ At(ElementoLabels)' = At(ElementoLabels) \ {p}
      BY <2>1, Moves DEF ElementoLabels
    <3> QED BY <1>2, <3>1, LedgerCancel DEF InterruptElementos, Inv, ElementosBalance
  <2>5. MtxBalance'
    BY <1>2, <2>1, MtxBalanceStays DEF InterruptElementos, MtxLabels
  <2> QED BY <2>2, <2>3, <2>4, <2>5 DEF Inv
<1>3. CASE ReadLock(p)
  <2>1. Goto(p, "elementos", "rmtx") /\ "rmtx" \in Labels /\ DataOK
    BY <1>3 DEF ReadLock, Labels, WriteLabels, ReadLabels, Inv
  <2>2. DataOK'
    BY <1>3, <2>1, Moves DEF DataOK, ReadLock, Pointers
  <2>3. HuecosBalance'
    BY <1>3, <2>1, HuecosBalanceStays DEF ReadLock, HuecoLabels
  <2>4. ElementosBalance'
    <3>1. /\ At({"elementos"})' = At({"elementos"}) \ {p}
          /\ At(ElementoLabels)' = At(ElementoLabels)
      BY <2>1, Moves, Stays DEF ElementoLabels
    <3> QED BY <1>3, <3>1, LedgerPass DEF ReadLock, Inv, ElementosBalance
  <2>5. MtxBalance'
    <3>1. /\ At({"wmtx", "rmtx"})' = At({"wmtx", "rmtx"}) \cup {p}
          /\ At(MtxLabels)' = At(MtxLabels) \cup {p}
          /\ p \notin At(MtxLabels)
      BY <2>1, Moves DEF MtxLabels
    <3> QED BY <1>3, <3>1, LedgerDown DEF ReadLock, Inv, MtxBalance
  <2> QED BY <2>2, <2>3, <2>4, <2>5 DEF Inv
<1>4. CASE InterruptReadLock(p)
  <2>1. Goto(p, "rmtx", "rundo") /\ "rundo" \in Labels /\ DataOK
    BY <1>4 DEF InterruptReadLock, Labels, WriteLabels, ReadLabels, Inv
  <2>2. DataOK'
    BY <1>4, <2>1, Moves DEF DataOK, InterruptReadLock, Pointers
  <2>3. HuecosBalance'
    BY <1>4, <2>1, HuecosBalanceStays DEF InterruptReadLock, HuecoLabels
  <2>4. ElementosBalance'
    BY <1>4, <2>1, ElementosBalanceStays DEF InterruptReadLock, ElementoLabels
  <2>5. MtxBalance'
    <3>1. /\ At({"wmtx", "rmtx"})' = At({"wmtx", "rmtx"}) \ {p}
          /\ At(MtxLabels)' = At(MtxLabels) \ {p}
      BY <2>1, Moves DEF MtxLabels
    <3> QED BY <1>4, <3>1, LedgerCancel DEF InterruptReadLock, Inv, MtxBalance
  <2> QED BY <2>2, <2>3, <2>4, <2>5 DEF Inv
<1>5. CASE UndoElementos(p)
  <2>1. Goto(p, "rundo", "idle") /\ "idle" \in Labels /\ DataOK
    BY <1>5 DEF UndoElementos, Labels, WriteLabels, ReadLabels, Inv
  <2>2. DataOK'
    BY <1>5, <2>1, Moves DEF DataOK, UndoElementos, Pointers
  <2>3. HuecosBalance'
    BY <1>5, <2>1, HuecosBalanceStays DEF UndoElementos, HuecoLabels
  <2>4. ElementosBalance'
    <3>1. /\ At({"elementos"})' = At({"elementos"})
          /\ At(ElementoLabels)' = At(ElementoLabels) \ {p}
          /\ p \in At(ElementoLabels) /\ p \notin At({"elementos"})
      BY <2>1, Moves, Stays DEF ElementoLabels
    <3> QED BY <1>5, <3>1, LedgerUp DEF UndoElementos, Inv, ElementosBalance
  <2>5. MtxBalance'
    BY <1>5, <2>1, MtxBalanceStays DEF UndoElementos, MtxLabels
  <2> QED BY <2>2, <2>3, <2>4, <2>5 DEF Inv
<1>6. CASE KfifoOutCopy(p)
  <2>1. HasItem(cbuf)
    <3>1. p \in At(ElementoLabels) /\ Granted(elementos, p)
      BY <1>6 DEF KfifoOutCopy, Goto, At, ElementoLabels, Inv, ElementosBalance, Ledger, Granted
    <3> QED BY <3>1, LedgerHolder, UsedType, RingAssumption
              DEF Inv, ElementosBalance, HasItem, DataOK, Ring
  <2>2. Goto(p, "rmtx", "advance_out") /\ "advance_out" \in Labels /\ DataOK
    BY <1>6, <2>1 DEF KfifoOutCopy, Labels, WriteLabels, ReadLabels, Inv
  <2>3. DataOK'
    BY <1>6, <2>2, Moves, <2>1, OldestItemType DEF DataOK, KfifoOutCopy, Pointers, Ring
  <2>4. HuecosBalance'
    BY <1>6, <2>2, HuecosBalanceStays DEF KfifoOutCopy, HuecoLabels
  <2>5. ElementosBalance'
    BY <1>6, <2>2, ElementosBalanceStays DEF KfifoOutCopy, ElementoLabels
  <2>6. MtxBalance'
    <3>1. /\ At({"wmtx", "rmtx"})' = At({"wmtx", "rmtx"}) \ {p}
          /\ At(MtxLabels)' = At(MtxLabels)
      BY <2>2, Moves, Stays DEF MtxLabels
    <3> QED BY <1>6, <3>1, LedgerPass DEF KfifoOutCopy, Inv, MtxBalance
  <2> QED BY <2>3, <2>4, <2>5, <2>6 DEF Inv
<1>7. CASE KfifoOutAdvance(p)
  <2>1. HasItem(cbuf)
    <3>1. p \in At(ElementoLabels) /\ Granted(elementos, p)
      BY <1>7 DEF KfifoOutAdvance, Goto, At, ElementoLabels, Inv, ElementosBalance, Ledger, Granted
    <3> QED BY <3>1, LedgerHolder, UsedType, RingAssumption
              DEF Inv, ElementosBalance, HasItem, DataOK, Ring
  <2>2. /\ Used(cbuf') = Used(cbuf) - 1 /\ cbuf' \in Ring
        /\ Used(cbuf) \in Nat
    BY <1>7, <2>1, AdvanceOutEffect, UsedType DEF KfifoOutAdvance, Inv, DataOK, Ring
  <2>3. Goto(p, "advance_out", "runlock") /\ "runlock" \in Labels /\ DataOK
    BY <1>7, <2>2 DEF KfifoOutAdvance, Labels, WriteLabels, ReadLabels, Inv
  <2>4. DataOK'
    BY <1>7, <2>3, Moves, <2>2 DEF DataOK, KfifoOutAdvance, Pointers, Ring
  <2>5. HuecosBalance'
    <3>1. /\ At({"huecos"})' = At({"huecos"})
          /\ At(HuecoLabels)' = At(HuecoLabels) \cup {p}
          /\ p \notin At(HuecoLabels)
      BY <2>3, Moves, Stays DEF HuecoLabels
    <3>2. Ledger(huecos, Proc, At({"huecos"}), At(HuecoLabels) \cup {p},
                 (max_size - Used(cbuf)) + 1)
      BY <3>1, LedgerEnter DEF Inv, HuecosBalance
    <3>3. (max_size - Used(cbuf)) + 1 = max_size - Used(cbuf')
      BY <2>2, RingAssumption
    <3> QED BY <1>7, <3>1, <3>2, <3>3 DEF KfifoOutAdvance, HuecosBalance
  <2>6. ElementosBalance'
    <3>1. /\ At({"elementos"})' = At({"elementos"})
          /\ At(ElementoLabels)' = At(ElementoLabels) \ {p}
          /\ p \in At(ElementoLabels) /\ p \notin At({"elementos"})
      BY <2>3, Moves, Stays DEF ElementoLabels
    <3>2. Ledger(elementos, Proc, At({"elementos"}), At(ElementoLabels) \ {p},
                 (Used(cbuf)) - 1)
      BY <3>1, LedgerLeave DEF Inv, ElementosBalance
    <3>3. (Used(cbuf)) - 1 = Used(cbuf')
      BY <2>2, RingAssumption
    <3> QED BY <1>7, <3>1, <3>2, <3>3 DEF KfifoOutAdvance, ElementosBalance
  <2>7. MtxBalance'
    BY <1>7, <2>3, MtxBalanceStays DEF KfifoOutAdvance, MtxLabels
  <2> QED BY <2>4, <2>5, <2>6, <2>7 DEF Inv
<1>8. CASE ReadUnlock(p)
  <2>1. Goto(p, "runlock", "rsignal") /\ "rsignal" \in Labels /\ DataOK
    BY <1>8 DEF ReadUnlock, Labels, WriteLabels, ReadLabels, Inv
  <2>2. DataOK'
    BY <1>8, <2>1, Moves DEF DataOK, ReadUnlock, Pointers
  <2>3. HuecosBalance'
    BY <1>8, <2>1, HuecosBalanceStays DEF ReadUnlock, HuecoLabels
  <2>4. ElementosBalance'
    BY <1>8, <2>1, ElementosBalanceStays DEF ReadUnlock, ElementoLabels
  <2>5. MtxBalance'
    <3>1. /\ At({"wmtx", "rmtx"})' = At({"wmtx", "rmtx"})
          /\ At(MtxLabels)' = At(MtxLabels) \ {p}
          /\ p \in At(MtxLabels) /\ p \notin At({"wmtx", "rmtx"})
      BY <2>1, Moves, Stays DEF MtxLabels
    <3> QED BY <1>8, <3>1, LedgerUp DEF ReadUnlock, Inv, MtxBalance
  <2> QED BY <2>2, <2>3, <2>4, <2>5 DEF Inv
<1>9. CASE SignalHuecos(p)
  <2>1. Goto(p, "rsignal", "rdone") /\ "rdone" \in Labels /\ DataOK
    BY <1>9 DEF SignalHuecos, Labels, WriteLabels, ReadLabels, Inv
  <2>2. DataOK'
    BY <1>9, <2>1, Moves DEF DataOK, SignalHuecos, Pointers
  <2>3. HuecosBalance'
    <3>1. /\ At({"huecos"})' = At({"huecos"})
          /\ At(HuecoLabels)' = At(HuecoLabels) \ {p}
          /\ p \in At(HuecoLabels) /\ p \notin At({"huecos"})
      BY <2>1, Moves, Stays DEF HuecoLabels
    <3> QED BY <1>9, <3>1, LedgerUp DEF SignalHuecos, Inv, HuecosBalance
  <2>4. ElementosBalance'
    BY <1>9, <2>1, ElementosBalanceStays DEF SignalHuecos, ElementoLabels
  <2>5. MtxBalance'
    BY <1>9, <2>1, MtxBalanceStays DEF SignalHuecos, MtxLabels
  <2> QED BY <2>2, <2>3, <2>4, <2>5 DEF Inv
<1>10. CASE FreeBlock(p)
  <2>1. Goto(p, "rdone", "idle") /\ "idle" \in Labels /\ DataOK
    BY <1>10 DEF FreeBlock, Labels, WriteLabels, ReadLabels, Inv
  <2>2. DataOK'
    BY <1>10, <2>1, Moves DEF DataOK, FreeBlock, Pointers
  <2>3. HuecosBalance'
    BY <1>10, <2>1, HuecosBalanceStays DEF FreeBlock, HuecoLabels
  <2>4. ElementosBalance'
    BY <1>10, <2>1, ElementosBalanceStays DEF FreeBlock, ElementoLabels
  <2>5. MtxBalance'
    BY <1>10, <2>1, MtxBalanceStays DEF FreeBlock, MtxLabels
  <2> QED BY <2>2, <2>3, <2>4, <2>5 DEF Inv
<1> QED BY <1>1, <1>2, <1>3, <1>4, <1>5, <1>6, <1>7, <1>8, <1>9, <1>10

(* The invariant holds at first. *)
LEMMA InitInv == Init => Inv
<1> SUFFICES ASSUME Init PROVE Inv
  OBVIOUS
<1> USE EntryAssumption, RingAssumption
<1>1. DataOK
  BY DEF Init, DataOK, Labels, Pointers, NewKfifo, Index
<1>2. Used(cbuf) = 0
  BY DEF Init, NewKfifo, Used
<1>3. /\ At({"huecos"}) = {} /\ At(HuecoLabels) = {}
      /\ At({"elementos"}) = {} /\ At(ElementoLabels) = {}
      /\ At({"wmtx", "rmtx"}) = {} /\ At(MtxLabels) = {}
  BY DEF Init, At, HuecoLabels, ElementoLabels, MtxLabels
<1>4. ASSUME NEW n \in Nat
      PROVE  Ledger(NewSemaphore(n), Proc, {}, {}, n)
  <2>1. /\ IsSemaphore(NewSemaphore(n), Proc)
        /\ Waiting(NewSemaphore(n)) = {} /\ NewSemaphore(n).count = n
    BY NewSemaphoreIsOne
  <2>2. Cardinality({} \ Waiting(NewSemaphore(n))) = 0
    BY <2>1, FS_EmptySet
  <2> QED BY <2>1, <2>2 DEF Ledger, Units
<1>5. max_size \in Nat /\ max_size - Used(cbuf) = max_size
  BY <1>2
<1>6. HuecosBalance
  BY <1>3, <1>4, <1>5 DEF Init, HuecosBalance
<1>7. ElementosBalance
  BY <1>2, <1>3, <1>4 DEF Init, ElementosBalance
<1>8. MtxBalance
  BY <1>3, <1>4 DEF Init, MtxBalance
<1> QED BY <1>1, <1>6, <1>7, <1>8 DEF Inv

(* Every step, of whatever process, keeps the invariant, and so does doing
   nothing. *)
LEMMA NextInv == Inv /\ [Next]_vars => Inv'
<1> SUFFICES ASSUME Inv, [Next]_vars PROVE Inv'
  OBVIOUS
<1>1. CASE UNCHANGED vars
  BY <1>1 DEF vars, Inv, DataOK, HuecosBalance, ElementosBalance, MtxBalance, At
<1>2. CASE Next
  <2>1. PICK p \in Proc : BeginWrite(p) \/ BeginRead(p) \/ WriteStep(p)
                            \/ ReadStep(p) \/ Interrupt(p)
    BY <1>2 DEF Next
  <2> QED BY <2>1, WriteCallKeepsInv, ReadCallKeepsInv
            DEF WriteStep, ReadStep, Interrupt
<1> QED BY <1>1, <1>2

(* The books balance in every reachable state. *)
THEOREM InvHolds == Spec => []Inv
<1> QED BY InitInv, NextInv, PTL DEF Spec
-----------------------------------------------------------------------------
(* What the books say                                                      *)

(* Every variable keeps its type and the semaphores stay well formed: nobody
   is queued twice, and nobody is queued while units are left. *)
THEOREM TypeCorrect == Spec => []TypeOK
<1>1. Inv => TypeOK
  BY DEF Inv, DataOK, HuecosBalance, ElementosBalance, MtxBalance, Ledger,
         TypeOK
<1> QED BY <1>1, InvHolds, PTL

(* The ring is touched by one process at a time: mtx is one unit, and every
   process between down(&mtx) and up(&mtx) has it. *)
THEOREM Exclusion == Spec => []MutualExclusion
<1>1. ASSUME Inv PROVE MutualExclusion
  <2> SUFFICES ASSUME NEW p \in Proc, NEW q \in Proc,
                      InCritical(p), InCritical(q)
               PROVE  p = q
    BY DEF MutualExclusion
  <2>1. ASSUME NEW r \in Proc, InCritical(r)
        PROVE  r \in At(MtxLabels) /\ Granted(mtx, r)
    BY <1>1, <2>1 DEF InCritical, At, MtxLabels, Inv, MtxBalance, Ledger,
                      Granted
  <2>2. p \in At(MtxLabels) /\ Granted(mtx, p)
    BY <2>1
  <2>3. q \in At(MtxLabels) /\ Granted(mtx, q)
    BY <2>1
  <2> QED BY <1>1, <2>2, <2>3, LedgerExclusive, EntryAssumption
             DEF Inv, MtxBalance
<1> QED BY <1>1, InvHolds, PTL

(* No path of either handler, interrupted or not, creates or loses a slot. *)
THEOREM Conservation == Spec => []SlotConservation
<1>1. ASSUME Inv PROVE SlotConservation
  <2>1. {p \in Proc : HoldsHueco(p)} = At(HuecoLabels) \ Waiting(huecos)
    BY <1>1 DEF HoldsHueco, At, HuecoLabels, Granted, Inv, HuecosBalance, Ledger
  <2>2. {p \in Proc : HoldsElemento(p)} = At(ElementoLabels) \ Waiting(elementos)
    BY <1>1 DEF HoldsElemento, At, ElementoLabels, Granted, Inv,
                ElementosBalance, Ledger
  <2>3. Used(cbuf) \in Nat
    BY <1>1, UsedType DEF Inv, DataOK, Ring
  <2>4. huecos.count + Cardinality(At(HuecoLabels) \ Waiting(huecos))
          = max_size - Used(cbuf)
    BY <1>1 DEF Inv, HuecosBalance, Ledger, Units
  <2>5. /\ huecos.count \in Nat
        /\ Cardinality(At(HuecoLabels) \ Waiting(huecos)) \in Nat
    <3>1. IsFiniteSet(At(HuecoLabels) \ Waiting(huecos))
      BY EntryAssumption, FS_Subset, FS_Difference DEF At
    <3> QED BY <1>1, <3>1, FS_CardinalityType
              DEF Inv, HuecosBalance, Ledger, IsSemaphore
  <2>6. elementos.count + Cardinality(At(ElementoLabels) \ Waiting(elementos))
          = Used(cbuf)
    BY <1>1 DEF Inv, ElementosBalance, Ledger, Units
  <2> DEFINE h == Cardinality({p \in Proc : HoldsHueco(p)})
             e == Cardinality({p \in Proc : HoldsElemento(p)})
  <2>7. huecos.count + h = max_size - Used(cbuf) /\ h \in Nat
    BY <2>1, <2>4, <2>5
  <2>8. elementos.count + e = Used(cbuf)
    BY <2>2, <2>6
  <2>9. huecos.count + h + Used(cbuf) = max_size
    <3> HIDE DEF h
    <3> QED BY <2>3, <2>5, <2>7, RingAssumption
  <2> QED BY <2>8, <2>9 DEF SlotConservation
<1> QED BY <1>1, InvHolds, PTL

(* A writer that owns mtx finds room in the ring and a reader an item: the
   unit of huecos or elementos that brought it there is one slot of the ring. *)
THEOREM WholeTransfers == Spec => []NoShortTransfer
<1>1. ASSUME Inv PROVE NoShortTransfer
  <2>1. ASSUME NEW p \in Proc, pc[p] = "wmtx" PROVE HasRoom(cbuf)
    <3>1. p \in At(HuecoLabels) /\ Granted(huecos, p)
      BY <1>1, <2>1 DEF At, HuecoLabels, Inv, HuecosBalance, Ledger, Granted
    <3> QED BY <1>1, <3>1, LedgerHolder, UsedType, EntryAssumption,
               RingAssumption DEF Inv, HuecosBalance, HasRoom, DataOK, Ring
  <2>2. ASSUME NEW p \in Proc, pc[p] = "rmtx" PROVE HasItem(cbuf)
    <3>1. p \in At(ElementoLabels) /\ Granted(elementos, p)
      BY <1>1, <2>2 DEF At, ElementoLabels, Inv, ElementosBalance, Ledger,
                        Granted
    <3> QED BY <1>1, <3>1, LedgerHolder, EntryAssumption
              DEF Inv, ElementosBalance, HasItem
  <2> QED BY <2>1, <2>2 DEF NoShortTransfer
<1> QED BY <1>1, InvHolds, PTL

(* When no process can run, a unit is free or a slot is unavailable for every
   one that waits: no wakeup has been lost. *)
THEOREM WakeupsKept == Spec => []NoLostWakeup
<1>1. ASSUME Inv, Quiet PROVE /\ Waiting(mtx) = {}
                              /\ Waiting(huecos) # {} => Used(cbuf) = max_size
                              /\ Waiting(elementos) # {} => Used(cbuf) = 0
  <2>1. ASSUME NEW sem, NEW W, NEW T, NEW n, Ledger(sem, Proc, W, T, n),
               \A p \in T : ~Granted(sem, p)
        PROVE  n = sem.count /\ n \in Nat /\ (Waiting(sem) # {} => n = 0)
    <3>1. T \ Waiting(sem) = {}
      BY <2>1 DEF Granted
    <3>2. Cardinality(T \ Waiting(sem)) = 0
      BY <3>1, FS_EmptySet
    <3>3. n = sem.count /\ n \in Nat
      BY <2>1, <3>2 DEF Ledger, Units, IsSemaphore
    <3>4. Waiting(sem) # {} => sem.count = 0
      BY <2>1, UpEffect DEF Ledger
    <3> QED BY <3>3, <3>4
  <2>2. \A p \in At(MtxLabels) : ~Granted(mtx, p)
    BY <1>1 DEF Quiet, At, MtxLabels
  <2>3. Waiting(mtx) = {}
    BY <1>1, <2>1, <2>2 DEF Inv, MtxBalance
  <2>4. \A p \in At(HuecoLabels) : ~Granted(huecos, p)
    BY <1>1, <2>3 DEF Quiet, At, HuecoLabels, Granted
  <2>5. \A p \in At(ElementoLabels) : ~Granted(elementos, p)
    BY <1>1, <2>3 DEF Quiet, At, ElementoLabels, Granted
  <2>6. Used(cbuf) \in Nat
    BY <1>1, UsedType DEF Inv, DataOK, Ring
  <2>7. Waiting(huecos) # {} => max_size - Used(cbuf) = 0
    BY <1>1, <2>1, <2>4 DEF Inv, HuecosBalance
  <2>8. Waiting(elementos) # {} => Used(cbuf) = 0
    BY <1>1, <2>1, <2>5 DEF Inv, ElementosBalance
  <2> QED BY <2>3, <2>6, <2>7, <2>8, RingAssumption
<1>2. Inv => NoLostWakeup
  BY <1>1 DEF NoLostWakeup
<1> QED BY <1>2, InvHolds, PTL
-----------------------------------------------------------------------------
(* The items in the ring                                                   *)

(* A whole turn of the ring, and a whole turn of the indices, lead to the same
   slot. *)
LEMMA TurnsOfSlot ==
    ASSUME NEW a \in Nat
    PROVE  /\ Slot(a) \in 0..(max_size - 1)
           /\ Slot(a + IndexWrap) = Slot(a)
<1>1. max_size \in Nat \ {0} /\ IndexWrap \in Nat /\ IndexWrap % max_size = 0
  BY RingAssumption
<1>2. PICK q \in Int : IndexWrap = max_size * q
  <2>1. /\ IndexWrap \div max_size \in Int
        /\ IndexWrap = max_size * (IndexWrap \div max_size)
                          + (IndexWrap % max_size)
    BY <1>1
  <2>2. IndexWrap = max_size * (IndexWrap \div max_size)
    BY <1>1, <2>1
  <2> QED BY <2>1, <2>2
<1>3. PICK k \in Int, r \in 0..(max_size - 1) : a = max_size * k + r
  <2>1. /\ a \div max_size \in Int /\ a % max_size \in 0..(max_size - 1)
        /\ a = max_size * (a \div max_size) + (a % max_size)
    BY <1>1
  <2> QED BY <2>1
<1>4. a % max_size = r
  BY <1>1, <1>3, RemainderIs
<1>5. a + IndexWrap = max_size * (k + q) + r /\ k + q \in Int
  <2>1. max_size * k + max_size * q = max_size * (k + q)
    BY <1>1, <1>2, <1>3
  <2> QED BY <1>1, <1>2, <1>3, <2>1
<1>6. (a + IndexWrap) % max_size = r
  BY <1>1, <1>3, <1>5, RemainderIs
<1> QED BY <1>4, <1>6 DEF Slot

(* Indices less than a turn apart are in different slots. *)
LEMMA SlotsDiffer ==
    ASSUME NEW a \in Nat, NEW b \in Nat, a < b, b - a < max_size
    PROVE  Slot(a) # Slot(b)
<1> SUFFICES ASSUME a % max_size = b % max_size PROVE FALSE
  BY DEF Slot
<1>1. max_size \in Nat \ {0}
  BY RingAssumption
<1> DEFINE m == max_size
           d == (b \div m) - (a \div m)
<1>2. /\ a \div m \in Int /\ b \div m \in Int
      /\ a = m * (a \div m) + (a % m) /\ b = m * (b \div m) + (b % m)
      /\ a % m \in Int /\ b % m \in Int
  BY <1>1
<1>3. d \in Int /\ b - a = m * d
  <2>1. m * (b \div m) - m * (a \div m) = m * d
    BY <1>1, <1>2
  <2> QED BY <1>1, <1>2, <2>1
<1> HIDE DEF d
<1>4. CASE d >= 1
  <2>1. m * d >= m
    BY <1>1, <1>3, <1>4
  <2> QED BY <1>1, <1>3, <2>1
<1>5. CASE d <= 0
  <2>1. m * d <= 0
    BY <1>1, <1>3, <1>5
  <2> QED BY <1>1, <1>3, <2>1
<1> QED BY <1>3, <1>4, <1>5

(* The place of the i-th item: as long as the ring is not overfull, each item
   has a slot of its own, and kfifo_in writes to the next free one. *)
LEMMA ContentsAre ==
    ASSUME NEW f \in Ring, Used(f) <= max_size
    PROVE  /\ Contents(f) \in Seq(Pointers) /\ Len(Contents(f)) = Used(f)
           /\ Used(f) \in Nat /\ f.out \in Nat /\ f.in \in Nat
           /\ \A i \in 1..Used(f) : Contents(f)[i] = f.data[Slot(f.out + i - 1)]
           /\ Slot(f.in) = Slot(f.out + Used(f))
<1>1. f.in \in Index /\ f.out \in Index /\ Used(f) \in Nat
  BY UsedType DEF Ring
<1>2. f.in \in Nat /\ f.out \in Nat
  BY <1>1, RingAssumption DEF Index
<1>3. \A i \in 1..Used(f) : f.data[Slot(f.out + i - 1)] \in Pointers
  <2> TAKE i \in 1..Used(f)
  <2>1. f.out + i - 1 \in Nat
    BY <1>1, <1>2
  <2> QED BY <2>1, TurnsOfSlot DEF Ring
<1>4. Contents(f) \in [1..Used(f) -> Pointers]
  BY <1>3 DEF Contents
<1>5. Contents(f) \in Seq(Pointers)
  BY <1>1, <1>4, SeqDef
<1>6. Len(Contents(f)) = Used(f)
  <2>1. Len(Contents(f)) \in Nat /\ 1..Len(Contents(f)) = 1..Used(f)
    BY <1>4, <1>5, LenProperties
  <2> QED BY <1>1, <2>1
<1>7. Slot(f.in) = Slot(f.out + Used(f))
  <2>1. CASE f.in >= f.out
    BY <1>2, <2>1 DEF Used
  <2>2. CASE ~(f.in >= f.out)
    <3>1. f.out + Used(f) = f.in + IndexWrap
      BY <1>2, <2>2, RingAssumption DEF Used
    <3> QED BY <1>2, <3>1, TurnsOfSlot
  <2> QED BY <2>1, <2>2
<1> QED BY <1>1, <1>2, <1>5, <1>6, <1>7 DEF Contents

(* Copying an item into a ring with room leaves its contents alone, and puts
   the item where moving the index in will find it. *)
LEMMA CopyInContents ==
    ASSUME NEW f \in Ring, HasRoom(f), NEW b \in Pointers
    PROVE  /\ Contents(CopyIn(f, b)) = Contents(f)
           /\ CopyIn(f, b).data[Slot(f.in)] = b
           /\ CopyIn(f, b).in = f.in
<1>1. /\ Used(f) \in Nat /\ Used(f) < max_size /\ Used(f) <= max_size
      /\ max_size \in Nat
  BY UsedType, RingAssumption DEF HasRoom
<1> DEFINE g == CopyIn(f, b)
<1>2. /\ g \in Ring /\ Used(g) = Used(f) /\ g.in = f.in /\ g.out = f.out
      /\ g.data = [f.data EXCEPT ![Slot(f.in)] = b]
  BY CopyInEffect DEF Ring, CopyIn
<1>3. f.in \in Nat /\ f.out \in Nat /\ Slot(f.in) = Slot(f.out + Used(f))
  BY <1>1, ContentsAre
<1>4. Slot(f.in) \in 0..(max_size - 1)
  BY <1>3, TurnsOfSlot
<1>5. ASSUME NEW i \in 1..Used(f)
      PROVE  g.data[Slot(f.out + i - 1)] = f.data[Slot(f.out + i - 1)]
  <2>1. /\ f.out + i - 1 \in Nat /\ f.out + Used(f) \in Nat
        /\ f.out + i - 1 < f.out + Used(f)
        /\ (f.out + Used(f)) - (f.out + i - 1) < max_size
    BY <1>1, <1>3
  <2>2. Slot(f.out + i - 1) # Slot(f.in)
    BY <1>3, <2>1, SlotsDiffer
  <2> QED BY <1>2, <1>4, <2>1, <2>2, TurnsOfSlot DEF Ring
<1>6. Contents(g) = Contents(f)
  BY <1>2, <1>5 DEF Contents
<1>7. g.data[Slot(f.in)] = b
  BY <1>2, <1>4 DEF Ring
<1> QED BY <1>2, <1>6, <1>7

(* Moving the index in appends the item copied before. *)
LEMMA AdvanceInContents ==
    ASSUME NEW f \in Ring, HasRoom(f)
    PROVE  Contents(AdvanceIn(f)) = Append(Contents(f), f.data[Slot(f.in)])
<1> DEFINE g == AdvanceIn(f)
           n == Used(f)
<1>1. /\ n \in Nat /\ n < max_size /\ n <= max_size /\ n + 1 <= max_size
      /\ max_size \in Nat
  BY UsedType, RingAssumption DEF HasRoom
<1>2. /\ g \in Ring /\ Used(g) = n + 1 /\ g.out = f.out /\ g.data = f.data
  BY AdvanceInEffect DEF Ring, AdvanceIn
<1>3. /\ Contents(f) \in Seq(Pointers) /\ Len(Contents(f)) = n
      /\ f.out \in Nat /\ f.in \in Nat /\ Slot(f.in) = Slot(f.out + n)
  BY <1>1, ContentsAre
<1>4. /\ Contents(g) \in Seq(Pointers) /\ Len(Contents(g)) = n + 1
  BY <1>1, <1>2, ContentsAre
<1> DEFINE b == f.data[Slot(f.in)]
           r == Append(Contents(f), b)
<1>5. b \in Pointers
  BY <1>3, TurnsOfSlot DEF Ring
<1>6. /\ r \in Seq(Pointers) /\ Len(r) = n + 1
      /\ \A i \in 1..n : r[i] = Contents(f)[i]
      /\ r[n + 1] = b
  BY <1>3, <1>5, AppendProperties
<1>7. ASSUME NEW i \in 1..(n + 1) PROVE Contents(g)[i] = r[i]
  <2>1. Contents(g)[i] = f.data[Slot(f.out + i - 1)]
    BY <1>2 DEF Contents
  <2>2. CASE i = n + 1
    <3>1. f.out + i - 1 = f.out + n
      BY <1>1, <1>3, <2>2
    <3> QED BY <1>3, <1>6, <2>1, <2>2, <3>1
  <2>3. CASE i # n + 1
    <3>1. i \in 1..n
      BY <1>1, <2>3
    <3>2. Contents(f)[i] = f.data[Slot(f.out + i - 1)]
      BY <3>1 DEF Contents
    <3> QED BY <1>6, <2>1, <3>1, <3>2
  <2> QED BY <2>2, <2>3
<1> HIDE DEF g, r, b, n
<1>8. Contents(g) = r
  BY <1>4, <1>6, <1>7, SeqEqual
<1> QED BY <1>8 DEF g, r, b

(* Moving the index out removes the oldest item. *)
LEMMA AdvanceOutContents ==
    ASSUME NEW f \in Ring, HasItem(f), Used(f) <= max_size
    PROVE  /\ Contents(f) # <<>> /\ Head(Contents(f)) = Contents(f)[1]
           /\ OldestItem(f) = Contents(f)[1]
           /\ Contents(AdvanceOut(f)) = Tail(Contents(f))
<1> DEFINE g == AdvanceOut(f)
           n == Used(f)
<1>1. n \in Nat /\ n > 0 /\ n <= max_size /\ n - 1 <= max_size /\ n - 1 \in Nat
  BY UsedType, RingAssumption DEF HasItem
<1>2. /\ g \in Ring /\ Used(g) = n - 1 /\ g.data = f.data
      /\ g.out = NextIndex(f.out)
  BY AdvanceOutEffect DEF Ring, AdvanceOut
<1>3. /\ Contents(f) \in Seq(Pointers) /\ Len(Contents(f)) = n
      /\ f.out \in Nat /\ f.out \in Index
  BY <1>1, ContentsAre DEF Ring
<1>4. /\ Contents(g) \in Seq(Pointers) /\ Len(Contents(g)) = n - 1
  BY <1>1, <1>2, ContentsAre
<1>5. Contents(f) # <<>>
  BY <1>1, <1>3
<1> DEFINE t == Tail(Contents(f))
<1>6. /\ t \in Seq(Pointers) /\ Len(t) = n - 1
      /\ \A i \in 1..(n - 1) : t[i] = Contents(f)[i + 1]
      /\ Head(Contents(f)) = Contents(f)[1]
  BY <1>1, <1>3, <1>5, HeadTailProperties
<1>7. ASSUME NEW i \in 1..(n - 1) PROVE Contents(g)[i] = t[i]
  <2>1. i + 1 \in 1..n /\ i \in Nat /\ i >= 1
    BY <1>1
  <2>2. Contents(g)[i] = f.data[Slot(NextIndex(f.out) + i - 1)]
    BY <1>2 DEF Contents
  <2>3. Contents(f)[i + 1] = f.data[Slot(f.out + (i + 1) - 1)]
    BY <2>1 DEF Contents
  <2>4. Slot(NextIndex(f.out) + i - 1) = Slot(f.out + (i + 1) - 1)
    <3>1. CASE f.out = IndexWrap - 1
      <4>1. /\ NextIndex(f.out) + i - 1 = i - 1 /\ i - 1 \in Nat
            /\ f.out + (i + 1) - 1 = (i - 1) + IndexWrap
        BY <2>1, <3>1, RingAssumption DEF NextIndex
      <4> QED BY <4>1, TurnsOfSlot
    <3>2. CASE f.out # IndexWrap - 1
      <4>1. NextIndex(f.out) + i - 1 = f.out + (i + 1) - 1
        BY <1>3, <2>1, <3>2 DEF NextIndex
      <4> QED BY <4>1
    <3> QED BY <3>1, <3>2
  <2> QED BY <1>6, <2>2, <2>3, <2>4
<1>8. OldestItem(f) = Contents(f)[1]
  <2>1. f.out + 1 - 1 = f.out /\ 1 \in 1..n
    BY <1>1, <1>3
  <2> QED BY <2>1 DEF OldestItem, Contents
<1> HIDE DEF g, t, n
<1>9. Contents(g) = t
  BY <1>4, <1>6, <1>7, SeqEqual
<1> QED BY <1>5, <1>6, <1>8, <1>9 DEF g, t
-----------------------------------------------------------------------------
(* The owners of the blocks, and the channel                               *)

\* The statements before which a call's pointer designates a block.
Holding == {"huecos", "wmtx", "wundo", "advance_in",
            "advance_out", "runlock", "rsignal", "rdone"}

\* Besides the books: which calls hold a block, what a half-done transfer has
\* copied, and that each block has one owner.
Owners ==
    /\ \A p \in Proc :
          /\ pc[p] \in Holding <=> val[p] # NoBlock
          /\ pc[p] = "advance_in" => cbuf.data[Slot(cbuf.in)] = val[p]
          /\ pc[p] = "advance_out" => HasItem(cbuf) /\ val[p] = Contents(cbuf)[1]
    /\ \A i \in 1..Used(cbuf) : Contents(cbuf)[i] # NoBlock
    /\ SoleOwner

\* What the channel sees of the calls.
Offered == [p \in Proc |-> IF pc[p] \in WriteLabels THEN val[p] ELSE NoBlock]
Taken == [p \in Proc |-> IF pc[p] \in {"runlock", "rsignal", "rdone"}
                         THEN val[p] ELSE NoBlock]

(* The books say that the ring is never overfull, that a writer who may write
   to it finds room, and that a reader who may read it finds an item. *)
LEMMA RingUse ==
    ASSUME Inv
    PROVE  /\ cbuf \in Ring /\ Used(cbuf) \in Nat /\ Used(cbuf) <= max_size
           /\ \A p \in Proc :
                 /\ pc[p] = "advance_in" => HasRoom(cbuf)
                 /\ pc[p] = "advance_out" => HasItem(cbuf)
                 /\ pc[p] = "wmtx" /\ Granted(mtx, p) => HasRoom(cbuf)
                 /\ pc[p] = "rmtx" /\ Granted(mtx, p) => HasItem(cbuf)
<1>1. cbuf \in Ring /\ Used(cbuf) \in Nat
  BY UsedType DEF Inv, DataOK, Ring
<1>2. Used(cbuf) <= max_size
  <2>1. IsFiniteSet(At(HuecoLabels))
    BY EntryAssumption, FS_Subset DEF At
  <2>2. max_size - Used(cbuf) \in Nat
    BY <2>1, UnitsType DEF Inv, HuecosBalance, Ledger
  <2> QED BY <1>1, <2>2, RingAssumption
<1>3. ASSUME NEW p \in Proc, pc[p] \in {"advance_in", "wmtx"}
      PROVE  HasRoom(cbuf)
  <2>1. p \in At(HuecoLabels) /\ Granted(huecos, p)
    BY <1>3 DEF At, HuecoLabels, Inv, HuecosBalance, Ledger, Granted
  <2>2. max_size - Used(cbuf) > 0
    BY <2>1, LedgerHolder, EntryAssumption DEF Inv, HuecosBalance
  <2> QED BY <1>1, <2>2, RingAssumption DEF HasRoom
<1>4. ASSUME NEW p \in Proc, pc[p] \in {"advance_out", "rmtx"}
      PROVE  HasItem(cbuf)
  <2>1. p \in At(ElementoLabels) /\ Granted(elementos, p)
    BY <1>4 DEF At, ElementoLabels, Inv, ElementosBalance, Ledger, Granted
  <2> QED BY <2>1, LedgerHolder, EntryAssumption
            DEF Inv, ElementosBalance, HasItem
<1> QED BY <1>1, <1>2, <1>3, <1>4

(* The books say that one process at a time touches the ring. *)
LEMMA InvExclusive ==
    ASSUME Inv, NEW p \in Proc, NEW q \in Proc, InCritical(p), InCritical(q)
    PROVE  p = q
<1>1. ASSUME NEW r \in Proc, InCritical(r)
      PROVE  r \in At(MtxLabels) /\ Granted(mtx, r)
  BY <1>1 DEF InCritical, At, MtxLabels, Inv, MtxBalance, Ledger, Granted
<1>2. p \in At(MtxLabels) /\ Granted(mtx, p)
  BY <1>1
<1>3. q \in At(MtxLabels) /\ Granted(mtx, q)
  BY <1>1
<1> QED BY <1>2, <1>3, LedgerExclusive, EntryAssumption DEF Inv, MtxBalance

(* A step that leaves the ring and the pointers alone, between statements
   other than the halves of a transfer. *)
LEMMA QuietStep ==
    ASSUME DataOK, Owners, NEW p \in Proc, NEW from, NEW to,
           Goto(p, from, to), UNCHANGED <<val, cbuf>>,
           from \in Holding <=> to \in Holding,
           to \notin {"advance_in", "advance_out"}, from # "advance_out",
           to \in {"runlock", "rsignal", "rdone"} <=>
              from \in {"runlock", "rsignal", "rdone"}
    PROVE  Owners' /\ [Channel!Next]_(Channel!vars)
<1>1. val' = [val EXCEPT ![p] = val[p]]
  BY DEF DataOK
<1>2. /\ pc'[p] = to /\ pc[p] = from
      /\ \A q \in Proc \ {p} : pc'[q] = pc[q] /\ val'[q] = val[q]
  BY DEF Goto, DataOK
<1>3. Owners'
  BY <1>2 DEF Owners, SoleOwner
<1>4. UNCHANGED <<Offered, Taken>>
  <2>1. (from \in WriteLabels <=> to \in WriteLabels) \/ val[p] = NoBlock
    BY <1>2 DEF Owners, Holding, WriteLabels
  <2> QED BY <1>1, <1>2, <2>1 DEF Offered, Taken
<1>5. UNCHANGED Channel!vars
  BY <1>4 DEF Channel!vars, Offered, Taken
<1> QED BY <1>3, <1>5

(* A call that gives up its block leaves the others and the ring alone. *)
LEMMA ForgetBlock ==
    ASSUME DataOK, Owners, NEW p \in Proc, NEW from,
           Goto(p, from, "idle"), val' = [val EXCEPT ![p] = NoBlock],
           UNCHANGED cbuf
    PROVE  Owners'
<1>1. /\ pc'[p] = "idle" /\ val'[p] = NoBlock
      /\ \A q \in Proc \ {p} : pc'[q] = pc[q] /\ val'[q] = val[q]
  BY DEF DataOK, Goto
<1> QED BY <1>1 DEF Owners, SoleOwner, Holding

(* A write begins: the channel is offered a block that nobody has. *)
LEMMA BeginWriteOffers ==
    ASSUME Inv, Owners, NEW p \in Proc, BeginWrite(p)
    PROVE  Owners' /\ [Channel!Next]_(Channel!vars)
<1>1. PICK b \in Block \ InUse : val' = [val EXCEPT ![p] = b]
  BY DEF BeginWrite
<1>2. Goto(p, "idle", "huecos") /\ cbuf' = cbuf /\ DataOK
  BY DEF BeginWrite, Inv
<1>3. /\ Offered' = [Offered EXCEPT ![p] = b] /\ Offered[p] = NoBlock
      /\ Taken' = [Taken EXCEPT ![p] = NoBlock] /\ Taken[p] = NoBlock
      /\ pc'[p] = "huecos" /\ val'[p] = b /\ pc[p] = "idle"
      /\ \A q \in Proc \ {p} : pc'[q] = pc[q] /\ val'[q] = val[q]
  BY <1>1, <1>2 DEF Offered, Taken, WriteLabels, DataOK, Goto
<1>4. /\ b # NoBlock /\ \A q \in Proc : val[q] # b
      /\ \A i \in 1..Used(cbuf) : Contents(cbuf)[i] # b
  BY <1>1, EntryAssumption DEF InUse
<1>5. Owners'
  BY <1>2, <1>3, <1>4 DEF Owners, SoleOwner, Holding
<1>6. Taken' = Taken
  BY <1>3 DEF Taken
<1>7. b \notin Channel!InUse
  <2>1. Len(Contents(cbuf)) = Used(cbuf)
    BY RingUse, ContentsAre
  <2> QED BY <1>4, <2>1 DEF Channel!InUse
<1>8. Channel!Offer(p, b)
  BY <1>1, <1>2, <1>3, <1>6, <1>7 DEF Channel!Offer, Channel!Idle, Offered, Taken
<1> QED BY <1>1, <1>5, <1>8 DEF Channel!Next

(* A write is interrupted: its block is withdrawn. *)
LEMMA InterruptWithdraws ==
    ASSUME Inv, Owners, NEW p \in Proc, InterruptHuecos(p) \/ UndoHuecos(p)
    PROVE  Owners' /\ [Channel!Next]_(Channel!vars)
<1>1. PICK from \in {"huecos", "wundo"} : Goto(p, from, "idle")
  BY DEF InterruptHuecos, UndoHuecos
<1>2. val' = [val EXCEPT ![p] = NoBlock] /\ cbuf' = cbuf /\ DataOK
  BY DEF InterruptHuecos, UndoHuecos, Inv
<1>3. Owners'
  BY <1>1, <1>2, ForgetBlock
<1>4. /\ Offered' = [Offered EXCEPT ![p] = NoBlock] /\ Offered[p] = val[p]
      /\ Taken' = [Taken EXCEPT ![p] = NoBlock] /\ Taken[p] = NoBlock
  BY <1>1, <1>2 DEF Offered, Taken, WriteLabels, DataOK, Goto
<1>5. Taken' = Taken
  BY <1>4 DEF Taken
<1>6. val[p] # NoBlock
  BY <1>1 DEF Owners, Holding, Goto
<1>7. Channel!Withdraw(p)
  BY <1>2, <1>4, <1>5, <1>6 DEF Channel!Withdraw, Offered, Taken
<1> QED BY <1>3, <1>7 DEF Channel!Next

(* A read ends: its block is freed. *)
LEMMA FreeBlockDrops ==
    ASSUME Inv, Owners, NEW p \in Proc, FreeBlock(p)
    PROVE  Owners' /\ [Channel!Next]_(Channel!vars)
<1>1. /\ Goto(p, "rdone", "idle") /\ val' = [val EXCEPT ![p] = NoBlock]
      /\ cbuf' = cbuf /\ DataOK
  BY DEF FreeBlock, Inv
<1>2. Owners'
  BY <1>1, ForgetBlock
<1>3. /\ Offered' = [Offered EXCEPT ![p] = NoBlock] /\ Offered[p] = NoBlock
      /\ Taken' = [Taken EXCEPT ![p] = NoBlock] /\ Taken[p] = val[p]
  BY <1>1 DEF Offered, Taken, WriteLabels, DataOK, Goto
<1>4. Offered' = Offered
  BY <1>3 DEF Offered
<1>5. val[p] # NoBlock
  BY <1>1 DEF Owners, Holding, Goto
<1>6. Channel!Drop(p)
  BY <1>1, <1>3, <1>4, <1>5 DEF Channel!Drop, Offered, Taken
<1> QED BY <1>2, <1>6 DEF Channel!Next

(* The first half of kfifo_in: the channel sees nothing yet. *)
LEMMA CopyInStutters ==
    ASSUME Inv, Owners, NEW p \in Proc, KfifoInCopy(p)
    PROVE  Owners' /\ [Channel!Next]_(Channel!vars)
<1>1. pc[p] = "wmtx" /\ Granted(mtx, p) /\ DataOK /\ cbuf \in Ring
  BY RingUse DEF KfifoInCopy, Goto, Inv
<1>2. HasRoom(cbuf)
  BY <1>1, RingUse
<1>3. /\ Goto(p, "wmtx", "advance_in") /\ cbuf' = CopyIn(cbuf, val[p])
      /\ val' = val
  BY <1>2 DEF KfifoInCopy
<1>4. /\ Contents(cbuf') = Contents(cbuf) /\ Used(cbuf') = Used(cbuf)
      /\ cbuf'.data[Slot(cbuf'.in)] = val[p]
  <2>1. val[p] \in Pointers
    BY <1>1 DEF DataOK
  <2>2. Used(CopyIn(cbuf, val[p])) = Used(cbuf)
    BY <1>1, <2>1, CopyInEffect
  <2> QED BY <1>1, <1>2, <1>3, <2>1, <2>2, CopyInContents
<1>5. ASSUME NEW q \in Proc \ {p}
      PROVE  /\ pc'[q] = pc[q]
             /\ pc[q] # "advance_in" /\ pc[q] # "advance_out"
  <2>1. InCritical(p)
    BY <1>1 DEF InCritical
  <2>2. ~ InCritical(q)
    BY <1>5, <2>1, InvExclusive
  <2> QED BY <1>3, <1>5, <2>2 DEF InCritical, Goto, DataOK
<1>6. pc'[p] = "advance_in" /\ val[p] # NoBlock
  BY <1>1, <1>3 DEF Goto, DataOK, Owners, Holding
<1>7. Owners'
  BY <1>1, <1>3, <1>4, <1>5, <1>6 DEF Owners, SoleOwner, Holding
<1>8. val' = [val EXCEPT ![p] = val[p]]
  BY <1>1, <1>3 DEF DataOK
<1>9. Offered' = Offered /\ Taken' = Taken
  BY <1>1, <1>3, <1>8 DEF Offered, Taken, WriteLabels, DataOK, Goto
<1>10. UNCHANGED Channel!vars
  BY <1>4, <1>9 DEF Channel!vars, Offered, Taken
<1> QED BY <1>7, <1>10

(* The second half of kfifo_in: the block enters the channel. *)
LEMMA AdvanceInPuts ==
    ASSUME Inv, Owners, NEW p \in Proc, KfifoInAdvance(p)
    PROVE  Owners' /\ [Channel!Next]_(Channel!vars)
<1>1. /\ pc[p] = "advance_in" /\ DataOK /\ cbuf \in Ring
      /\ Used(cbuf) \in Nat /\ Used(cbuf) <= max_size
  BY RingUse DEF KfifoInAdvance, Goto, Inv
<1>2. HasRoom(cbuf)
  BY <1>1, RingUse
<1>3. /\ Goto(p, "advance_in", "wunlock") /\ cbuf' = AdvanceIn(cbuf)
      /\ val' = [val EXCEPT ![p] = NoBlock]
  BY DEF KfifoInAdvance
<1> DEFINE n == Used(cbuf)
           b == val[p]
<1>4. cbuf.data[Slot(cbuf.in)] = b /\ b # NoBlock /\ b \in Pointers
  BY <1>1 DEF Owners, Holding, DataOK
<1>5. /\ Contents(cbuf') = Append(Contents(cbuf), b) /\ Used(cbuf') = n + 1
      /\ Contents(cbuf) \in Seq(Pointers) /\ Len(Contents(cbuf)) = n
  BY <1>1, <1>2, <1>3, <1>4, AdvanceInContents, AdvanceInEffect, ContentsAre
<1>6. /\ \A i \in 1..n : Contents(cbuf')[i] = Contents(cbuf)[i]
      /\ Contents(cbuf')[n + 1] = b
  BY <1>1, <1>4, <1>5, AppendProperties
<1>7. /\ pc'[p] = "wunlock" /\ val'[p] = NoBlock
      /\ Offered' = [Offered EXCEPT ![p] = NoBlock] /\ Offered[p] = b
      /\ Taken' = [Taken EXCEPT ![p] = NoBlock] /\ Taken[p] = NoBlock
  BY <1>1, <1>3 DEF Offered, Taken, WriteLabels, DataOK, Goto
<1>8. ASSUME NEW q \in Proc \ {p}
      PROVE  /\ pc'[q] = pc[q] /\ val'[q] = val[q] /\ val[q] # b
             /\ pc[q] # "advance_in" /\ pc[q] # "advance_out"
  <2>1. InCritical(p)
    BY <1>1 DEF InCritical
  <2>2. ~ InCritical(q)
    BY <1>8, <2>1, InvExclusive
  <2>3. val[q] # b
    BY <1>4, <1>8 DEF Owners, SoleOwner
  <2> QED BY <1>1, <1>3, <1>8, <2>2, <2>3 DEF InCritical, Goto, DataOK
<1>9. \A i \in 1..(n + 1) : i # n + 1 => i \in 1..n
  BY <1>1
<1>10. \A i \in 1..n : Contents(cbuf)[i] # b
  BY <1>1 DEF Owners, SoleOwner
<1>11. SoleOwner'
  <2>1. \A q, r \in Proc : val'[q] = val'[r] /\ val'[q] # NoBlock => q = r
    BY <1>7, <1>8 DEF Owners, SoleOwner
  <2>2. \A i, j \in 1..(n + 1) :
           Contents(cbuf')[i] = Contents(cbuf')[j] => i = j
    BY <1>6, <1>9, <1>10 DEF Owners, SoleOwner
  <2>3. \A q \in Proc, i \in 1..(n + 1) : val'[q] # Contents(cbuf')[i]
    BY <1>4, <1>6, <1>7, <1>8, <1>9 DEF Owners, SoleOwner
  <2> QED BY <1>5, <2>1, <2>2, <2>3 DEF SoleOwner
<1>12. Owners'
  <2>1. \A q \in Proc : pc'[q] \in Holding <=> val'[q] # NoBlock
    BY <1>7, <1>8 DEF Owners, Holding
  <2>2. \A q \in Proc : pc'[q] # "advance_in" /\ pc'[q] # "advance_out"
    BY <1>7, <1>8
  <2>3. \A i \in 1..(n + 1) : Contents(cbuf')[i] # NoBlock
    BY <1>4, <1>6, <1>9 DEF Owners
  <2> QED BY <1>5, <1>11, <2>1, <2>2, <2>3 DEF Owners
<1>13. Taken' = Taken
  BY <1>7 DEF Taken
<1>14. Channel!Put(p)
  BY <1>2, <1>4, <1>5, <1>7, <1>13
     DEF Channel!Put, HasRoom, Offered, Taken
<1> QED BY <1>12, <1>14 DEF Channel!Next

(* The first half of kfifo_out: the reader has a copy of the pointer, but the
   block is still the channel's. *)
LEMMA CopyOutStutters ==
    ASSUME Inv, Owners, NEW p \in Proc, KfifoOutCopy(p)
    PROVE  Owners' /\ [Channel!Next]_(Channel!vars)
<1>1. /\ pc[p] = "rmtx" /\ Granted(mtx, p) /\ DataOK /\ cbuf \in Ring
      /\ Used(cbuf) \in Nat /\ Used(cbuf) <= max_size
  BY RingUse DEF KfifoOutCopy, Goto, Inv
<1>2. HasItem(cbuf)
  BY <1>1, RingUse
<1> DEFINE b == Contents(cbuf)[1]
<1>3. /\ Goto(p, "rmtx", "advance_out") /\ cbuf' = cbuf
      /\ val' = [val EXCEPT ![p] = b]
  BY <1>1, <1>2, AdvanceOutContents DEF KfifoOutCopy
<1>4. 1 \in 1..Used(cbuf) /\ b # NoBlock
  BY <1>1, <1>2 DEF HasItem, Owners
<1>5. /\ pc'[p] = "advance_out" /\ val'[p] = b
      /\ Offered' = [Offered EXCEPT ![p] = NoBlock] /\ Offered[p] = NoBlock
      /\ Taken' = [Taken EXCEPT ![p] = NoBlock] /\ Taken[p] = NoBlock
  BY <1>1, <1>3 DEF Offered, Taken, WriteLabels, DataOK, Goto
<1>6. ASSUME NEW q \in Proc \ {p}
      PROVE  /\ pc'[q] = pc[q] /\ val'[q] = val[q] /\ val[q] # b
             /\ pc[q] # "advance_in" /\ pc[q] # "advance_out"
  <2>1. InCritical(p)
    BY <1>1 DEF InCritical
  <2>2. ~ InCritical(q)
    BY <1>6, <2>1, InvExclusive
  <2>3. val[q] # b
    BY <1>4, <1>6, <2>2 DEF Owners, SoleOwner, InCritical
  <2> QED BY <1>1, <1>3, <1>6, <2>2, <2>3 DEF InCritical, Goto, DataOK
<1>7. Owners'
  BY <1>2, <1>3, <1>4, <1>5, <1>6 DEF Owners, SoleOwner, Holding
<1>8. Offered' = Offered /\ Taken' = Taken
  BY <1>5 DEF Offered, Taken
<1>9. UNCHANGED Channel!vars
  BY <1>3, <1>8 DEF Channel!vars, Offered, Taken
<1> QED BY <1>7, <1>9

(* The second half of kfifo_out: the oldest block leaves the channel. *)
LEMMA AdvanceOutTakes ==
    ASSUME Inv, Owners, NEW p \in Proc, KfifoOutAdvance(p)
    PROVE  Owners' /\ [Channel!Next]_(Channel!vars)
<1>1. /\ pc[p] = "advance_out" /\ DataOK /\ cbuf \in Ring
      /\ Used(cbuf) \in Nat /\ Used(cbuf) <= max_size
  BY RingUse DEF KfifoOutAdvance, Goto, Inv
<1>2. HasItem(cbuf)
  BY <1>1, RingUse
<1>3. /\ Goto(p, "advance_out", "runlock") /\ cbuf' = AdvanceOut(cbuf)
      /\ val' = val
  BY DEF KfifoOutAdvance
<1> DEFINE n == Used(cbuf)
           b == Contents(cbuf)[1]
<1>4. n > 0 /\ val[p] = b /\ b # NoBlock /\ Used(cbuf') = n - 1
  BY <1>1, <1>2, <1>3, AdvanceOutEffect DEF HasItem, Owners, Holding
<1>5. /\ Contents(cbuf') = Tail(Contents(cbuf)) /\ Head(Contents(cbuf)) = b
      /\ Contents(cbuf) # <<>>
      /\ Contents(cbuf) \in Seq(Pointers) /\ Len(Contents(cbuf)) = n
  BY <1>1, <1>2, <1>3, AdvanceOutContents, ContentsAre
<1>6. \A i \in 1..(n - 1) : /\ Contents(cbuf')[i] = Contents(cbuf)[i + 1]
                            /\ i + 1 \in 1..n /\ i + 1 # 1
  BY <1>1, <1>4, <1>5, HeadTailProperties
<1>7. val' = [val EXCEPT ![p] = b]
  BY <1>1, <1>3, <1>4 DEF DataOK
<1>8. /\ pc'[p] = "runlock"
      /\ Offered' = [Offered EXCEPT ![p] = NoBlock] /\ Offered[p] = NoBlock
      /\ Taken' = [Taken EXCEPT ![p] = b] /\ Taken[p] = NoBlock
  BY <1>1, <1>3, <1>7 DEF Offered, Taken, WriteLabels, DataOK, Goto
<1>9. ASSUME NEW q \in Proc \ {p}
      PROVE  /\ pc'[q] = pc[q]
             /\ pc[q] # "advance_in" /\ pc[q] # "advance_out"
  <2>1. InCritical(p)
    BY <1>1 DEF InCritical
  <2>2. ~ InCritical(q)
    BY <1>9, <2>1, InvExclusive
  <2> QED BY <1>1, <1>3, <1>9, <2>2 DEF InCritical, Goto, DataOK
<1>10. SoleOwner'
  <2>1. \A q, r \in Proc : val'[q] = val'[r] /\ val'[q] # NoBlock => q = r
    BY <1>3 DEF Owners, SoleOwner
  <2>2. \A i, j \in 1..(n - 1) :
           Contents(cbuf')[i] = Contents(cbuf')[j] => i = j
    <3>1. \A i, j \in 1..(n - 1) : i + 1 = j + 1 => i = j
      BY <1>1
    <3> QED BY <1>6, <3>1 DEF Owners, SoleOwner
  <2>3. \A q \in Proc, i \in 1..(n - 1) : val'[q] # Contents(cbuf')[i]
    BY <1>3, <1>6 DEF Owners, SoleOwner
  <2> QED BY <1>4, <2>1, <2>2, <2>3 DEF SoleOwner
<1>11. Owners'
  <2>1. \A q \in Proc : pc'[q] \in Holding <=> val'[q] # NoBlock
    BY <1>1, <1>3, <1>8, <1>9 DEF Owners, Holding
  <2>2. \A q \in Proc : pc'[q] # "advance_in" /\ pc'[q] # "advance_out"
    BY <1>8, <1>9
  <2>3. \A i \in 1..(n - 1) : Contents(cbuf')[i] # NoBlock
    BY <1>6 DEF Owners
  <2> QED BY <1>4, <1>10, <2>1, <2>2, <2>3 DEF Owners
<1>12. Offered' = Offered
  BY <1>8 DEF Offered
<1>13. Channel!Take(p)
  BY <1>5, <1>8, <1>12 DEF Channel!Take, Channel!Idle, Offered, Taken
<1> QED BY <1>11, <1>13 DEF Channel!Next

(* Every other statement: only the semaphores and the place of p change. *)
LEMMA OtherStepsStutter ==
    ASSUME Inv, Owners, NEW p \in Proc,
           WriteLock(p) \/ InterruptWriteLock(p) \/ WriteUnlock(p)
             \/ SignalElementos(p) \/ BeginRead(p) \/ InterruptElementos(p)
             \/ ReadLock(p) \/ InterruptReadLock(p) \/ UndoElementos(p)
             \/ ReadUnlock(p) \/ SignalHuecos(p)
    PROVE  Owners' /\ [Channel!Next]_(Channel!vars)
<1>1. DataOK /\ UNCHANGED <<val, cbuf>>
  BY DEF Inv, WriteLock, InterruptWriteLock, WriteUnlock, SignalElementos,
         BeginRead, InterruptElementos, ReadLock, InterruptReadLock,
         UndoElementos, ReadUnlock, SignalHuecos
<1>2. \/ Goto(p, "huecos", "wmtx")     \/ Goto(p, "wmtx", "wundo")
      \/ Goto(p, "wunlock", "wsignal") \/ Goto(p, "wsignal", "idle")
      \/ Goto(p, "idle", "elementos")  \/ Goto(p, "elementos", "idle")
      \/ Goto(p, "elementos", "rmtx")  \/ Goto(p, "rmtx", "rundo")
      \/ Goto(p, "rundo", "idle")      \/ Goto(p, "runlock", "rsignal")
      \/ Goto(p, "rsignal", "rdone")
  BY DEF WriteLock, InterruptWriteLock, WriteUnlock, SignalElementos,
         BeginRead, InterruptElementos, ReadLock, InterruptReadLock,
         UndoElementos, ReadUnlock, SignalHuecos
<1>3. PICK from, to :
         /\ Goto(p, from, to)
         /\ from \in Holding <=> to \in Holding
         /\ to \notin {"advance_in", "advance_out"} /\ from # "advance_out"
         /\ to \in {"runlock", "rsignal", "rdone"} <=>
               from \in {"runlock", "rsignal", "rdone"}
  BY <1>2 DEF Holding
<1> QED BY <1>1, <1>3, QuietStep

(* At first the ring is empty and nobody holds a block. *)
LEMMA InitOwners == Init => Owners /\ Channel!Init
<1> SUFFICES ASSUME Init PROVE Owners /\ Channel!Init
  OBVIOUS
<1>1. Used(cbuf) = 0
  BY DEF Init, NewKfifo, Used
<1>2. Owners
  BY <1>1 DEF Init, Owners, SoleOwner, Holding
<1>3. Contents(cbuf) = <<>>
  BY <1>1 DEF Contents
<1> QED BY <1>2, <1>3 DEF Channel!Init, Init, WriteLabels

(* Every step keeps the owners, and is a step of the channel or none. *)
LEMMA NextOwners ==
    Inv /\ Owners /\ [Next]_vars => Owners' /\ [Channel!Next]_(Channel!vars)
<1> SUFFICES ASSUME Inv, Owners, [Next]_vars
             PROVE  Owners' /\ [Channel!Next]_(Channel!vars)
  OBVIOUS
<1>1. CASE UNCHANGED vars
  BY <1>1 DEF vars, Owners, SoleOwner, Channel!vars
<1>2. ASSUME NEW p \in Proc,
             BeginWrite(p) \/ BeginRead(p) \/ WriteStep(p) \/ ReadStep(p)
               \/ Interrupt(p)
      PROVE  Owners' /\ [Channel!Next]_(Channel!vars)
  BY <1>2, BeginWriteOffers, InterruptWithdraws, FreeBlockDrops,
     CopyInStutters, AdvanceInPuts, CopyOutStutters, AdvanceOutTakes,
     OtherStepsStutter DEF WriteStep, ReadStep, Interrupt
<1> QED BY <1>1, <1>2 DEF Next

(* Each block has one owner, a call or the ring, from vmalloc to vfree: none is
   freed twice or read after it was freed. *)
THEOREM OneOwner == Spec => []SoleOwner
<1>1. Owners => SoleOwner
  BY DEF Owners
<1> QED BY <1>1, InvHolds, InitOwners, NextOwners, PTL DEF Spec

(* The entry implements the bounded channel: what is written enters it whole
   or not at all, and leaves it in the order it came, to one reader each. *)
THEOREM IsChannel == Spec => ImplementsChannel
<1> QED BY InvHolds, InitOwners, NextOwners, PTL
          DEF Spec, ImplementsChannel, Channel!Spec
=============================================================================
